------------------------ MODULE LendingOperations -------------------------
(***************************************************************************)
(* Collateralised lending: internal/v2/execution/extended_lending.go (both *)
(* parties on one shard), extended_cross_lending.go (parties on different  *)
(* shards) and internal/v2/lending.                                        *)
(*                                                                         *)
(* terms = [lender, borrower, principal, collateral, rate, maturity], the  *)
(* rate in tenths of the principal (the code uses basis points).           *)
(***************************************************************************)
EXTENDS ShardObjects

CONSTANT Grace      \* CrossShardSettlementGraceBlocks

ASSUME GraceAssumption == Grace \in Nat

Magnitude(n) == IF n < 0 THEN -n ELSE n

(* RepaymentDue: the interest is truncated towards zero for either sign.   *)
RepaymentDue(terms) ==
    LET interest == (terms.principal * Magnitude(terms.rate)) \div 10
    IN  IF terms.rate < 0 THEN terms.principal - interest ELSE terms.principal + interest

ValidTerms(terms) ==
    /\ terms.lender # terms.borrower
    /\ terms.principal > 0
    /\ terms.maturity > 0
    /\ terms.rate \in -9..100
    /\ RepaymentDue(terms) \in 1..MaxUint

SameShard(terms) == ShardOf[terms.lender] = ShardOf[terms.borrower]

ChangeOnly(t) == \A i \in DOMAIN t.outputs : t.outputs[i].owner = t.sender

(* lendingPayout: a stamped coin on this shard; nothing is paid when the   *)
(* amount is zero.                                                         *)
Payout(t, h, txid, owner, amount, index) ==
    IF amount = 0 THEN {}
    ELSE {Object(ObjectID(txid, index, HomeShard(t)), CoinSpec(owner, NativeToken, amount, h))}

Made(t, txid, index, owner, kind, data) ==
    Object(ObjectID(txid, index, HomeShard(t)), [owner |-> owner, kind |-> kind, data |-> data])

Message(shard, index, owner, kind, data) ==
    [shard |-> shard, index |-> index,
     output |-> [owner |-> owner, kind |-> kind, data |-> data]]

-----------------------------------------------------------------------------
(* One shard.                                                              *)

executeLoanOffer(t, h, txid) ==
    LET terms == t.arg IN
    accountNativeValue(
        /\ ValidTerms(terms) /\ terms.lender = t.sender
        /\ terms.maturity > h
        /\ SameShard(terms) /\ ChangeOnly(t),
        t, txid, {}, 0, terms.principal,
        {Made(t, txid, LoanOfferIndex, terms.lender, "loanOffer", terms)}, {})

executeLoanCancel(t, h, txid) ==
    LET offer == InputByID(t, t.arg.object)
        terms == offer.data
    IN  accountNativeValue(
            /\ HasInput(t, t.arg.object, "loanOffer") /\ offer.owner = t.sender
            /\ ChangeOnly(t),
            t, txid, {offer}, terms.principal, terms.principal,
            Payout(t, h, txid, terms.lender, terms.principal, PayoutIndex), {})

executeLoanAccept(t, h, txid) ==
    LET offer == InputByID(t, t.arg.object)
        terms == offer.data
        loan == [offer |-> offer.id, terms |-> terms, accepted |-> h]
    IN  accountNativeValue(
            /\ HasInput(t, t.arg.object, "loanOffer")
            /\ terms.borrower = t.sender /\ h < terms.maturity
            /\ SameShard(terms) /\ ChangeOnly(t)
            /\ terms.principal + terms.collateral <= MaxUint,
            t, txid, {offer}, terms.principal, terms.principal + terms.collateral,
            Payout(t, h, txid, terms.borrower, terms.principal, PayoutIndex)
              \cup {Made(t, txid, LoanIndex, terms.borrower, "loan", loan)}, {})

(* No height bound: a loan is repayable until its lender has claimed it.   *)
executeLoanRepay(t, h, txid) ==
    LET loan == InputByID(t, t.arg.object)
        terms == loan.data.terms
        due == RepaymentDue(terms)
    IN  accountNativeValue(
            /\ HasInput(t, t.arg.object, "loan") /\ loan.owner = t.sender
            /\ ChangeOnly(t)
            /\ due + terms.collateral <= MaxUint,
            t, txid, {loan}, terms.collateral, due + terms.collateral,
            Payout(t, h, txid, terms.lender, due, PayoutIndex)
              \cup Payout(t, h, txid, terms.borrower, terms.collateral, PayoutIndex + 1), {})

(* A default that may be declared at maturity, not only after it.          *)
executeLoanDefaultEarly(t, h, txid) ==
    LET loan == InputByID(t, t.arg.object)
        terms == loan.data.terms
    IN  accountNativeValue(
            /\ HasInput(t, t.arg.object, "loan")
            /\ terms.lender = t.sender /\ h >= terms.maturity
            /\ ChangeOnly(t),
            t, txid, {loan}, terms.collateral, terms.collateral,
            Payout(t, h, txid, terms.lender, terms.collateral, PayoutIndex), {})

executeLoanDefault(t, h, txid) ==
    LET loan == InputByID(t, t.arg.object)
        terms == loan.data.terms
    IN  accountNativeValue(
            /\ HasInput(t, t.arg.object, "loan")
            /\ terms.lender = t.sender /\ h > terms.maturity
            /\ ChangeOnly(t),
            t, txid, {loan}, terms.collateral, terms.collateral,
            Payout(t, h, txid, terms.lender, terms.collateral, PayoutIndex), {})

-----------------------------------------------------------------------------
(* Two shards.  The principal travels with the offer, the collateral with  *)
(* the acceptance and the amount due with the repayment.                   *)

executeCrossLoanOffer(t, h, txid) ==
    LET terms == t.arg
        there == ShardOf[terms.borrower]
        offer == [offer |-> ObjectID(txid, CrossOfferIndex, there), offered |-> h, terms |-> terms]
    IN  accountNativeValue(
            /\ ValidTerms(terms) /\ terms.lender = t.sender
            /\ terms.maturity > h /\ terms.maturity + Grace <= MaxUint
            /\ ~SameShard(terms) /\ ChangeOnly(t),
            t, txid, {}, 0, terms.principal, {},
            {Message(there, CrossOfferIndex, terms.borrower, "crossOffer", offer)})

executeCrossLoanAccept(t, h, txid) ==
    LET offer == InputByID(t, t.arg.object)
        terms == offer.data.terms
        there == ShardOf[terms.lender]
        acceptanceID == ObjectID(txid, CrossAcceptanceIndex, there)
        activationID == ObjectID(txid, CrossActivationIndex, HomeShard(t))
        acceptance == [offer |-> offer.id, activation |-> activationID,
                       accepted |-> h, terms |-> terms]
        activation == [acceptance |-> acceptanceID, accepted |-> h, terms |-> terms]
    IN  accountNativeValue(
            /\ HasInput(t, t.arg.object, "crossOffer") /\ offer.owner = t.sender
            /\ offer.data.offer = offer.id
            /\ terms.borrower = t.sender /\ h < terms.maturity
            /\ ChangeOnly(t)
            /\ terms.principal + terms.collateral <= MaxUint,
            t, txid, {offer}, terms.principal, terms.principal + terms.collateral,
            Payout(t, h, txid, terms.borrower, terms.principal, CrossPrincipalIndex)
              \cup {Made(t, txid, CrossActivationIndex, terms.borrower, "crossActivation", activation)},
            {Message(there, CrossAcceptanceIndex, terms.lender, "crossAcceptance", acceptance)})

executeCrossLoanRepay(t, h, txid) ==
    LET activation == InputByID(t, t.arg.object)
        terms == activation.data.terms
        repayment == [acceptance |-> activation.data.acceptance, activation |-> activation.id,
                      amount |-> RepaymentDue(terms), paid |-> h, terms |-> terms]
    IN  accountNativeValue(
            /\ HasInput(t, t.arg.object, "crossActivation") /\ activation.owner = t.sender
            /\ h <= terms.maturity
            /\ ChangeOnly(t),
            t, txid, {activation}, 0, RepaymentDue(terms), {},
            {Message(ShardOf[terms.lender], CrossRepaymentIndex, terms.lender,
                     "crossRepayment", repayment)})

(* Any account of the lender's shard may settle.                           *)
executeCrossLoanSettle(t, h, txid) ==
    LET acceptance == InputOfKind(t, "crossAcceptance")
        repayment == InputOfKind(t, "crossRepayment")
        terms == acceptance.data.terms
        due == RepaymentDue(terms)
        returned == CoinSpec(terms.borrower, NativeToken, terms.collateral, h)
    IN  accountNativeValue(
            /\ HasOneOf(t, "crossAcceptance") /\ HasOneOf(t, "crossRepayment")
            /\ acceptance.owner = terms.lender /\ repayment.owner = terms.lender
            /\ repayment.data.acceptance = acceptance.id
            /\ repayment.data.activation = acceptance.data.activation
            /\ repayment.data.amount = due
            /\ repayment.data.paid <= terms.maturity
            /\ repayment.data.terms = terms
            /\ ChangeOnly(t)
            /\ terms.collateral + due <= MaxUint,
            t, txid, {acceptance, repayment}, terms.collateral + due, terms.collateral + due,
            Payout(t, h, txid, terms.lender, due, PayoutIndex),
            IF terms.collateral = 0 THEN {}
            ELSE {[shard |-> ShardOf[terms.borrower], index |-> CrossReturnIndex,
                   output |-> returned]})

executeCrossLoanDefault(t, h, txid) ==
    LET acceptance == InputByID(t, t.arg.object)
        terms == acceptance.data.terms
    IN  accountNativeValue(
            /\ HasInput(t, t.arg.object, "crossAcceptance") /\ acceptance.owner = t.sender
            /\ h > terms.maturity + Grace
            /\ ChangeOnly(t),
            t, txid, {acceptance}, terms.collateral, terms.collateral,
            Payout(t, h, txid, terms.lender, terms.collateral, PayoutIndex), {})

(* Any account of the borrower's shard may expire an unaccepted offer.     *)
executeCrossLoanExpire(t, h, txid) ==
    LET offer == InputByID(t, t.arg.object)
        terms == offer.data.terms
        returned == CoinSpec(terms.lender, NativeToken, terms.principal, h)
    IN  accountNativeValue(
            /\ HasInput(t, t.arg.object, "crossOffer")
            /\ h > terms.maturity + Grace
            /\ ChangeOnly(t),
            t, txid, {offer}, terms.principal, terms.principal, {},
            {[shard |-> ShardOf[terms.lender], index |-> CrossReturnIndex, output |-> returned]})

=============================================================================
