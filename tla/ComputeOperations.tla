------------------------ MODULE ComputeOperations -------------------------
(***************************************************************************)
(* The on-chain compute market: extended_compute.go of the engine and the  *)
(* job record of internal/v2/compute (onchain.go, messages.go, state.go).  *)
(*                                                                         *)
(*   job     = [owner, maxPrice, collateral, mode, replicas, deadline]     *)
(*   offer   = [provider, price, collateral, modes, until]                 *)
(*   record  = [id, job, escrow, status, assignments, results]             *)
(*                                                                         *)
(* Assignments and results are kept sorted by provider in the record's     *)
(* encoding, so they are sets here.  Resource vectors are left out: an     *)
(* offer matches a job by collateral and verification mode.                *)
(***************************************************************************)
EXTENDS ShardObjects

requiredAssignments(job) == IF job.mode = "replicated" THEN job.replicas ELSE 1

supportsMode(modes, mode) == mode \in modes \/ "hybrid" \in modes

offerMatchesJob(offer, job) ==
    offer.collateral >= job.collateral /\ supportsMode(offer.modes, job.mode)

ValidJob(job) == job.maxPrice > 0 /\ job.deadline > 0 /\ (job.mode = "replicated" => job.replicas >= 2)

Providers(record) == {a.provider : a \in record.assignments}
Reporters(record) == {r.provider : r \in record.results}

Prices(assignments) ==
    LET price(a) == a.price IN F!MapThenSumSet(price, assignments)

(* AssignOnChain.                                                          *)
CanAssign(record, offer, h) ==
    /\ record.status \notin {"settled", "expired"}
    /\ h > 0 /\ h <= record.job.deadline /\ h <= offer.until
    /\ offerMatchesJob(offer, record.job)
    /\ offer.provider \notin Providers(record)
    /\ Cardinality(record.assignments) < requiredAssignments(record.job)
    /\ offer.price <= record.job.maxPrice
    /\ Prices(record.assignments) + offer.price <= record.job.maxPrice
    /\ Prices(record.assignments) + offer.price <= record.escrow

AssignOnChain(record, offerID, offer) ==
    LET added == record.assignments
                   \cup {[offer |-> offerID, provider |-> offer.provider, price |-> offer.price]}
    IN  [record EXCEPT !.assignments = added,
                       !.status = IF Cardinality(added) = requiredAssignments(record.job)
                                  THEN "assigned" ELSE @]

(* SubmitOnChainResult.                                                    *)
CanSubmit(record, result) ==
    /\ result.completed > 0 /\ result.completed <= record.job.deadline
    /\ record.status \in {"assigned", "awaiting"}
    /\ result.provider \in Providers(record)
    /\ result.provider \notin Reporters(record)

SubmitOnChainResult(record, result) ==
    LET added == record.results \cup {result}
    IN  [record EXCEPT !.results = added,
                       !.status = IF Cardinality(added) = requiredAssignments(record.job)
                                  THEN "awaiting" ELSE @]

(* A settlement says who is paid, whose collateral goes back and whose     *)
(* collateral the owner keeps.                                             *)
Roots(record) == {r.root : r \in record.results}
Backers(record, root) == {r.provider : r \in {x \in record.results : x.root = root}}

CanFinalize(record) ==
    /\ record.job.mode = "replicated"
    /\ record.status = "awaiting"
    /\ Cardinality(record.results) = requiredAssignments(record.job)
    /\ Cardinality(Roots(record)) = 1
    /\ Prices(record.assignments) <= record.escrow

FinalizeOnChain(record) ==
    [root |-> CHOOSE r \in Roots(record) : TRUE, paid |-> record.assignments, slashed |-> {},
     expired |-> FALSE]

StrictMajority(record, root) ==
    Cardinality(Backers(record, root)) * 2 > Cardinality(record.results)

(* Paying every assignee, whatever it reported.                            *)
ResolvePayingAll(record) ==
    LET majority == CHOOSE root \in Roots(record) : StrictMajority(record, root)
    IN  [root |-> majority, paid |-> record.assignments, slashed |-> {}, expired |-> FALSE]

CanResolve(record) ==
    /\ record.job.mode = "replicated"
    /\ Cardinality(record.results) >= 3
    /\ Cardinality(record.results) = Cardinality(record.assignments)
    /\ \E root \in Roots(record) : StrictMajority(record, root)
    /\ Prices(record.assignments) <= record.escrow

ResolveReplicatedMajority(record) ==
    LET majority == CHOOSE root \in Roots(record) : StrictMajority(record, root)
        agreeing == {a \in record.assignments : a.provider \in Backers(record, majority)}
    IN  [root |-> majority, paid |-> agreeing, slashed |-> record.assignments \ agreeing,
         expired |-> FALSE]

CanExpire(record, h) ==
    record.status \notin {"settled", "expired"} /\ h > record.job.deadline

ExpireOnChain(record) ==
    [root |-> "none", paid |-> {}, slashed |-> {}, expired |-> TRUE]

jobLockedValue(record) ==
    record.escrow + Cardinality(record.assignments) * record.job.collateral

(* settlementOutputs: one coin per account, the payment and the returned   *)
(* collateral of a provider merged, the owner receiving the unspent escrow *)
(* and the slashed collateral.                                             *)
Refund(record, s) == record.escrow - Prices(s.paid)
SlashReward(record, s) == Cardinality(s.slashed) * record.job.collateral

SettlementAmount(record, s, account) ==
    Prices({a \in s.paid : a.provider = account})
      + Cardinality({a \in record.assignments \ s.slashed : a.provider = account})
          * record.job.collateral
      + (IF account = record.job.owner THEN Refund(record, s) + SlashReward(record, s) ELSE 0)

(* Every provider that is paid or gets collateral back has an entry, even  *)
(* one of zero; the owner only has one when it is positive.                *)
SettlementAccounts(record, s) ==
    {a.provider : a \in record.assignments \ s.slashed}
      \cup {o \in {record.job.owner} : Refund(record, s) + SlashReward(record, s) > 0}

(* NewCoinOutput refuses a coin of zero.                                   *)
SettlementPays(record, s) ==
    /\ \A account \in SettlementAccounts(record, s) : SettlementAmount(record, s, account) > 0
    /\ LET amount(account) == SettlementAmount(record, s, account)
       IN  F!MapThenSumSet(amount, SettlementAccounts(record, s)) = jobLockedValue(record)

Settlement(record, s, h, shard, txid) ==
    LET accounts == SettlementAccounts(record, s)
        coin(a) == CoinSpec(a, NativeToken, SettlementAmount(record, s, a), 0)
        index(a) == ComputeIndex + 1 + a
        here == {a \in accounts : ShardOf[a] = shard}
        receipt == [job |-> record.id, root |-> s.root, paid |-> s.paid,
                    slashed |-> s.slashed, refund |-> Refund(record, s), expired |-> s.expired]
    IN  [created |-> {Object(ObjectID(txid, index(a), shard), coin(a)) : a \in here}
                       \cup {SystemObject(ObjectID(txid, ComputeIndex, shard), receipt)},
         outbound |-> {[shard |-> ShardOf[a], index |-> index(a), output |-> coin(a)] :
                         a \in accounts \ here}]

-----------------------------------------------------------------------------

executeComputeOffer(t, h, txid) ==
    LET offer == t.arg IN
    accountNativeValue(
        offer.provider = t.sender /\ offer.price > 0 /\ offer.until >= h,
        t, txid, {}, 0, offer.collateral,
        {Object(ObjectID(txid, ComputeOfferIndex, HomeShard(t)),
                [owner |-> t.sender, kind |-> "computeOffer", data |-> offer])}, {})

executeComputeJob(t, h, txid) ==
    LET job == t.arg
        record == [id |-> txid, job |-> job, escrow |-> job.maxPrice, status |-> "pending",
                   assignments |-> {}, results |-> {}]
    IN  accountNativeValue(
            ValidJob(job) /\ job.owner = t.sender /\ job.deadline > h,
            t, txid, {}, 0, job.maxPrice,
            {Object(ObjectID(txid, ComputeJobIndex, HomeShard(t)),
                    [owner |-> t.sender, kind |-> "job", data |-> record])}, {})

(* A message for the job's owner, here or through a receipt.               *)
ToJob(t, txid, shard, spec) ==
    IF shard = HomeShard(t)
    THEN [made |-> {Object(ObjectID(txid, ComputeIndex, shard), spec)}, sent |-> {}]
    ELSE [made |-> {}, sent |-> {[shard |-> shard, index |-> ComputeIndex, output |-> spec]}]

(* The offer's collateral is released and the part the job asks for goes   *)
(* with the message; the job itself is not looked at.                      *)
executeComputeAccept(t, h, txid) ==
    LET offer == InputOfKind(t, "computeOffer")
        data == [jobId |-> t.arg.jobId, shard |-> t.arg.shard, offerId |-> offer.id,
                 offer |-> offer.data, job |-> t.arg.job]
        message == ToJob(t, txid, t.arg.shard,
                         [owner |-> t.arg.job.owner, kind |-> "assignment", data |-> data])
    IN  accountNativeValue(
            /\ HasOneOf(t, "computeOffer") /\ offer.owner = t.sender
            /\ ValidJob(t.arg.job) /\ offerMatchesJob(offer.data, t.arg.job),
            t, txid, {offer}, offer.data.collateral, t.arg.job.collateral,
            message.made, message.sent)

executeComputeResult(t, h, txid) ==
    LET data == [jobId |-> t.arg.jobId, shard |-> t.arg.shard, owner |-> t.arg.owner,
                 result |-> t.arg.result]
        message == ToJob(t, txid, t.arg.shard,
                         [owner |-> t.arg.owner, kind |-> "result", data |-> data])
    IN  accountNativeValue(
            t.arg.result.provider = t.sender /\ t.arg.result.completed > 0,
            t, txid, {}, 0, 0, message.made, message.sent)

OwnJobAndMessage(t, kind) ==
    /\ HasInput(t, t.arg.object, "job") /\ InputByID(t, t.arg.object).owner = t.sender
    /\ HasInput(t, t.arg.message, kind) /\ InputByID(t, t.arg.message).owner = t.sender

executeComputeIngestAssignment(t, h, txid) ==
    LET job == InputByID(t, t.arg.object)
        message == InputByID(t, t.arg.message)
        record == job.data
        m == message.data
    IN  accountNativeValue(
            /\ OwnJobAndMessage(t, "assignment")
            /\ m.shard = HomeShard(t)
            /\ m.jobId = record.id /\ m.job = record.job
            /\ CanAssign(record, m.offer, h),
            t, txid, {job, message}, record.job.collateral, record.job.collateral,
            {Updated(job, AssignOnChain(record, m.offerId, m.offer))}, {})

executeComputeIngestResult(t, h, txid) ==
    LET job == InputByID(t, t.arg.object)
        message == InputByID(t, t.arg.message)
        m == message.data
    IN  accountNativeValue(
            /\ OwnJobAndMessage(t, "result")
            /\ m.jobId = job.data.id /\ m.owner = job.data.job.owner /\ m.shard = HomeShard(t)
            /\ CanSubmit(job.data, m.result),
            t, txid, {job, message}, 0, 0,
            {Updated(job, SubmitOnChainResult(job.data, m.result))}, {})

(* The three ways a job ends share the payout: the job object is consumed  *)
(* and everything it locks is paid out.                                    *)
settleJob(t, h, txid, ok, s) ==
    LET job == InputByID(t, t.arg.object)
        out == Settlement(job.data, s, h, HomeShard(t), txid)
        locked == jobLockedValue(job.data)
    IN  accountNativeValue(
            /\ HasInput(t, t.arg.object, "job") /\ job.owner = t.sender
            /\ ok
            /\ SettlementPays(job.data, s),
            t, txid, {job}, locked, locked, out.created, out.outbound)

executeComputeFinalize(t, h, txid) ==
    LET record == InputByID(t, t.arg.object).data
    IN  settleJob(t, h, txid, CanFinalize(record), FinalizeOnChain(record))

executeComputeResolve(t, h, txid) ==
    LET record == InputByID(t, t.arg.object).data
    IN  settleJob(t, h, txid, CanResolve(record), ResolveReplicatedMajority(record))

executeComputeExpire(t, h, txid) ==
    LET record == InputByID(t, t.arg.object).data
    IN  settleJob(t, h, txid, CanExpire(record, h), ExpireOnChain(record))

=============================================================================
