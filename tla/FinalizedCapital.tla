------------------------- MODULE FinalizedCapital -------------------------
(***************************************************************************)
(* How a finalized transaction, or a finalized receipt import, moves the   *)
(* lineages of IdleCapital: finalized_idle_capital.go,                     *)
(* finalized_compute_capital.go with its settlement file, and              *)
(* finalized_lending_capital.go of internal/v2/economics.                  *)
(*                                                                         *)
(* Each handler works on a copy of the tracker and keeps it when it        *)
(* succeeds.  The handlers re-derive from the transaction what the engine  *)
(* created (offers, messages, payouts, the settlement receipt) and fail    *)
(* when the two differ; here both come from the same result.               *)
(* Transactions without a handler (tokens, contracts, credentials, loans   *)
(* on one shard) leave the tracker alone, the lots of the coins they spend *)
(* included.                                                               *)
(***************************************************************************)
EXTENDS IdleCapital, ComputeOperations

LOCAL INSTANCE TLC
LOCAL INSTANCE Functions

NativeSpent(result) ==
    {o \in result.consumed : o.kind = "coin" /\ o.data.token = NativeToken}

(* prepareFinalizedNativeInputs: coins seen before must carry the amount   *)
(* the tracker has; new ones start a lineage when their age is known.      *)
prepareFinalizedNativeInputs(tracker, coins) ==
    LET seen == {c \in coins : Tracked(tracker, c.id)}
        unknown == {c \in coins \ seen : c.data.created = 0}
        start(c, tr) == BootstrapObject(tr, c.id, c.data.amount, c.data.created)
    IN  [ok |-> \A c \in seen : TrackedAmount(tracker, c.id) = c.data.amount,
         seen |-> seen # {}, unknown |-> unknown # {}, ids |-> {c.id : c \in coins},
         tracker |-> F!FoldSet(start, tracker, coins \ (seen \cup unknown))]

(* One unknown age makes the whole movement unknown: it is skipped when    *)
(* nothing tracked takes part in it and refused when something does.       *)
(* special is a set of [id, amount]: locked value the operation releases.  *)
Moves(tracker, t, result, special, targets, strict) ==
    LET p == prepareFinalizedNativeInputs(tracker, NativeSpent(result))
        inputs == p.ids \cup {v.id : v \in special}
    IN  IF \/ ~p.ok
           \/ \E v \in special : ~Tracked(tracker, v.id) \/ TrackedAmount(tracker, v.id) # v.amount
        THEN Failed(tracker)
        ELSE IF p.unknown
        THEN IF p.seen \/ special # {} THEN Failed(tracker) ELSE tracker
        ELSE IF inputs = {}
        THEN IF strict /\ (targets # {} \/ t.fee # 0) THEN Failed(tracker) ELSE tracker
        ELSE ApplyTransition(p.tracker, inputs, targets, t.fee)

(* finalizedCapitalTargetForOutput, finalizedLendingMessageTarget: native  *)
(* value the result created here, or sent with a receipt.                  *)
Targets(result, txid) ==
    {ObjectTarget(o.id, NativeValue(o)) : o \in {x \in result.created : NativeValue(x) > 0}}
    \cup { TransferTarget(ObjectID(txid, o.index, o.shard), NativeValue(o.output)) :
             o \in {x \in result.outbound : NativeValue(x.output) > 0} }

(* finalizedComputeOrdinaryTargets: the wallet's own outputs.              *)
OrdinaryTargets(result, txid) ==
    Targets([result EXCEPT
               !.created = {o \in @ : o.kind = "coin" /\ o.id.index < ComputeIndex},
               !.outbound = {o \in @ : o.output.kind = "coin" /\ o.index < ComputeIndex}], txid)

-----------------------------------------------------------------------------
(* Transfers and imports.                                                  *)

Stamped(result, h) ==
    /\ \A o \in result.created : NativeValue(o) > 0 => o.data.created = h
    /\ \A o \in result.outbound : NativeValue(o.output) > 0 => o.output.data.created = h

IfStamped(tracker, moved, result, h) ==
    IF moved # tracker /\ ~Stamped(result, h) THEN Failed(tracker) ELSE moved

ApplyFinalizedIdleCapitalTransfer(tracker, h, t, result, txid) ==
    IfStamped(tracker, Moves(tracker, t, result, {}, Targets(result, txid), FALSE),
              result, h)

(* finalizedReceiptNativeValue: an assignment's collateral is not counted. *)
finalizedReceiptNativeValue(r) ==
    IF r.output.kind \in {"coin", "crossOffer", "crossAcceptance", "crossRepayment"}
    THEN NativeValue(r.output) ELSE 0

ReceiptID(r) == ObjectID(r.tx, r.index, r.dest)

ApplyFinalizedIdleCapitalImport(tracker, r) ==
    LET amount == finalizedReceiptNativeValue(r)
        known == r.output.kind = "coin" => r.output.data.created = r.height
    IN  IF amount = 0 THEN tracker
        ELSE IF ReceiptID(r) \in DOMAIN tracker.pending
        THEN IF Amount(tracker.pending[ReceiptID(r)]) # amount THEN Failed(tracker)
             ELSE MaterializeTransfer(tracker, ReceiptID(r), ReceiptID(r))
        ELSE IF ~known THEN Failed(tracker)
        ELSE BootstrapObject(tracker, ReceiptID(r), amount, r.height)

-----------------------------------------------------------------------------
(* Compute.  Escrow and collateral live under identifiers derived from the *)
(* job, from acceptance to settlement.                                     *)

EscrowID(job) == ObjectID(job, 300, 0)
CollateralID(job, provider) == ObjectID(job, 300 + provider, 0)
LegID(job, kind, account) == ObjectID(job, 400 + 20 * kind + account, 0)
PaymentLeg == 1
RefundLeg == 2
ReturnLeg == 3
SlashLeg == 4
ExcessLeg == 5

Side(tracker, t, result, txid) ==
    Moves(tracker, t, result, {}, OrdinaryTargets(result, txid), TRUE)

OfferCapital(tracker, t, result, txid) ==
    Moves(tracker, t, result, {}, Targets(result, txid), TRUE)

JobCapital(tracker, t, result, txid) ==
    Moves(tracker, t, result, {},
          OrdinaryTargets(result, txid) \cup {ObjectTarget(EscrowID(txid), t.arg.maxPrice)}, TRUE)

(* Coins and the excess of an offer pay for the outputs of an acceptance.  *)
(* Unlike the other handlers this one keeps the lineages it started for    *)
(* coins mixed with an unknown age.                                        *)
SpendExcess(tracker, locked, p, t, spare, targets) ==
    IF ~locked.ok \/ ~p.ok THEN Failed(tracker)
    ELSE IF p.unknown
    THEN IF p.seen \/ spare # {} THEN Failed(tracker) ELSE p.tracker
    ELSE IF p.ids \cup spare = {}
    THEN IF targets # {} \/ t.fee # 0 THEN Failed(tracker) ELSE locked
    ELSE ApplyTransition(p.tracker, p.ids \cup spare, targets, t.fee)

PayFromExcess(tracker, locked, t, result, txid, spare) ==
    SpendExcess(tracker, locked, prepareFinalizedNativeInputs(locked, NativeSpent(result)), t, spare,
                OrdinaryTargets(result, txid))

(* The offer's collateral splits into the part the job locks and the       *)
(* excess.                                                                 *)
AcceptCapital(tracker, t, result, txid) ==
    LET offer == InputOfKind(t, "computeOffer")
        required == t.arg.job.collateral
        excess == offer.data.collateral - required
        spare == LegID(t.arg.jobId, ExcessLeg, offer.data.provider)
        locks == {x \in {ObjectTarget(CollateralID(t.arg.jobId, offer.data.provider), required),
                         ObjectTarget(spare, excess)} : x.amount > 0}
    IN  IF offer.data.collateral > 0 /\ ~Tracked(tracker, offer.id)
        THEN IF \E c \in NativeSpent(result) : Tracked(tracker, c.id) THEN Failed(tracker)
             ELSE tracker
        ELSE IF /\ offer.data.collateral > 0
                /\ TrackedAmount(tracker, offer.id) # offer.data.collateral
        THEN Failed(tracker)
        ELSE PayFromExcess(tracker,
                           IF offer.data.collateral = 0 THEN tracker
                           ELSE ApplyTransition(tracker, {offer.id}, locks, 0),
                           t, result, txid, IF excess > 0 THEN {spare} ELSE {})

(* An assignment arrives: what is locked under the job must be what the    *)
(* job says.                                                               *)
LockAgrees(tracker, id, amount) == Tracked(tracker, id) => TrackedAmount(tracker, id) = amount

LocksAgree(tracker, moved, record, provider) ==
    IF /\ LockAgrees(moved, EscrowID(record.id), record.escrow)
       /\ LockAgrees(moved, CollateralID(record.id, provider), record.job.collateral)
    THEN moved ELSE Failed(tracker)

IngestCapital(tracker, t, result, txid) ==
    LocksAgree(tracker, Side(tracker, t, result, txid), InputByID(t, t.arg.object).data,
               InputByID(t, t.arg.message).data.offer.provider)

(* DeriveComputeCapitalComponents: what the job's locked value consists of *)
(* and how much each part holds.                                           *)
Components(record) ==
    {[id |-> EscrowID(record.id), amount |-> record.escrow]}
      \cup (IF record.job.collateral = 0 THEN {}
            ELSE {[id |-> CollateralID(record.id, p), amount |-> record.job.collateral] :
                    p \in Providers(record)})

(* Who receives which part: the paid share of the escrow becomes           *)
(* productive, the rest and an expired escrow keep their age.              *)
EscrowLegs(record, s, lots, h) ==
    LET paid == Prices(s.paid)
        split == splitProductiveCapitalAmount(lots, h, paid)
        price(p) == Prices({a \in s.paid : a.provider = p})
        shares == SplitCapitalLineage(split.productive,
                                      [p \in {a.provider : a \in s.paid} |-> price(p)],
                                      [p \in {a.provider : a \in s.paid} |->
                                         {a.provider : a \in {b \in s.paid : b.provider < p}}])
        refund == [id |-> LegID(record.id, RefundLeg, record.job.owner), to |-> record.job.owner,
                   lots |-> IF s.expired THEN lots ELSE split.idle]
    IN  [ok |-> s.expired \/ split.ok,
         legs |-> (IF s.expired THEN {}
                   ELSE {[id |-> LegID(record.id, PaymentLeg, p), to |-> p, lots |-> shares[p]] :
                           p \in DOMAIN shares})
                  \cup (IF Refund(record, s) > 0 THEN {refund} ELSE {})]

CollateralLegs(record, s, tracker) ==
    LET slashed(p) == p \in {a.provider : a \in s.slashed}
    IN  { [id |-> LegID(record.id, IF slashed(p) THEN SlashLeg ELSE ReturnLeg, p),
           to |-> IF slashed(p) THEN record.job.owner ELSE p,
           lots |-> tracker.objects[CollateralID(record.id, p)]] :
          p \in IF record.job.collateral = 0 THEN {} ELSE Providers(record) }

(* The job's parts become the legs, and the legs pay the coins of the      *)
(* settlement.                                                             *)
PayLegs(side, t, txid, record, s, legs) ==
    LET lotsOf == [id \in {l.id : l \in legs} |-> (CHOOSE l \in legs : l.id = id).lots]
        opened == [side EXCEPT
                     !.objects = lotsOf @@ Restrict(@, DOMAIN @ \ {c.id : c \in Components(record)})]
        coin(a) == LET index == ComputeIndex + 1 + a
                       id == ObjectID(txid, index, ShardOf[a])
                   IN  IF ShardOf[a] = HomeShard(t) THEN ObjectTarget(id, SettlementAmount(record, s, a))
                       ELSE TransferTarget(id, SettlementAmount(record, s, a))
        pay(a, tr) == IF ~tr.ok THEN tr
                      ELSE ApplyTransition(tr, {l.id : l \in {x \in legs : x.to = a}}, {coin(a)}, 0)
    IN  F!FoldSet(pay, opened, SettlementAccounts(record, s))

ObserveProductive(tracker, record, s) ==
    IF s.expired THEN tracker
    ELSE Observe(tracker, record.escrow, (Prices(s.paid) * 10) \div record.escrow)

MoveJob(tracker, side, t, txid, record, s, escrow) ==
    IF \/ ~escrow.ok
       \/ record.job.collateral = 0 /\ record.assignments # s.slashed
    THEN Failed(tracker)
    ELSE ObserveProductive(
             PayLegs(side, t, txid, record, s, escrow.legs \cup CollateralLegs(record, s, side)),
             record, s)

(* A settlement moves a job's parts when all of them are tracked, and not  *)
(* at all when none is; a job of which some are tracked is refused, and so *)
(* is one that returns collateral of zero.                                 *)
SettleJob(tracker, side, t, h, txid, record, s) ==
    LET parts == Components(record)
        known == {c \in parts : Tracked(side, c.id)}
    IN  IF ~side.ok \/ \E c \in known : TrackedAmount(side, c.id) # c.amount THEN Failed(tracker)
        ELSE IF known = {} THEN side
        ELSE IF known # parts THEN Failed(tracker)
        ELSE MoveJob(tracker, side, t, txid, record, s,
                     EscrowLegs(record, s, side.objects[EscrowID(record.id)], h))

SettlementCapital(tracker, t, h, result, txid, s) ==
    SettleJob(tracker, Side(tracker, t, result, txid), t, h, txid,
              InputByID(t, t.arg.object).data, s)

(* finalizedComputeSettlement: the settlement the engine made is computed   *)
(* again from the job.                                                     *)
finalizedComputeSettlement(t) ==
    LET record == InputByID(t, t.arg.object).data
    IN  CASE t.op = "computeFinalize" -> FinalizeOnChain(record)
          [] t.op = "computeResolve" -> ResolveReplicatedMajority(record)
          [] t.op = "computeExpire" -> ExpireOnChain(record)

Validated(tracker, after) == IF after.ok /\ ~ValidTracker(after) THEN Failed(tracker) ELSE after

ApplyFinalizedComputeCapitalLineage(tracker, h, t, result, txid) ==
    Validated(tracker,
      CASE t.op = "computeOffer" -> OfferCapital(tracker, t, result, txid)
        [] t.op = "computeJob" -> JobCapital(tracker, t, result, txid)
        [] t.op = "computeAccept" -> AcceptCapital(tracker, t, result, txid)
        [] t.op = "ingestAssignment" -> IngestCapital(tracker, t, result, txid)
        [] t.op \in {"computeResult", "ingestResult"} -> Side(tracker, t, result, txid)
        [] OTHER -> SettlementCapital(tracker, t, h, result, txid, finalizedComputeSettlement(t)))

-----------------------------------------------------------------------------
(* Lending across shards: value messages are released like coins.          *)

Released(t) ==
    LET value(o) == [id |-> o.id, amount |-> NativeValue(o)]
        kinds == CASE t.op \in {"crossAccept", "crossExpire"} -> {"crossOffer"}
                   [] t.op = "crossSettle" -> {"crossAcceptance", "crossRepayment"}
                   [] t.op = "crossDefault" -> {"crossAcceptance"}
                   [] OTHER -> {}
    IN  {v \in {value(o) : o \in {x \in t.inputs : x.kind \in kinds}} : v.amount > 0}

applyLendingValueTransition(tracker, t, result, txid) ==
    Moves(tracker, t, result, Released(t), Targets(result, txid), FALSE)

ApplyFinalizedCrossLendingCapitalLineage(tracker, h, t, result, txid) ==
    IF t.op = "crossAccept" /\ h <= InputByID(t, t.arg.object).data.offered THEN Failed(tracker)
    ELSE applyLendingValueTransition(tracker, t, result, txid)

-----------------------------------------------------------------------------

ComputeOps ==
    { "computeOffer", "computeJob", "computeAccept", "ingestAssignment", "computeResult",
      "ingestResult", "computeFinalize", "computeResolve", "computeExpire" }

CrossLoanOps == {"crossOffer", "crossAccept", "crossRepay", "crossSettle", "crossDefault", "crossExpire"}

LineageOfTransaction(tracker, h, t, result, txid) ==
    CASE t.op = "transfer" -> ApplyFinalizedIdleCapitalTransfer(tracker, h, t, result, txid)
      [] t.op \in ComputeOps -> ApplyFinalizedComputeCapitalLineage(tracker, h, t, result, txid)
      [] t.op \in CrossLoanOps ->
            ApplyFinalizedCrossLendingCapitalLineage(tracker, h, t, result, txid)
      [] OTHER -> tracker

=============================================================================
