------------------------- MODULE EconomicCheckpoint -----------------------
(***************************************************************************)
(* The checkpoint of the books and its restoration: CheckpointBytes and    *)
(* Restore* of internal/v2/economics, and node/economic_checkpoint.go.     *)
(* An encoding keeps lists in canonical order; a decoder refuses any other *)
(* order.  Some fields are not stored but rebuilt, and everything is       *)
(* validated again.  ok = FALSE stands for an error return.                *)
(***************************************************************************)
EXTENDS EconomicRuntime

S == INSTANCE SequencesExt

writeCapitalLots(lots) ==
    S!SetToSortSeq(lots, LAMBDA l, m : Less(CanonicalKey(l), CanonicalKey(m)))

(* {} when the list is refused.                                            *)
readCapitalLots(list) ==
    IF /\ \A i \in DOMAIN list : list[i].amount > 0 /\ list[i].since > 0
       /\ \A i, j \in DOMAIN list : i < j => Less(CanonicalKey(list[i]), CanonicalKey(list[j]))
    THEN {list[i] : i \in DOMAIN list} ELSE {}

IdleCheckpointBytes(tracker) ==
    LET listed(f) == {[id |-> id, lots |-> writeCapitalLots(f[id])] : id \in DOMAIN f}
    IN  [objects |-> listed(tracker.objects), pending |-> listed(tracker.pending),
         boot |-> tracker.boot, observed |-> tracker.observed, weighted |-> tracker.weighted]

IfValid(tracker) == IF ValidTracker(tracker) THEN tracker ELSE Failed(tracker)

RestoreIdleCapitalTracker(saved) ==
    LET map(list) == [id \in {e.id : e \in list} |->
                        readCapitalLots((CHOOSE e \in list : e.id = id).lots)]
    IN  IfValid([EmptyTracker EXCEPT !.objects = map(saved.objects), !.pending = map(saved.pending),
                                     !.boot = saved.boot, !.observed = saved.observed,
                                     !.weighted = saved.weighted])

CollectorCheckpointBytes(c) ==
    [epoch |-> c.epoch, last |-> c.last,
     shards |-> [s \in Shards |->
        [supply |-> c.supply[s], fees |-> c.fees[s], opening |-> c.opening[s],
         demand |-> c.demand[s], fulfilled |-> c.fulfilled[s], expired |-> c.expired[s],
         closing |-> c.closing[s]]],
     verified |-> c.verified, idle |-> IF c.track THEN {IdleCheckpointBytes(c.idle)} ELSE {}]

(* validateRestoredAccumulator.                                            *)
RestoredFlow(a) == a.opening + a.demand = a.fulfilled + a.expired + a.closing

RestoreEpochCollector(saved) ==
    LET column(Field(_)) == [s \in Shards |-> Field(saved.shards[s])]
        idle == IF saved.idle = {} THEN EmptyTracker
                ELSE RestoreIdleCapitalTracker(CHOOSE t \in saved.idle : TRUE)
    IN  [NewEpochCollector(TRUE, saved.idle # {}, 0, column(LAMBDA a : a.supply)) EXCEPT
           !.ok = saved.epoch > 0 /\ idle.ok /\ \A s \in Shards : RestoredFlow(saved.shards[s]),
           !.epoch = saved.epoch, !.last = saved.last, !.fees = column(LAMBDA a : a.fees),
           !.opening = column(LAMBDA a : a.opening), !.demand = column(LAMBDA a : a.demand),
           !.fulfilled = column(LAMBDA a : a.fulfilled), !.expired = column(LAMBDA a : a.expired),
           !.closing = column(LAMBDA a : a.closing), !.verified = saved.verified, !.idle = idle]

(* RestoreShadowEpochEngine.                                               *)
RestorableEngine(saved) == \A state \in saved.previous : ValidMonetaryState(state)

(* The pending preview is rebuilt on the restored engine, which must       *)
(* accept it.                                                              *)
RestoreShadowEpochPreview(kept) == Accept(kept).ok

economicCheckpointBytes(kept, h) ==
    [height |-> h, length |-> kept.length, total |-> kept.total,
     collector |-> CollectorCheckpointBytes(kept),
     engine |-> IF kept.length = 0 THEN {} ELSE {[previous |-> kept.previous]},
     pending |-> kept.pending]

IfRestorable(kept, saved) ==
    IF /\ \A e \in saved.engine : RestorableEngine(e)
       /\ kept.pending # {} => saved.engine # {} /\ RestoreShadowEpochPreview(kept)
    THEN kept ELSE Failed(kept)

(* decodeEconomicCheckpoint: the parts put together.                       *)
decodeEconomicCheckpoint(saved) ==
    IfRestorable([RestoreEpochCollector(saved.collector) EXCEPT
                    !.length = saved.length, !.total = saved.total,
                    !.previous = UNION {e.previous : e \in saved.engine}, !.pending = saved.pending],
                 saved)

(* The collector's open epoch continues the pending state, or the accepted *)
(* one when nothing is pending.                                            *)
validateRecoveredEconomics(kept, hasEngine) ==
    LET before(epoch, states) ==
            IF states = {} THEN epoch = 1 ELSE \A state \in states : state.epoch + 1 = epoch
    IN  IF ~hasEngine THEN kept.pending = {} /\ kept.length = 0 /\ kept.total = 0
        ELSE /\ kept.length >= 2 /\ kept.total > 0
             /\ IF kept.pending = {} THEN before(kept.epoch, kept.previous)
                ELSE /\ before(kept.epoch, kept.pending)
                     /\ \A state \in kept.pending : before(state.epoch, kept.previous)

IfRecovered(kept, saved, h) ==
    IF saved.height = h /\ kept.last = h /\ validateRecoveredEconomics(kept, saved.engine # {})
    THEN kept ELSE Failed(kept)

(* Only into a runtime at the checkpoint's own height.                     *)
RestoreEconomicCheckpoint(saved, h) ==
    IfRecovered(decodeEconomicCheckpoint(saved), saved, h)

-----------------------------------------------------------------------------

(* A checkpoint written after any block is one the node takes back at that *)
(* height, and it brings back the books exactly: nothing is lost in an     *)
(* epoch's middle, with a state pending or value under way.                *)
(* (economicCheckpointBytes, RestoreEconomicCheckpoint.)                   *)
BooksRestore ==
    books.on => RestoreEconomicCheckpoint(economicCheckpointBytes(books, height), height) = books

=============================================================================
