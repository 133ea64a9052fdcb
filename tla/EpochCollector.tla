--------------------------- MODULE EpochCollector -------------------------
(***************************************************************************)
(* The books kept beside the chain: internal/v2/economics                  *)
(* finalized_collector.go, epoch.go and shadow_epoch_engine.go.            *)
(*                                                                         *)
(* One record holds the collector and the epoch engine:                    *)
(*   on, track, length      which parts are enabled, the epoch's length    *)
(*   epoch, last            the open epoch and the last height observed    *)
(*   supply                 native supply attributed to each shard         *)
(*   fees, demand, fulfilled, expired, opening, closing                    *)
(*                          this epoch's flows, per shard                  *)
(*   verified               jobs whose work was counted in this epoch      *)
(*   idle                   the lineage tracker                            *)
(*   previous, pending      accepted monetary state and the one waiting    *)
(*                          for the next block; {} or one state            *)
(*   total                  the supply the monetary states start from      *)
(* Every workload is registered with one unit of work.  Velocity, resource *)
(* units and the compute price index are numbers nothing here depends on;  *)
(* only the error they can cause is kept.                                  *)
(***************************************************************************)
EXTENDS FinalizedCapital

Nothing == [s \in Shards |-> 0]
Total(f) == F!MapThenSumSet(LAMBDA s : f[s], DOMAIN f)

NewEpochCollector(on, track, length, supply) ==
    [ok |-> TRUE, on |-> on, track |-> track, length |-> length,
     epoch |-> 1, last |-> 0, supply |-> supply,
     fees |-> Nothing, demand |-> Nothing, fulfilled |-> Nothing, expired |-> Nothing,
     opening |-> Nothing, closing |-> Nothing, verified |-> {}, idle |-> EmptyTracker,
     previous |-> {}, pending |-> {}, total |-> IF length = 0 THEN 0 ELSE Total(supply)]

observeComputeLifecycle(c, s, t) ==
    CASE t.op = "computeJob" ->
            [c EXCEPT !.demand[s] = @ + 1, !.closing[s] = @ + 1]
      [] t.op \in {"computeFinalize", "computeResolve"} ->
            IF c.closing[s] = 0 THEN Failed(c)
            ELSE [c EXCEPT !.closing[s] = @ - 1, !.fulfilled[s] = @ + 1,
                           !.verified = @ \cup {InputByID(t, t.arg.object).data.id}]
      [] t.op = "computeExpire" ->
            IF c.closing[s] = 0 THEN Failed(c)
            ELSE [c EXCEPT !.closing[s] = @ - 1, !.expired[s] = @ + 1]
      [] OTHER -> c

(* The fee leaves the shard's supply, and every native coin spent must be  *)
(* older than the block that spends it.                                    *)
observeFinalizedTransaction(c, h, s, t, result) ==
    IF \/ c.supply[s] < t.fee
       \/ \E o \in NativeSpent(result) : o.data.created >= h
    THEN Failed(c)
    ELSE observeComputeLifecycle([c EXCEPT !.fees[s] = @ + t.fee, !.supply[s] = @ - t.fee], s, t)

(* Only the destination's side of an import.                               *)
observeImportedReceiptOneSided(c, r) ==
    [c EXCEPT !.supply[r.dest] = @ + finalizedReceiptNativeValue(r)]

observeImportedReceipt(c, r) ==
    LET amount == finalizedReceiptNativeValue(r)
    IN  IF c.supply[r.source] < amount \/ c.supply[r.dest] + amount > MaxUint THEN Failed(c)
        ELSE [c EXCEPT !.supply[r.source] = @ - amount, !.supply[r.dest] = @ + amount]

WithLineage(c, idle) ==
    IF ~c.ok THEN c ELSE IF ~idle.ok THEN Failed(c) ELSE [c EXCEPT !.idle = idle]

ObserveTransaction(c, h, s, t, result, txid) ==
    IF ~c.ok THEN c
    ELSE IF ~c.track THEN observeFinalizedTransaction(c, h, s, t, result)
    ELSE WithLineage(observeFinalizedTransaction(c, h, s, t, result),
                     LineageOfTransaction(c.idle, h, t, result, txid))

ObserveImport(r, c) ==
    IF ~c.ok THEN c
    ELSE IF ~c.track THEN observeImportedReceipt(c, r)
    ELSE WithLineage(observeImportedReceipt(c, r), ApplyFinalizedIdleCapitalImport(c.idle, r))

(* A shard's transactions in their order, and then its imports.            *)
ObserveBatch(books, h, s, cand) ==
    LET after[k \in 0..Len(cand.batch)] ==
            IF k = 0 THEN books
            ELSE ObserveTransaction(after[k - 1], h, s, cand.batch[k], cand.results[k], <<h, s, k>>)
    IN  after[Len(cand.batch)]

ObserveShard(books, h, s, cand) ==
    F!FoldSet(ObserveImport, ObserveBatch(books, h, s, cand), cand.imports)

(* observeFinalizedBlock: the shards in order, the highest last.           *)
ObserveShards(books, h, cands) ==
    F!MapThenFoldSet(LAMBDA s, c : ObserveShard(c, h, s, cands[s]), books, LAMBDA s : s, F!Max, Shards)

ObserveFinalizedBlock(books, h, cands) ==
    IF h <= books.last THEN Failed(books)
    ELSE [ObserveShards(books, h, cands) EXCEPT !.last = h]

-----------------------------------------------------------------------------
(* Epochs.                                                                 *)

validComputeFlow(c, s) == c.opening[s] + c.demand[s] = c.fulfilled[s] + c.expired[s] + c.closing[s]

FinalizeEpoch(c) == IF \A s \in Shards : validComputeFlow(c, s) THEN c ELSE Failed(c)

AdvanceEpoch(c) ==
    [c EXCEPT !.epoch = @ + 1, !.verified = {}, !.idle = ResetProductiveCoverage(@),
              !.fees = Nothing, !.demand = Nothing, !.fulfilled = Nothing, !.expired = Nothing,
              !.opening = c.closing]

(* BuildShadowMonetaryEpochState: what the state says of supply, backlog   *)
(* and its predecessor; the predecessor itself stands for its hash.        *)
MonetaryEpochState(c) ==
    [epoch |-> c.epoch, total |-> c.total - Total(c.fees), circulating |-> Total(c.supply),
     burned |-> Total(c.fees), backlog |-> Total(c.closing), prior |-> c.previous]

Follows(state, previous) ==
    IF previous = {} THEN state.epoch = 1 /\ state.prior = {}
    ELSE state.prior = previous /\ \A p \in previous : state.epoch = p.epoch + 1

ValidMonetaryState(state) ==
    state.total > 0 /\ state.circulating > 0 /\ state.circulating <= state.total

(* FinalizeEpoch, AggregateEpochMetrics, PreviewCloseEpoch, AdvanceEpoch:  *)
(* what Commit does when the block's height ends an epoch.                 *)
CloseEpoch(books) ==
    LET c == FinalizeEpoch(books)
        state == MonetaryEpochState(c)
    IN  IF ~c.ok \/ c.total < Total(c.fees) THEN Failed(books)
        ELSE IF ~Follows(state, c.previous) \/ ~ValidMonetaryState(state) THEN Failed(books)
        ELSE [AdvanceEpoch(c) EXCEPT !.total = state.total, !.pending = {state}]

(* The pending state accepted and left pending.                            *)
AcceptAgain(books) ==
    IF \A state \in books.pending : Follows(state, books.previous) /\ ValidMonetaryState(state)
    THEN [books EXCEPT !.previous = books.pending]
    ELSE Failed(books)

(* Accept: the pending state has become an object of this block.           *)
Accept(books) ==
    IF \A state \in books.pending : Follows(state, books.previous) /\ ValidMonetaryState(state)
    THEN [books EXCEPT !.previous = books.pending, !.pending = {}]
    ELSE Failed(books)

AcceptPending(books) == IF books.ok /\ books.pending # {} THEN Accept(books) ELSE books

EndOfBlock(books, h) ==
    IF ~books.ok \/ books.length = 0 \/ h % books.length # 0 THEN books ELSE CloseEpoch(books)

(* The collector's and the engine's side of Runtime.Commit.                *)
CommitBooks(books, h, cands) ==
    IF books.on THEN EndOfBlock(AcceptPending(ObserveFinalizedBlock(books, h, cands)), h)
    ELSE books

=============================================================================
