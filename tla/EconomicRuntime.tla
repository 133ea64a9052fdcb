-------------------------- MODULE EconomicRuntime -------------------------
(***************************************************************************)
(* Runtime.Commit with the books attached (internal/v2/node runtime.go,    *)
(* economics_runtime.go, economic_checkpoint.go): the candidate carries    *)
(* the monetary state the previous epoch left pending, the books observe   *)
(* the finalized block, and at the end of an epoch they leave the next     *)
(* state pending.  A block the books refuse is not committed at all.       *)
(***************************************************************************)
EXTENDS ShardChain, EpochCollector

VARIABLE books

vars == <<chain, books>>

(* Native value on a shard, what it sent and nobody imported yet included. *)
Held(s) == TotalNative(world[s]) + TotalNative({DestinationObject(r) : r \in {x \in InFlight : x.source = s}})

(* EnableShadowEconomics at genesis; a menu that starts later starts with  *)
(* what the blocks before it left in the books.                            *)
RuntimeInit ==
    /\ ChainInit
    /\ books = [NewEpochCollector(menu.books, menu.track, menu.epoch, [s \in Shards |-> Held(s)])
                  EXCEPT !.last = menu.start, !.idle = menu.idle,
                         !.demand[0] = menu.posted, !.closing[0] = menu.posted]

MonetaryID == ObjectID(<<0, 0, 0>>, 250, 0)
MonetaryObject(state) ==
    [SystemObject(MonetaryID, [monetary |-> state]) EXCEPT !.version = state.epoch]

(* The pending state takes the accepted one's place among shard 0's        *)
(* objects.                                                                *)
appendEconomicStateDelta(cands) ==
    [cands EXCEPT ![0].objects =
        Applied(@, {MonetaryObject(state) : state \in IF books.pending = {} THEN {} ELSE books.previous},
                {MonetaryObject(state) : state \in books.pending})]

Built == {cands \in {Candidates(batch, imports) : batch \in Arrivals, imports \in Imports} :
             \A s \in Shards : cands[s].ok}

Commit ==
    /\ height < menu.maxHeight
    /\ \E cands \in Built :
          /\ Finalize(appendEconomicStateDelta(cands))
          /\ books' = CommitBooks(books, height + 1, cands)
          /\ books'.ok

RuntimeSpec == RuntimeInit /\ [][Commit]_vars

-----------------------------------------------------------------------------

(* The supply attributed to a shard is the native value it holds or has    *)
(* under way, and what the monetary states call total is what circulates   *)
(* plus the fees of the open epoch, over transfers, escrows, imports and   *)
(* epoch changes.  An assignment's collateral is left out of attribution   *)
(* when it crosses shards, so the shares are only exact without one.       *)
(* (observeFinalizedTransaction, observeImportedReceipt, Commit.)          *)
BooksMatchChain ==
    books.on =>
      /\ Total(books.supply) = F!MapThenSumSet(Held, Shards)
      /\ books.length # 0 => books.total = Total(books.supply) + Total(books.fees)
      /\ (~\E r \in receipts : r.output.kind = "assignment") =>
            \A s \in Shards : books.supply[s] = Held(s)

(* The part of a job's locked value an identifier of the tracker names.    *)
LockedValue(id) ==
    LET jobs == {j \in OfKind(Everything, "job") : j.data.id = id.tx}
        messages == {o \in Everything \cup Pending : o.kind = "assignment" /\ o.data.jobId = id.tx}
        provided == UNION {Providers(j.data) : j \in jobs} \cup {o.data.offer.provider : o \in messages}
    IN  IF id = EscrowID(id.tx) THEN {j.data.escrow : j \in jobs}
        ELSE {j.data.job.collateral : j \in {x \in jobs \cup messages :
                                               id.index - 300 \in provided}}

Lots == UNION {books.idle.objects[id] : id \in DOMAIN books.idle.objects}
          \cup UNION {books.idle.pending[id] : id \in DOMAIN books.idle.pending}

PaidAt == {o.id.tx[1] : o \in {x \in Settled : ~x.data.expired}}

(* The tracker follows value exactly: what it knows of a live object, a    *)
(* job's parts or a receipt under way adds up to their native value, it    *)
(* knows nothing else, and a lot's age starts with its lineage unless a    *)
(* paid settlement made it productive.  Transfers, loans and an expired    *)
(* job never make capital look younger.  (finalized_idle_capital.go,       *)
(* finalized_compute_capital.go, finalized_lending_capital.go.)            *)
LineageMatches ==
    books.track =>
      /\ \A id \in DOMAIN books.idle.objects :
            LET live == {o \in Everything : o.id = id}
            IN  IF id.index < 300
                THEN live # {} /\ TrackedAmount(books.idle, id) = TotalNative(live)
                ELSE TrackedAmount(books.idle, id) \in LockedValue(id)
      /\ \A id \in DOMAIN books.idle.pending :
            \E r \in InFlight : ReceiptID(r) = id /\ Amount(books.idle.pending[id]) = NativeValue(r.output)
      /\ \A l \in Lots : l.since = l.lineage.tx[1] \/ l.since \in PaidAt

(* One monetary state per epoch: the object on shard 0 is the state the    *)
(* engine accepted, it follows the one before it, and the open epoch is    *)
(* the one the height belongs to.  (Commit, appendEconomicStateDelta,      *)
(* PreviewCloseEpoch, Accept.)                                             *)
EpochsFollow ==
    books.on /\ books.length # 0 =>
      /\ {o \in world[0] : o.id = MonetaryID} = {MonetaryObject(state) : state \in books.previous}
      /\ books.epoch = height \div books.length + 1
      /\ \A state \in books.previous \cup books.pending : \A prior \in state.prior :
            state.epoch = prior.epoch + 1 /\ state.total = prior.total - state.burned
      /\ (books.pending # {}) = (height > 0 /\ height % books.length = 0)

=============================================================================
