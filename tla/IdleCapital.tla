---------------------------- MODULE IdleCapital ---------------------------
(***************************************************************************)
(* The idle-capital tracker of internal/v2/economics (idle_capital.go,     *)
(* idle_tracker.go): which lineage the value inside an object belongs to,  *)
(* and since when it has been idle.                                        *)
(*                                                                         *)
(* A lot is [lineage, since, amount]; the lots of one object are a set in  *)
(* which no two share lineage and since.  A tracker is                     *)
(*     [ok, objects, pending, boot, observed, weighted]                    *)
(* with objects and pending functions from identifiers to lots; ok = FALSE *)
(* stands for the error return of any operation, after which the caller    *)
(* drops its preview.  Identifiers are ordered by their parts, standing    *)
(* for the order of their hashes.                                          *)
(***************************************************************************)
EXTENDS ShardObjects

LOCAL INSTANCE TLC
LOCAL INSTANCE Functions

EmptyTracker ==
    [ok |-> TRUE, objects |-> <<>>, pending |-> <<>>, boot |-> {}, observed |-> 0, weighted |-> 0]

Failed(x) == [x EXCEPT !.ok = FALSE]

Less(s, t) == \E i \in DOMAIN s : s[i] < t[i] /\ \A j \in 1..(i - 1) : s[j] = t[j]

IDKey(id) == id.tx \o <<id.index, id.shard>>
CanonicalKey(lot) == IDKey(lot.lineage) \o <<lot.since>>
OldestKey(lot) == <<lot.since>> \o IDKey(lot.lineage)

Amount(lots) == F!MapThenSumSet(LAMBDA l : l.amount, lots)

(* The lots of several objects put together: those that share lineage and  *)
(* age merge.                                                              *)
compactCapitalLots(parts) ==
    LET like(l, id) == {m \in parts[id] : m.lineage = l.lineage /\ m.since = l.since}
        merged(l) == F!MapThenSumSet(LAMBDA id : Amount(like(l, id)), DOMAIN parts)
    IN  {[l EXCEPT !.amount = merged(l)] : l \in UNION {parts[id] : id \in DOMAIN parts}}

(* For each lot the lots taken before it, in either order.                 *)
CanonicalOrder(lots) == [l \in lots |-> {m \in lots : Less(CanonicalKey(m), CanonicalKey(l))}]
OldestFirst(lots) == [l \in lots |-> {m \in lots : Less(OldestKey(m), OldestKey(l))}]

(* Units lo+1 to hi of the lots.                                           *)
Slice(lots, before, lo, hi) ==
    LET start(l) == Amount(before[l])
        take(l) == F!Min({hi, start(l) + l.amount}) - F!Max({lo, start(l)})
    IN  {[l EXCEPT !.amount = take(l)] : l \in {m \in lots : take(m) > 0}}

(* SplitCapitalLineage: every share, in the shares' own order, takes the   *)
(* next units of the lots.  served[x] holds the shares that come before x. *)
SplitCapitalLineage(lots, shares, served) ==
    LET start(x) == F!MapThenSumSet(LAMBDA y : shares[y], served[x])
    IN  [x \in DOMAIN shares |->
           Slice(lots, CanonicalOrder(lots), start(x), start(x) + shares[x])]

Lineages(tracker) ==
    UNION {{l.lineage : l \in tracker.objects[id]} : id \in DOMAIN tracker.objects}
      \cup UNION {{l.lineage : l \in tracker.pending[id]} : id \in DOMAIN tracker.pending}

(* Marks of lineages that are gone kept.                                   *)
keepBootstrapLineages(tracker) == tracker

pruneBootstrapLineages(tracker) == [tracker EXCEPT !.boot = @ \cap Lineages(tracker)]

Tracked(tracker, id) == id \in DOMAIN tracker.objects
TrackedAmount(tracker, id) == Amount(tracker.objects[id])

BootstrapObject(tracker, id, amount, created) ==
    IF amount = 0 \/ created = 0 \/ Tracked(tracker, id) THEN Failed(tracker)
    ELSE [tracker EXCEPT
            !.objects = (id :> {[lineage |-> id, since |-> created, amount |-> amount]}) @@ @,
            !.boot = @ \cup {id}]

(* A target is [transfer, id, amount]: an object of a shard, or a receipt  *)
(* on its way.  Objects are served before receipts, the burned fee last.   *)
ObjectTarget(id, amount) == [transfer |-> FALSE, id |-> id, amount |-> amount]
TransferTarget(id, amount) == [transfer |-> TRUE, id |-> id, amount |-> amount]

TargetBefore(x, y) ==
    \/ ~x.transfer /\ y.transfer
    \/ x.transfer = y.transfer /\ Less(IDKey(x.id), IDKey(y.id))

(* The age started anew on every move.                                     *)
ApplyTransitionReset(tracker, inputs, targets, burned) ==
    LET moved == Amount(UNION {tracker.objects[id] : id \in inputs})
        fresh(x) == {[lineage |-> x.id, since |-> 1, amount |-> x.amount]}
        to(flag) == {x \in targets : x.transfer = flag}
    IN  IF inputs = {} \/ ~ inputs \subseteq DOMAIN tracker.objects \/ moved = 0 THEN Failed(tracker)
        ELSE pruneBootstrapLineages(
               [tracker EXCEPT
                  !.objects = [id \in {x.id : x \in to(FALSE)} |->
                                 fresh(CHOOSE x \in to(FALSE) : x.id = id)]
                                @@ Restrict(@, DOMAIN @ \ inputs),
                  !.pending = [id \in {x.id : x \in to(TRUE)} |->
                                 fresh(CHOOSE x \in to(TRUE) : x.id = id)] @@ @])

ApplyTransition(tracker, inputs, targets, burned) ==
    LET lots == compactCapitalLots(Restrict(tracker.objects, inputs))
        shares == [x \in targets |-> x.amount]
        served == [x \in targets |-> {y \in targets : TargetBefore(y, x)}]
        split == SplitCapitalLineage(lots, shares, served)
        to(flag) == {x \in targets : x.transfer = flag}
        filled(flag) == [id \in {x.id : x \in to(flag)} |-> split[CHOOSE x \in to(flag) : x.id = id]]
        valid == /\ inputs # {} /\ inputs \subseteq DOMAIN tracker.objects
                 /\ targets # {} \/ burned > 0
                 /\ \A x \in targets :
                       /\ x.amount > 0
                       /\ x.id \notin DOMAIN (IF x.transfer THEN tracker.pending ELSE tracker.objects)
                       /\ \A y \in targets : x.transfer = y.transfer /\ x.id = y.id => x = y
                 /\ Amount(lots) <= MaxUint
                 /\ Amount(lots) = Amount(targets) + burned
    IN  IF ~valid THEN Failed(tracker)
        ELSE pruneBootstrapLineages(
               [tracker EXCEPT !.objects = filled(FALSE) @@ Restrict(@, DOMAIN @ \ inputs),
                               !.pending = filled(TRUE) @@ @])

MaterializeTransfer(tracker, transfer, id) ==
    IF Tracked(tracker, id) \/ transfer \notin DOMAIN tracker.pending THEN Failed(tracker)
    ELSE [tracker EXCEPT !.objects = (id :> tracker.pending[transfer]) @@ @,
                         !.pending = Restrict(@, DOMAIN @ \ {transfer})]

(* The oldest units are the ones that became productive.                   *)
splitProductiveCapitalAmount(lots, h, productive) ==
    LET used == Slice(lots, OldestFirst(lots), 0, productive)
    IN  [ok |-> productive > 0 /\ productive <= Amount(lots) /\ \A l \in lots : l.since <= h,
         productive |-> compactCapitalLots([l \in used |-> {[l EXCEPT !.since = h]}]),
         idle |-> Slice(lots, OldestFirst(lots), productive, Amount(lots))]

Observe(tracker, amount, coverage) ==
    IF amount = 0 \/ tracker.observed + amount > MaxUint THEN Failed(tracker)
    ELSE [tracker EXCEPT !.observed = @ + amount, !.weighted = @ + amount * coverage]

ResetProductiveCoverage(tracker) == [tracker EXCEPT !.observed = 0, !.weighted = 0]

(* validate, and with it RestoreIdleCapitalTracker of the tracker's own    *)
(* checkpoint: lots are compact, every bootstrap mark is in use and the    *)
(* productive aggregate is in range.                                       *)
ValidTracker(tracker) ==
    LET compact(lots) == /\ lots # {}
                         /\ \A l \in lots : l.amount > 0 /\ l.since > 0
                         /\ \A l, m \in lots :
                               l.lineage = m.lineage /\ l.since = m.since => l = m
    IN  /\ \A id \in DOMAIN tracker.objects : compact(tracker.objects[id])
        /\ \A id \in DOMAIN tracker.pending : compact(tracker.pending[id])
        /\ tracker.boot \subseteq Lineages(tracker)
        /\ tracker.weighted \in 0..(tracker.observed * 10)

=============================================================================
