---------------------------- MODULE AtomicCommit ----------------------------
(***************************************************************************)
(* What a node promises about the certified chain, whatever happens to the *)
(* stores below it: a caller that finds the runtime available sees every   *)
(* shard at exactly the same block, and from one such moment to the next   *)
(* the node moves by whole blocks, one at a time, never backwards.         *)
(***************************************************************************)
EXTENDS Naturals

CONSTANTS Shards, Heights

VARIABLES
    content,    \* content[k]: the shards that block k changes
    available,  \* the runtime answers and accepts commits
    finalized,  \* the last height a caller was shown
    view        \* view[s][k]: how often a caller finds block k in shard s

avars == <<content, available, finalized, view>>

Prefix(n) ==
    [s \in Shards |-> [k \in Heights |-> IF k <= n /\ s \in content[k] THEN 1 ELSE 0]]

AInit ==
    /\ content \in [Heights -> SUBSET Shards]
    /\ available = TRUE
    /\ finalized = 0
    /\ view = Prefix(0)

\* A commit is running, the runtime waits for recovery, or the node is down.
Suspend ==
    /\ available
    /\ available' = FALSE
    /\ UNCHANGED <<content, finalized, view>>

\* The block in doubt is either not there at all or there completely.
Resume ==
    /\ ~available
    /\ available' = TRUE
    /\ finalized' \in {finalized, finalized + 1}
    /\ view' = Prefix(finalized')
    /\ UNCHANGED content

ANext == Suspend \/ Resume

ASpec == AInit /\ [][ANext]_avars
=============================================================================
