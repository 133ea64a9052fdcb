--------------------------- MODULE ObserverSession ---------------------------
(***************************************************************************)
(* An observer across its sessions (internal/v2/bootstrap/observer.go):    *)
(* the first start seeds the shards from genesis and creates history,      *)
(* external anchor and session marker in that order; every later start     *)
(* replays the certified history against the anchor and the operator's     *)
(* checkpoint before it serves.  The process may stop between any two      *)
(* durable effects, and the operator may restore or empty the data         *)
(* directory, which the anchor file is kept out of.  Blocks come from one  *)
(* certified chain, so a height stands for its header.  The journal, the   *)
(* shard logs and their faults are the subject of GlobalCommit: here a     *)
(* block is in the history, in the shards, or in neither.                  *)
(***************************************************************************)
EXTENDS FinalityAnchor, FiniteSets

CONSTANTS
    ObserverShards,     \* the shards of genesis
    MaxSessionHeight,   \* bound: blocks of the certified chain
    MaxRepairs          \* bound: restores of the data directory

VARIABLES
    dir,      \* the data directory
    anchor,   \* the external anchor file
    obs,      \* the process
    copy,     \* a copy of the data directory the operator has taken
    repairs,  \* restores so far
    served,   \* the highest block any session has served
    sealed    \* the tips handed to witness journals

observerVars == <<dir, anchor, obs, copy, repairs, served, sealed>>

None == [absent |-> TRUE]
Checkpoint(h) == [height |-> h, hash |-> "certified"]

\* An empty directory: no shard seeded, no journal, history or marker.  `state'
\* is the block the shards are at, `history' the number of its records.
EmptyDir == [seeded |-> {}, state |-> 0, journal |-> 0, history |-> None, marker |-> FALSE]

Stopped == [step |-> "stopped"]

ObserverInit ==
    /\ dir = EmptyDir
    /\ anchor = NoAnchor
    /\ obs = Stopped
    /\ copy = EmptyDir
    /\ repairs = 0
    /\ served = 0
    /\ sealed = {}

Records(history) == IF history = None THEN 0 ELSE history.records
History(n) == [absent |-> FALSE, records |-> n]

\* OpenObserver up to the stores: the marker tells a first session from a later
\* one, and a checkpoint cannot be honoured by a first session.
OpenObserver(trusted) ==
    /\ obs = Stopped
    /\ trusted > 0 => dir.marker
    /\ obs' = [step     |-> IF dir.marker THEN "history" ELSE "seed",
               existing |-> dir.marker, trusted |-> trusted,
               height   |-> 0, store |-> [poisoned |-> FALSE]]
    /\ UNCHANGED <<dir, anchor, copy, repairs, served, sealed>>

\* genesis.SeedStates on the shard stores, one atomic write per shard: a shard
\* that carries the genesis marker is left alone.
SeedStates(s) ==
    /\ obs.step = "seed"
    /\ s \notin dir.seeded
    /\ \A q \in ObserverShards : q < s => q \in dir.seeded
    /\ dir' = [dir EXCEPT !.seeded = @ \cup {s}]
    /\ UNCHANGED <<anchor, obs, copy, repairs, served, sealed>>

\* The first session goes on only from stores that are exactly at genesis and
\* with no global commit journal.
AtGenesis ==
    /\ dir.seeded = ObserverShards
    /\ dir.state = 0
    /\ dir.journal = 0

\* EnableGlobalCommitJournal and EnableCertifiedHistory in a first session: the
\* history file is created exclusively.
CreateHistory ==
    /\ obs.step = "seed"
    /\ AtGenesis
    /\ dir.history = None
    /\ dir' = [dir EXCEPT !.history = History(0)]
    /\ obs' = [obs EXCEPT !.step = "anchor"]
    /\ UNCHANGED <<anchor, copy, repairs, served, sealed>>

\* The same in a later session: the file must be there.
OpenHistory ==
    /\ obs.step = "history"
    /\ dir.history # None
    /\ obs' = [obs EXCEPT !.step = "anchor"]
    /\ UNCHANGED <<dir, anchor, copy, repairs, served, sealed>>

\* EnableFinalityAnchorStore: before any block is recovered, with a history.
EnableFinalityAnchorStore == obs.height = 0 /\ dir.history # None

\* An anchor that is created again when a first session finds one.
OpenAnchorAgain ==
    /\ obs.step = "anchor"
    /\ obs.existing => CanOpenAnchor(anchor, FALSE)
    /\ EnableFinalityAnchorStore
    /\ anchor' = OpenedFile(anchor, ~obs.existing)
    /\ obs' = [obs EXCEPT !.step = IF obs.existing THEN "replay" ELSE "mark",
                          !.store = OpenFinalityAnchorStore(anchor')]
    /\ UNCHANGED <<dir, copy, repairs, served, sealed>>

\* OpenFinalityAnchorStore, created exclusively by a first session, and
\* EnableFinalityAnchorStore.
OpenAnchor ==
    /\ obs.step = "anchor"
    /\ CanOpenAnchor(anchor, ~obs.existing)
    /\ EnableFinalityAnchorStore
    /\ anchor' = OpenedFile(anchor, ~obs.existing)
    /\ obs' = [obs EXCEPT !.step = IF obs.existing THEN "replay" ELSE "mark",
                          !.store = OpenFinalityAnchorStore(anchor')]
    /\ UNCHANGED <<dir, copy, repairs, served, sealed>>

\* The checkpoints that have to be ancestors in the replayed history: the
\* operator's and the anchor's.
Required == {obs.trusted, obs.store.tip.height} \ {0}

\* ReplayWithCheckpoints: some record, every required checkpoint among them, and
\* the journal is that of the last one.
Replays ==
    /\ Records(dir.history) > 0
    /\ \A h \in Required : h <= Records(dir.history)
    /\ dir.journal = Records(dir.history)

\* RecoverCertifiedHistoryWithCheckpoint: replay, then RecoverGlobalCommitJournal
\* brings the shards to the last record.
RecoverCertifiedHistory ==
    /\ obs.step = "replay"
    /\ Replays
    /\ dir.state \in {dir.journal - 1, dir.journal}
    /\ dir' = [dir EXCEPT !.state = dir.journal]
    /\ obs' = [obs EXCEPT !.step = "anchored", !.height = dir.journal]
    /\ UNCHANGED <<anchor, copy, repairs, served, sealed>>

\* anchor.advance at the end of recovery and at the end of Commit.  A failure
\* ends the recovery, and leaves a committing runtime unable to go on.
AdvanceAnchor(next) ==
    \E result \in advance(obs.store, anchor, Checkpoint(next.height)) :
      /\ anchor' = result.file
      /\ obs' = IF result.ok
                   THEN [next EXCEPT !.store = result.store, !.step = "serving"]
                   ELSE [obs EXCEPT !.store = result.store, !.step = "failed"]
      /\ served' = IF result.ok /\ next.height > served THEN next.height ELSE served

RecoverAnchor ==
    /\ obs.step = "anchored"
    /\ AdvanceAnchor(obs)
    /\ UNCHANGED <<dir, copy, repairs, sealed>>

\* The marker is written and synced last, before the listener starts.
WriteMarker ==
    /\ obs.step = "mark"
    /\ ~dir.marker
    /\ dir' = [dir EXCEPT !.marker = TRUE]
    /\ obs' = [obs EXCEPT !.step = "serving"]
    /\ UNCHANGED <<anchor, copy, repairs, served, sealed>>

\* Runtime.Commit of the next certified block, a step per file: the PREPARING
\* journal, the history record, the shards with the COMMITTED journal, and last
\* the anchor with the height in memory.
CommitJournal ==
    /\ obs.step = "serving"
    /\ obs.height < MaxSessionHeight
    /\ dir' = [dir EXCEPT !.journal = obs.height + 1]
    /\ obs' = [obs EXCEPT !.step = "journaled"]
    /\ UNCHANGED <<anchor, copy, repairs, served, sealed>>

CommitHistory ==
    /\ obs.step = "journaled"
    /\ dir' = [dir EXCEPT !.history = History(obs.height + 1)]
    /\ obs' = [obs EXCEPT !.step = "recorded"]
    /\ UNCHANGED <<anchor, copy, repairs, served, sealed>>

CommitShards ==
    /\ obs.step = "recorded"
    /\ dir' = [dir EXCEPT !.state = obs.height + 1]
    /\ obs' = [obs EXCEPT !.step = "applied"]
    /\ UNCHANGED <<anchor, copy, repairs, served, sealed>>

CommitAnchor ==
    /\ obs.step = "applied"
    /\ AdvanceAnchor([obs EXCEPT !.height = @ + 1])
    /\ UNCHANGED <<dir, copy, repairs, sealed>>

\* NewRuntimeWitnessFinalityVerifier: the tip is sealed for a witness only when
\* history and anchor stand exactly at it.
SealTip ==
    /\ obs.step = "serving"
    /\ obs.height > 0
    /\ Records(dir.history) = obs.height
    /\ ~obs.store.poisoned
    /\ obs.store.tip = Checkpoint(obs.height)
    /\ sealed' = sealed \cup {obs.height}
    /\ UNCHANGED <<dir, anchor, obs, copy, repairs, served>>

\* Close, a crash, or an OpenObserver that returned an error.
StopObserver ==
    /\ obs # Stopped
    /\ obs' = Stopped
    /\ UNCHANGED <<dir, anchor, copy, repairs, served, sealed>>

\* The operator copies the data directory of a stopped observer, and later puts
\* the copy back or starts from an empty directory.
CopyDir ==
    /\ obs = Stopped
    /\ copy # dir
    /\ copy' = dir
    /\ UNCHANGED <<dir, anchor, obs, repairs, served, sealed>>

RestoreDir(d) ==
    /\ obs = Stopped
    /\ d # dir
    /\ repairs < MaxRepairs
    /\ dir' = d
    /\ repairs' = repairs + 1
    /\ UNCHANGED <<anchor, obs, copy, served, sealed>>

ObserverNext ==
    \/ \E trusted \in 0..MaxSessionHeight : OpenObserver(trusted)
    \/ \E s \in ObserverShards : SeedStates(s)
    \/ CreateHistory \/ OpenHistory \/ OpenAnchor
    \/ RecoverCertifiedHistory \/ RecoverAnchor \/ WriteMarker
    \/ CommitJournal \/ CommitHistory \/ CommitShards \/ CommitAnchor
    \/ SealTip \/ StopObserver \/ CopyDir
    \/ \E d \in {copy, EmptyDir} : RestoreDir(d)

ObserverSpec == ObserverInit /\ [][ObserverNext]_observerVars

\* An observer that serves is at least at the operator's checkpoint, at every
\* block the anchor has recorded and at every block an earlier session served,
\* and its shards are at the block it serves: no crash during a first session,
\* and no older or empty data directory, makes it serve an earlier state
\* (observer.go:103-248, certified_history.go:394-442).
NeverServesOlder ==
    obs.step = "serving" =>
      /\ obs.height >= obs.trusted
      /\ obs.height >= served
      /\ obs.height >= obs.store.tip.height
      /\ dir.state = obs.height
      /\ \A h \in sealed : h <= obs.height
=============================================================================
