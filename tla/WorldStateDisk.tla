--------------------------- MODULE WorldStateDisk ---------------------------
(***************************************************************************)
(* The durable state of one shard (internal/v2/worldstate, type Disk): an  *)
(* object set in memory, a write-ahead log and a checkpoint that replaces  *)
(* the log.  A write may fail or be interrupted, and what was not synced   *)
(* may be lost with the power.                                             *)
(*                                                                         *)
(* An object is its identifier; the state root is the set of objects.      *)
(* Disk.objects mirrors Disk.mem and is not kept twice.  The writer lock   *)
(* is the guard of Open: a store has at most one process.                  *)
(***************************************************************************)
EXTENDS Integers, Sequences

CONSTANTS
    Objects,    \* object identifiers
    Deltas,     \* deltas: [consumed, created], sets of objects
    MaxSeq,     \* bound: records ever acknowledged
    MaxFaults   \* bound: failed or interrupted writes

ASSUME DiskAssumption ==
    /\ \A d \in Deltas : d.consumed \subseteq Objects /\ d.created \subseteq Objects
    /\ MaxSeq \in Nat /\ MaxFaults \in Nat

VARIABLES
    pc,        \* "down", "idle", or the Checkpoint step that comes next
    objs,      \* Disk.mem
    seq,       \* Disk.seq
    failed,    \* the caller saw an Apply fail (Runtime.recoveryRequired)
    wal,       \* state.wal: complete records and fragments of records
    lostWal,   \* contents the log may fall back to when the power is lost
    ckpt,      \* state.checkpoint as a power loss would leave it
    renamed,   \* the renamed file whose directory entry is not synced, or ckpt
    faults

vars == <<pc, objs, seq, failed, wal, lostWal, ckpt, renamed, faults>>

-----------------------------------------------------------------------------
(* Deltas and records.                                                     *)

\* Disk.prevalidate and the checks of Memory.Apply.
Valid(os, d) == d.consumed \subseteq os /\ d.created \cap os \subseteq d.consumed

\* Memory.Apply and applyMirror.
Result(os, d) == (os \ d.consumed) \cup d.created

Record(n, d) == [seq |-> n, delta |-> d]

\* Part of a record: a write that stopped in the middle.
Torn == [seq |-> 0, delta |-> [consumed |-> {}, created |-> {}]]

-----------------------------------------------------------------------------
(* loadCheckpoint and replayWAL.                                           *)

Loaded(c) == [ok |-> TRUE, objs |-> c.objs, seq |-> c.seq]

\* Mutant of ReplayRecord: records the checkpoint covers are not skipped.
ReplayRecordAgain(st, r) ==
    IF r.seq = st.seq + 1 /\ Valid(st.objs, r.delta)
    THEN [ok |-> st.ok, objs |-> Result(st.objs, r.delta), seq |-> r.seq]
    ELSE [st EXCEPT !.ok = FALSE]

\* One complete record: an old one is skipped, the next one is applied.
ReplayRecord(st, r) ==
    CASE r.seq <= st.seq -> st
      [] r.seq = st.seq + 1 /\ Valid(st.objs, r.delta) ->
           [ok |-> st.ok, objs |-> Result(st.objs, r.delta), seq |-> r.seq]
      [] OTHER -> [st EXCEPT !.ok = FALSE]

\* The state after the first n items of log w on top of checkpoint c.
ReplayPrefix(c, w, n) ==
    LET step[i \in 0 .. n] ==
          IF i = 0 THEN Loaded(c) ELSE ReplayRecord(step[i - 1], w[i])
    IN  step[n]

\* Where replay stops: at the end, or at the first fragment.
Complete(w) == CHOOSE n \in 0 .. Len(w) :
    /\ \A i \in 1 .. n : w[i] # Torn
    /\ n < Len(w) => w[n + 1] = Torn

\* What OpenDisk finds.  A fragment at the end is truncated.  With bytes
\* behind it, replay may also report ErrPersistenceCorrupt.
Recovered == ReplayPrefix(renamed, wal, Complete(wal))

Readable == Recovered.ok /\ Complete(wal) >= Len(wal) - 1

\* Mutant of Truncated: the fragment stays in the file.
TruncatedNot(w) == w

\* The log that OpenDisk leaves: Truncate(offset) cuts the fragment off.
Truncated(w) == SubSeq(w, 1, Complete(w))

-----------------------------------------------------------------------------
(* Failures.                                                               *)

Fault == faults < MaxFaults /\ faults' = faults + 1

\* The process is gone; what was not synced may be too.
Lost(w) ==
    /\ pc' = "down" /\ failed' = FALSE
    /\ wal' \in {w} \cup lostWal
    /\ lostWal' = {}
    /\ ckpt' \in {ckpt, renamed}
    /\ renamed' = ckpt'
    /\ UNCHANGED <<objs, seq>>

-----------------------------------------------------------------------------
(* Operations.                                                             *)

\* OpenDisk.  The truncation of a fragment is not synced.
Open ==
    /\ pc = "down"
    /\ Readable
    /\ objs' = Recovered.objs /\ seq' = Recovered.seq
    /\ wal' = Truncated(wal)
    /\ lostWal' = IF wal' = wal THEN lostWal ELSE lostWal \cup {wal}
    /\ pc' = "idle"
    /\ UNCHANGED <<failed, ckpt, renamed, faults>>

\* Apply: the log first, then memory.  A caller that saw it fail uses the
\* store no more before it has reopened it; a complete record that a failed
\* append left counts as written.
Apply(d) ==
    /\ pc = "idle" /\ ~failed
    /\ seq < MaxSeq
    /\ Valid(objs, d)
    /\ \/ /\ wal' = Append(wal, Record(seq + 1, d))
          /\ lostWal' = {}
          /\ objs' = Result(objs, d) /\ seq' = seq + 1
          /\ UNCHANGED <<pc, failed, ckpt, renamed, faults>>
       \/ /\ Fault
          /\ \E w \in {wal, Append(wal, Torn), Append(wal, Record(seq + 1, d))} :
                \/ Lost(w)
                \/ /\ wal' = w
                   /\ lostWal' = IF w = Append(wal, Record(seq + 1, d)) THEN {} ELSE lostWal
                   /\ failed' = TRUE
                   /\ UNCHANGED <<pc, objs, seq, ckpt, renamed>>

\* Mutant of WriteCheckpoint: the sequence number is one too high.
WriteCheckpointAhead ==
    /\ pc = "idle" /\ ~failed
    /\ renamed' = [seq |-> seq + 1, objs |-> objs]
    /\ pc' = "syncDir"
    /\ UNCHANGED <<objs, seq, failed, wal, lostWal, ckpt, faults>>

\* Checkpoint, up to the rename.  A failure before it leaves no trace.
WriteCheckpoint ==
    /\ pc = "idle" /\ ~failed
    /\ renamed' = [seq |-> seq, objs |-> objs]
    /\ pc' = "syncDir"
    /\ UNCHANGED <<objs, seq, failed, wal, lostWal, ckpt, faults>>

\* Mutant of SyncDir: the rename is not made durable.
SyncDirSkipped ==
    /\ pc = "syncDir"
    /\ pc' = "truncate"
    /\ UNCHANGED <<objs, seq, failed, wal, lostWal, ckpt, renamed, faults>>

SyncDir ==
    /\ pc = "syncDir"
    /\ \/ ckpt' = renamed /\ pc' = "truncate" /\ UNCHANGED faults
       \/ Fault /\ pc' = "idle" /\ UNCHANGED ckpt
    /\ UNCHANGED <<objs, seq, failed, wal, lostWal, renamed>>

TruncateWAL ==
    /\ pc = "truncate"
    /\ \/ /\ wal' = <<>> /\ lostWal' = lostWal \cup {wal}
          /\ pc' = "syncWAL" /\ UNCHANGED faults
       \/ Fault /\ pc' = "idle" /\ UNCHANGED <<wal, lostWal>>
    /\ UNCHANGED <<objs, seq, failed, ckpt, renamed>>

SyncWAL ==
    /\ pc = "syncWAL"
    /\ pc' = "idle"
    /\ \/ lostWal' = {} /\ UNCHANGED faults
       \/ Fault /\ UNCHANGED lostWal
    /\ UNCHANGED <<objs, seq, failed, wal, ckpt, renamed>>

Crash ==
    /\ pc # "down"
    /\ Fault
    /\ Lost(wal)

\* Close syncs the log; its error changes nothing in the store.
Close ==
    /\ pc = "idle"
    /\ pc' = "down" /\ failed' = FALSE
    /\ \/ lostWal' = {} /\ UNCHANGED faults
       \/ Fault /\ UNCHANGED lostWal
    /\ UNCHANGED <<objs, seq, wal, ckpt, renamed>>

-----------------------------------------------------------------------------
(* The specification.                                                      *)

Empty == [seq |-> 0, objs |-> {}]

Init ==
    /\ pc = "down" /\ objs = {} /\ seq = 0 /\ failed = FALSE
    /\ wal = <<>> /\ lostWal = {}
    /\ ckpt = Empty /\ renamed = Empty
    /\ faults = 0

Next ==
    \/ Open
    \/ \E d \in Deltas : Apply(d)
    \/ WriteCheckpoint
    \/ SyncDir
    \/ TruncateWAL
    \/ SyncWAL
    \/ Crash
    \/ Close

Spec == Init /\ [][Next]_vars

-----------------------------------------------------------------------------
(* Properties.                                                             *)

Checkpoints == [seq : 0 .. MaxSeq, objs : SUBSET Objects]

\* The types; a log never holds more than one fragment, at its end.
TypeOK ==
    /\ pc \in {"down", "idle", "syncDir", "truncate", "syncWAL"}
    /\ objs \subseteq Objects /\ seq \in 0 .. MaxSeq /\ failed \in BOOLEAN
    /\ \A w \in {wal} \cup lostWal :
          \A i \in 1 .. Len(w) : \/ w[i] = Torn /\ i = Len(w)
                                 \/ w[i].seq \in 1 .. MaxSeq /\ w[i].delta \in Deltas
    /\ ckpt \in Checkpoints /\ renamed \in Checkpoints
    /\ faults \in 0 .. MaxFaults

\* Whatever fell out of the power loss, the next OpenDisk accepts the files:
\* the crash window of Checkpoint between rename and truncation included.
AlwaysReadable == pc = "down" => Readable

\* The next open finds what any of the possible outcomes of a power loss
\* would give: the choice between old and new files never shows.
LossIsInvisible ==
    \A c \in {ckpt, renamed}, w \in {wal} \cup lostWal :
        ReplayPrefix(c, w, Complete(w)).objs = Recovered.objs

Store == INSTANCE DurableStore WITH
    usable <- pc # "down" /\ ~failed,
    value <- objs,
    durable <- Recovered.objs

\* Apply, Checkpoint, Close and OpenDisk, with every failure and crash,
\* behave like a store that never loses an acknowledged delta and never
\* shows half of one.
DurableStoreSpec == Store!SSpec
=============================================================================
