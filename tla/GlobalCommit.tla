---------------------------- MODULE GlobalCommit ----------------------------
(***************************************************************************)
(* The multi-shard commit of a Protocol v2 node (internal/v2/node).        *)
(*                                                                         *)
(* Runtime.Commit carries one certified block to several independent       *)
(* stores: the global commit journal (PREPARING), the certified history,   *)
(* the write-ahead log of every shard the block changes, the journal again *)
(* (COMMITTED) and the external finality anchor.  Any of these writes may  *)
(* fail, or the process may die in the middle of it.  The node then comes  *)
(* back through OpenObserver / RecoverCertifiedHistoryWithCheckpoint /     *)
(* RecoverGlobalCommitJournal, which reconcile the stores.                 *)
(*                                                                         *)
(* Agreement is assumed here (there is one certified block per height); it *)
(* is the subject of module ValidatorService.  A block is abstracted to    *)
(* the set of shards its deltas change, a state root to how many times the *)
(* delta of each height has been applied to the shard.                     *)
(***************************************************************************)
EXTENDS Integers, FiniteSets

CONSTANTS
    ShardCount,    \* Runtime.ShardCount
    MaxHeight,     \* bound: the highest block of the chain
    MaxFaults,     \* bound: I/O failures and crashes in a behaviour
    HistoryLimit,  \* maxCertifiedHistoryRecords (4096 in the code)
    History,       \* Runtime.history is attached (the observer attaches it)
    Anchor,        \* Runtime.anchorStore is attached (optional, needs History)
    InProcess      \* the caller retries recovery without restarting the process

ASSUME ConstantsAssumption ==
    /\ ShardCount \in Nat \ {0}
    /\ MaxHeight \in Nat
    /\ MaxFaults \in Nat
    /\ HistoryLimit \in Nat
    /\ History \in BOOLEAN
    /\ Anchor \in BOOLEAN
    /\ InProcess \in BOOLEAN
    \* EnableFinalityAnchorStore requires the history to be configured.
    /\ Anchor => History
    \* Nothing in the repository recovers a runtime with a history in place.
    /\ InProcess => ~History

Shards == 0 .. ShardCount - 1

Heights == 1 .. MaxHeight

VARIABLES
    block,            \* block[k]: the shards the certified block k changes
    height,           \* Runtime.Height (ParentHash moves with it)
    econ,             \* economicCollector.LastHeight()
    recoveryRequired, \* Runtime.recoveryRequired
    mem,              \* Disk.mem of each shard
    dur,              \* what replaying the shard's WAL would rebuild
    file,             \* the end of the shard's WAL: clean, torn or corrupt
    journal,          \* the global commit journal: height (0: none), status
    hist,             \* complete records in the certified history file
    histFile,         \* the end of that file: clean or torn
    histPoisoned,     \* CertifiedHistory.poisoned
    anchor,           \* last complete height in the finality anchor file
    anchorFile,       \* the end of that file: clean or torn
    anchorPoisoned,   \* FinalityAnchorStore.poisoned
    pc,               \* the write Commit or the recovery is about to make
    work,             \* the height being committed or recovered
    todo,             \* the shards the current loop has still to visit
    reopening,        \* the recovery runs inside the opening of the node
    served,           \* history variable: highest height a caller has seen
    faults            \* failures so far

disk == <<mem, dur, file>>
history == <<hist, histFile, histPoisoned>>
anchorStore == <<anchor, anchorFile, anchorPoisoned>>
control == <<height, econ, recoveryRequired, pc, work, todo, reopening>>
vars == <<block, control, disk, journal, history, anchorStore, served, faults>>

-----------------------------------------------------------------------------
(* Shard states.                                                           *)

States == [Heights -> Nat]

Genesis == [k \in Heights |-> 0]

\* The state after the delta of height k is applied (Memory.Apply).
With(st, k) == [st EXCEPT ![k] = @ + 1]

\* The state of shard s after the blocks 1..h of a chain with contents b.
PrefixState(b, s, h) == [k \in Heights |-> IF k <= h /\ s \in b[k] THEN 1 ELSE 0]

\* Commitments[s].StateRoot of block h: the PostRoot of its delta and the
\* PreRoot of the delta of h + 1.
Expected(s, h) == PrefixState(block, s, h)

\* The loops over shards run in ascending order (sort.Ints, the for loops).
IsNext(s) == s \in todo /\ \A t \in todo : s <= t

-----------------------------------------------------------------------------
(* The stores.                                                             *)

Record(k, status) == [h |-> k, status |-> status]

NoJournal == Record(0, "none")

\* Mutants of WriteWAL: replay keeps two records with one sequence number;
\* the append is acknowledged without being made.
WriteWALTwice(s, k) ==
    IF file[s] = "clean"
    THEN dur' = [dur EXCEPT ![s] = With(@, k)] /\ UNCHANGED file
    ELSE \E e \in {file[s], "corrupt"} : file' = [file EXCEPT ![s] = e] /\ UNCHANGED dur

WriteWALUnlogged(s, k) == UNCHANGED <<file, dur>>

\* Disk.appendWAL returned nil.  A complete record that an earlier failed
\* append left behind carries the same sequence number: replayWAL keeps the
\* first of the two.  Behind the bytes of a torn record the new one is lost:
\* replayWAL reports ErrPersistenceCorrupt, or takes it for the rest of the
\* torn record and truncates both.
WriteWAL(s, k) ==
    IF file[s] = "clean"
    THEN /\ dur' = [dur EXCEPT ![s] = IF @ = mem[s] THEN With(@, k) ELSE @]
         /\ UNCHANGED file
    ELSE \E e \in {file[s], "corrupt"} : file' = [file EXCEPT ![s] = e] /\ UNCHANGED dur

\* appendWAL failed or was interrupted: no byte, some bytes or the whole
\* record reached the file.  Nothing in Disk remembers the failure.
TearWAL(s, k) ==
    \/ UNCHANGED <<file, dur>>
    \/ file[s] = "clean" /\ file' = [file EXCEPT ![s] = "torn"] /\ UNCHANGED dur
    \/ WriteWAL(s, k)

\* CertifiedHistory.Append, the checks before the write.
HistoryReady(k) == ~histPoisoned /\ hist < HistoryLimit /\ hist = k - 1

WriteHistory ==
    /\ hist' = hist + 1
    /\ UNCHANGED <<histFile, histPoisoned>>

TearHistory ==
    /\ histPoisoned' = TRUE
    /\ \/ UNCHANGED <<hist, histFile>>
       \/ histFile' = "torn" /\ UNCHANGED hist
       \/ hist' = hist + 1 /\ UNCHANGED histFile

\* FinalityAnchorStore.advance, the checks before the write.  Records are
\* appended for consecutive heights, so their number is the last height.
AnchorReady(k) == ~anchorPoisoned /\ anchor <= k /\ (anchor = k \/ anchor < HistoryLimit)

\* Mutant of WriteAnchor: the anchor names the block after the committed one.
WriteAnchorAhead(k) ==
    /\ anchor' = k + 1
    /\ UNCHANGED <<anchorFile, anchorPoisoned>>

WriteAnchor(k) ==
    /\ anchor' = k
    /\ UNCHANGED <<anchorFile, anchorPoisoned>>

TearAnchor(k) ==
    /\ anchor # k
    /\ anchorPoisoned' = TRUE
    /\ \/ UNCHANGED <<anchor, anchorFile>>
       \/ anchorFile' = "torn" /\ UNCHANGED anchor
       \/ anchor' = k /\ UNCHANGED anchorFile

-----------------------------------------------------------------------------
(* How a call ends before its last line.                                   *)

\* The process is gone, and its memory with it.
Halt ==
    /\ pc' = "down"
    /\ height' = 0 /\ econ' = 0 /\ work' = 0 /\ todo' = {}
    /\ recoveryRequired' = FALSE /\ reopening' = FALSE

\* Mutant of Return: a failed call does not make the runtime refuse the next.
ReturnForgets(required) ==
    \/ reopening /\ Halt
    \/ /\ ~reopening
       /\ pc' = "idle" /\ work' = 0 /\ todo' = {}
       /\ recoveryRequired' = FALSE
       /\ UNCHANGED <<height, econ, reopening>>

\* The call returns an error.  OpenObserver gives up and closes the stores;
\* any other caller keeps the runtime.
Return(required) ==
    \/ reopening /\ Halt
    \/ /\ ~reopening
       /\ pc' = "idle" /\ work' = 0 /\ todo' = {}
       /\ recoveryRequired' = required
       /\ UNCHANGED <<height, econ, reopening>>

\* A write fails: it returns an error, or the process dies during it.
Fault == faults < MaxFaults /\ faults' = faults + 1

Fails == Fault /\ (Halt \/ Return(TRUE))

-----------------------------------------------------------------------------
(* Runtime.Commit.                                                         *)

\* preflightCandidateState: simulating the block gives the roots it commits
\* to; PreviewFinalizedBlock: the collector stands right before the block.
Preflight(k) ==
    /\ \A s \in Shards :
          (IF s \in block[k] THEN With(mem[s], k) ELSE mem[s]) = Expected(s, k)
    /\ econ = k - 1

\* Everything up to the PREPARING journal.
WriteIntent(k) ==
    /\ pc = "idle"
    /\ ~recoveryRequired
    /\ k = height + 1
    /\ Preflight(k)
    /\ \/ /\ journal' = Record(k, "preparing")
          /\ work' = k /\ todo' = block[k]
          /\ pc' = IF History THEN "history" ELSE "apply"
          /\ UNCHANGED <<height, econ, recoveryRequired, reopening, faults>>
       \/ /\ journal' \in {journal, Record(k, "preparing")}
          /\ Fails
    /\ UNCHANGED <<block, disk, history, anchorStore, served>>

AppendHistory ==
    /\ pc = "history"
    /\ \/ /\ HistoryReady(work)
          /\ WriteHistory
          /\ pc' = "apply"
          /\ UNCHANGED <<height, econ, recoveryRequired, work, todo, reopening, faults>>
       \/ /\ HistoryReady(work)
          /\ TearHistory
          /\ Fails
       \/ /\ ~HistoryReady(work)
          /\ Return(TRUE)
          /\ UNCHANGED <<history, faults>>
    /\ UNCHANGED <<block, disk, journal, anchorStore, served>>

ApplyShard(s) ==
    /\ pc = "apply"
    /\ IsNext(s)
    /\ \/ /\ WriteWAL(s, work)
          /\ mem' = [mem EXCEPT ![s] = With(@, work)]
          /\ \/ /\ With(mem[s], work) = Expected(s, work)
                /\ todo' = todo \ {s}
                /\ UNCHANGED <<height, econ, recoveryRequired, pc, work, reopening>>
             \/ /\ With(mem[s], work) # Expected(s, work)
                /\ Return(TRUE)
          /\ UNCHANGED faults
       \/ /\ TearWAL(s, work)
          /\ Fails
          /\ UNCHANGED mem
    /\ UNCHANGED <<block, journal, history, anchorStore, served>>

WriteCommitted ==
    /\ pc = "apply"
    /\ todo = {}
    /\ \/ /\ journal' = Record(work, "committed")
          /\ pc' = "anchor"
          /\ UNCHANGED <<height, econ, recoveryRequired, work, todo, reopening, faults>>
       \/ /\ journal' \in {journal, Record(work, "committed")}
          /\ Fails
    /\ UNCHANGED <<block, disk, history, anchorStore, served>>

\* The anchor, then the assignments that publish the new height.
AdvanceAnchor ==
    /\ pc = "anchor"
    /\ \/ /\ IF Anchor THEN AnchorReady(work) /\ WriteAnchor(work)
                       ELSE UNCHANGED anchorStore
          /\ height' = work /\ econ' = work /\ served' = work
          /\ pc' = "idle" /\ work' = 0 /\ todo' = {}
          /\ UNCHANGED <<recoveryRequired, reopening, faults>>
       \/ /\ Anchor
          /\ AnchorReady(work)
          /\ TearAnchor(work)
          /\ Fails
          /\ UNCHANGED served
       \/ /\ Anchor
          /\ ~AnchorReady(work)
          /\ Return(TRUE)
          /\ UNCHANGED <<anchorStore, served, faults>>
    /\ UNCHANGED <<block, disk, journal, history>>

-----------------------------------------------------------------------------
(* Stopping, opening and recovery.                                         *)

\* The process is killed between two writes.
Crash ==
    /\ pc # "down"
    /\ Fault
    /\ Halt
    /\ UNCHANGED <<block, disk, journal, history, anchorStore, served>>

\* Observer.Close.
Close ==
    /\ pc = "idle"
    /\ Halt
    /\ UNCHANGED <<block, disk, journal, history, anchorStore, served, faults>>

\* Mutant of MustRecover: an existing journal is overlooked.
MustRecoverHistory == History

\* A new runtime refuses calls until its history, or a journal that is already
\* there, has been recovered.
MustRecover == History \/ journal.h # 0

\* OpenDisk on every shard (replayWAL truncates a torn tail and refuses a
\* corrupt log), NewRuntime, EnableGlobalCommitJournal, EnableCertifiedHistory
\* and OpenFinalityAnchorStore.  A refused open is not a step: all it leaves
\* behind is the truncation that the next one would do as well.
OpenStores ==
    /\ pc = "down"
    /\ \A s \in Shards : file[s] # "corrupt"
    /\ anchorFile = "clean"
    /\ mem' = dur
    /\ file' = [s \in Shards |-> "clean"]
    /\ histPoisoned' = FALSE /\ anchorPoisoned' = FALSE
    /\ \/ /\ MustRecover
          /\ recoveryRequired' = TRUE /\ reopening' = TRUE
          /\ pc' = "replay"
       \/ /\ ~MustRecover
          /\ recoveryRequired' = FALSE /\ reopening' = FALSE
          /\ pc' = "idle"
    /\ UNCHANGED <<block, dur, journal, hist, histFile, anchor, anchorFile,
                   height, econ, work, todo, served, faults>>

\* Mutant of HistoryAccepts: the journal is not compared with the history.
HistoryAcceptsAny == histFile = "clean" /\ hist > 0 /\ anchor <= hist

\* ReplayWithCheckpoints: every record parses, there is one, the anchored
\* height is among them and the journal holds the last of them.
HistoryAccepts ==
    /\ histFile = "clean"
    /\ hist > 0
    /\ anchor <= hist
    /\ journal.h = hist

\* Mutants of StartRecovery: the block after the journal's is recovered; the
\* loop over the shards starts at 1; a new runtime is not recognized.
StartRecoveryNext ==
    /\ journal.h # 0
    /\ height \in {journal.h - 1, journal.h, 0}
    /\ pc' = "recover"
    /\ work' = journal.h + 1 /\ todo' = Shards
    /\ UNCHANGED <<height, econ, recoveryRequired, reopening>>

StartRecoveryFromOne ==
    /\ journal.h # 0
    /\ height \in {journal.h - 1, journal.h, 0}
    /\ pc' = "recover"
    /\ work' = journal.h /\ todo' = Shards \ {0}
    /\ UNCHANGED <<height, econ, recoveryRequired, reopening>>

StartRecoveryAnchored ==
    /\ journal.h # 0
    /\ height \in {journal.h - 1, journal.h}
    /\ pc' = "recover"
    /\ work' = journal.h /\ todo' = Shards
    /\ UNCHANGED <<height, econ, recoveryRequired, reopening>>

\* The first half of RecoverGlobalCommitJournal: the journal is read and the
\* runtime must stand right before it, at it, or nowhere yet.
StartRecovery ==
    /\ journal.h # 0
    /\ height \in {journal.h - 1, journal.h, 0}
    /\ pc' = "recover"
    /\ work' = journal.h /\ todo' = Shards
    /\ UNCHANGED <<height, econ, recoveryRequired, reopening>>

ReplayHistory ==
    /\ pc = "replay"
    /\ \/ (History => HistoryAccepts) /\ StartRecovery
       \/ History /\ ~HistoryAccepts /\ Return(TRUE)
    /\ UNCHANGED <<block, disk, journal, history, anchorStore, served, faults>>

\* RecoverGlobalCommitJournal on the runtime whose Commit failed.
RecoverInProcess ==
    /\ InProcess
    /\ pc = "idle"
    /\ StartRecovery
    /\ UNCHANGED <<block, disk, journal, history, anchorStore, served, faults>>

\* A shard at its post-root is left alone, one at its pre-root is completed.
NeedsDelta(s) ==
    /\ s \in block[work]
    /\ journal.status = "preparing"
    /\ mem[s] = Expected(s, work - 1)
    /\ With(mem[s], work) = Expected(s, work)

RecoverShard(s) ==
    /\ pc = "recover"
    /\ IsNext(s)
    /\ \/ /\ mem[s] = Expected(s, work)
          /\ todo' = todo \ {s}
          /\ UNCHANGED <<height, econ, recoveryRequired, pc, work, reopening, disk, faults>>
       \/ /\ mem[s] # Expected(s, work)
          /\ NeedsDelta(s)
          /\ \/ /\ WriteWAL(s, work)
                /\ mem' = [mem EXCEPT ![s] = With(@, work)]
                /\ todo' = todo \ {s}
                /\ UNCHANGED <<height, econ, recoveryRequired, pc, work, reopening, faults>>
             \/ /\ TearWAL(s, work)
                /\ Fails
                /\ UNCHANGED mem
       \/ /\ mem[s] # Expected(s, work)
          /\ ~NeedsDelta(s)
          /\ Return(recoveryRequired)
          /\ UNCHANGED <<disk, faults>>
    /\ UNCHANGED <<block, journal, history, anchorStore, served>>

\* restoreJournalEconomics, the COMMITTED journal and the new anchor of the
\* runtime.  The economics of a failed journal write stay restored.
FinishRecovery ==
    /\ pc = "recover"
    /\ todo = {}
    /\ \/ /\ journal' = Record(work, "committed")
          /\ height' = work /\ econ' = work
          /\ recoveryRequired' = FALSE
          /\ pc' = IF reopening THEN "restored" ELSE "idle"
          /\ work' = 0 /\ todo' = {}
          /\ served' = IF reopening \/ served > height' THEN served ELSE height'
          /\ UNCHANGED <<reopening, faults>>
       \/ /\ journal.status = "preparing"
          /\ journal' \in {journal, Record(work, "committed")}
          /\ Fault
          /\ \/ Halt
             \/ /\ ~reopening
                /\ pc' = "idle" /\ work' = 0 /\ todo' = {}
                /\ recoveryRequired' = TRUE
                /\ econ' = work
                /\ UNCHANGED <<height, reopening>>
          /\ UNCHANGED served
    /\ UNCHANGED <<block, disk, history, anchorStore>>

\* The end of RecoverCertifiedHistoryWithCheckpoint and of OpenObserver.
CatchUpAnchor ==
    /\ pc = "restored"
    /\ \/ /\ IF Anchor THEN AnchorReady(height) /\ WriteAnchor(height)
                       ELSE UNCHANGED anchorStore
          /\ pc' = "idle"
          /\ reopening' = FALSE
          /\ served' = IF served > height THEN served ELSE height
          /\ UNCHANGED <<height, econ, recoveryRequired, work, todo, faults>>
       \/ /\ Anchor
          /\ AnchorReady(height)
          /\ TearAnchor(height)
          /\ Fails
          /\ UNCHANGED served
       \/ /\ Anchor
          /\ ~AnchorReady(height)
          /\ Return(TRUE)
          /\ UNCHANGED <<anchorStore, served, faults>>
    /\ UNCHANGED <<block, disk, journal, history>>

-----------------------------------------------------------------------------
(* The specification.                                                      *)

Init ==
    /\ block \in [Heights -> SUBSET Shards]
    /\ height = 0 /\ econ = 0 /\ recoveryRequired = FALSE
    /\ mem = [s \in Shards |-> Genesis]
    /\ dur = [s \in Shards |-> Genesis]
    /\ file = [s \in Shards |-> "clean"]
    /\ journal = NoJournal
    /\ hist = 0 /\ histFile = "clean" /\ histPoisoned = FALSE
    /\ anchor = 0 /\ anchorFile = "clean" /\ anchorPoisoned = FALSE
    /\ pc = "idle" /\ work = 0 /\ todo = {} /\ reopening = FALSE
    /\ served = 0 /\ faults = 0

Next ==
    \/ \E k \in Heights : WriteIntent(k)
    \/ AppendHistory
    \/ \E s \in Shards : ApplyShard(s)
    \/ WriteCommitted
    \/ AdvanceAnchor
    \/ Crash
    \/ Close
    \/ OpenStores
    \/ ReplayHistory
    \/ RecoverInProcess
    \/ \E s \in Shards : RecoverShard(s)
    \/ FinishRecovery
    \/ CatchUpAnchor

Spec == Init /\ [][Next]_vars

\* What goes right when nothing fails: the calls in progress return, a node
\* that requires recovery is stopped, and a stopped node is started again.
Progress ==
    /\ \/ AppendHistory
       \/ \E s \in Shards : ApplyShard(s)
       \/ WriteCommitted
       \/ AdvanceAnchor
       \/ recoveryRequired /\ Close
       \/ OpenStores
       \/ ReplayHistory
       \/ \E s \in Shards : RecoverShard(s)
       \/ FinishRecovery
       \/ CatchUpAnchor
    /\ UNCHANGED faults

FairSpec == Spec /\ WF_vars(Progress)

-----------------------------------------------------------------------------
(* Properties.                                                             *)

FlagsOK ==
    /\ recoveryRequired \in BOOLEAN /\ reopening \in BOOLEAN
    /\ histPoisoned \in BOOLEAN /\ anchorPoisoned \in BOOLEAN

\* The values the variables take: a height never passes the end of the chain
\* and an interrupted write leaves one of the modelled traces.
TypeOK ==
    /\ FlagsOK
    /\ block \in [Heights -> SUBSET Shards]
    /\ height \in 0 .. MaxHeight /\ econ \in 0 .. MaxHeight
    /\ mem \in [Shards -> States] /\ dur \in [Shards -> States]
    /\ file \in [Shards -> {"clean", "torn", "corrupt"}]
    /\ journal \in [h : 0 .. MaxHeight, status : {"none", "preparing", "committed"}]
    /\ hist \in 0 .. MaxHeight /\ histFile \in {"clean", "torn"}
    /\ anchor \in 0 .. MaxHeight /\ anchorFile \in {"clean", "torn"}
    /\ pc \in {"idle", "history", "apply", "anchor", "down", "replay", "recover", "restored"}
    /\ work \in 0 .. MaxHeight /\ todo \in SUBSET Shards
    /\ served \in 0 .. MaxHeight /\ faults \in 0 .. MaxFaults

\* A runtime that accepts calls (BuildCandidate, Commit).
Available == pc = "idle" /\ ~recoveryRequired

\* Whatever failed before, a runtime that accepts calls has every shard at
\* exactly the block it reports, and its economics too: no shard is missing
\* a delta, is ahead, or has one twice (Commit, RecoverGlobalCommitJournal).
AtomicState ==
    Available => econ = height /\ \A s \in Shards : mem[s] = Expected(s, height)

\* No retry of Commit or of the recovery applies a delta a second time, in
\* memory or in the log ("a shard already at its post-root is never applied
\* twice"), not even on the way.
AppliedOnce == \A s \in Shards, k \in Heights : mem[s][k] <= 1 /\ dur[s][k] <= 1

\* The certified ancestry is preserved before any shard is mutated (the
\* order of the writes of Commit, kept by the recovery).
HistoryBeforeState ==
    History => \A s \in Shards, k \in Heights : dur[s][k] > 0 => k <= hist

\* The external anchor never runs ahead: each height it holds is in the
\* history, and all its deltas are in the logs.
AnchorBehindState ==
    Anchor => /\ anchor <= hist
              /\ \A k \in 1 .. anchor : \A s \in block[k] : dur[s][k] = 1

\* What a caller was told is final stays in the logs of all the shards, and
\* those logs stay readable, through every later failure and restart.
ServedIsDurable ==
    \A s \in Shards :
        /\ file[s] # "corrupt"
        /\ \A k \in 1 .. served : s \in block[k] => dur[s][k] = 1

\* A runtime that accepts calls again is not behind what it served before.
NoRollback == Available => height >= served

\* Opening the node would succeed as far as its stores are concerned.
Openable ==
    /\ \A s \in Shards : file[s] # "corrupt"
    /\ anchorFile = "clean"
    /\ History => HistoryAccepts

\* A node that served a block and was stopped without any failure can be
\* opened again.
CleanStopReopens == pc = "down" /\ faults = 0 /\ served > 0 => Openable

\* Once an intent is in the journal, and in the history where there is one,
\* the block is finalized: failures that end delay it but cannot lose it.
IntentSettles ==
    \A k \in Heights :
        (journal.h = k /\ (History => hist = k /\ histFile = "clean" /\ anchorFile = "clean"))
            ~> (served >= k \/ anchorFile = "torn")

\* The runtime implements the atomic commit of module AtomicCommit: a caller
\* that finds it available sees Height and the state of the shards, and in
\* between keeps what it saw last.
Abstract == INSTANCE AtomicCommit WITH
    content <- block,
    available <- Available,
    finalized <- IF Available THEN height ELSE served,
    view <- IF Available THEN mem ELSE [s \in Shards |-> Expected(s, served)]

\* From one moment at which the runtime accepts calls to the next, whatever
\* failed or restarted in between, Commit and the recovery took it from a
\* complete block to the same or to the next complete block.
AtomicCommitSpec == Abstract!ASpec
=============================================================================
