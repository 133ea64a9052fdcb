------------------------ MODULE GlobalCommitProofs ------------------------
(***************************************************************************)
(* Proofs about GlobalCommit for any number of shards, any chain length    *)
(* and any number of failures.                                             *)
(***************************************************************************)
EXTENDS GlobalCommit, TLAPS

-----------------------------------------------------------------------------
(* The inductive invariant.                                                *)

\* The last block that all the shards are known to have.
Settled == IF journal.status = "preparing" THEN journal.h - 1 ELSE journal.h

\* The journal has a height exactly when it exists.
JournalInv == (journal.status = "none") <=> (journal.h = 0)

\* Without retries in the same process every log, and every state in memory,
\* stands right before or right after the block in the journal, never
\* elsewhere; a shard in memory is not ahead of its log.
AtBoundary ==
    ~InProcess =>
        \A s \in Shards :
            /\ dur[s] \in {Expected(s, Settled), Expected(s, journal.h)}
            /\ pc # "down" =>
                 mem[s] \in {Expected(s, Settled), Expected(s, journal.h)}
            /\ pc # "down" /\ mem[s] = Expected(s, journal.h) =>
                 dur[s] = Expected(s, journal.h)

\* A log whose end was lost behind a torn record, and the memory of a stopped
\* node, hold at least some prefix of the chain.
SomePrefix ==
    \A s \in Shards :
        /\ \E h \in 0 .. journal.h : mem[s] = Expected(s, h)
        /\ \E h \in 0 .. journal.h : dur[s] = Expected(s, h)

\* What Commit knows between two of its writes.
CommitInv ==
    /\ pc \in {"history", "apply", "anchor"} =>
         /\ ~reopening /\ ~recoveryRequired
         /\ work = journal.h /\ work > 0
         /\ height = work - 1 /\ econ = work - 1
    /\ pc \in {"history", "apply"} =>
         /\ journal.status = "preparing"
         /\ todo \subseteq block[work]
         /\ \A s \in Shards : s \in todo => mem[s] = Expected(s, work - 1)
         /\ \A s \in Shards : s \notin todo => mem[s] = Expected(s, work)
    /\ pc = "history" => todo = block[work] /\ History
    /\ pc = "anchor" =>
         /\ journal.status = "committed"
         /\ \A s \in Shards : mem[s] = Expected(s, work)

\* What the recovery knows between two of its steps.
RecoveryInv ==
    /\ pc = "replay" => reopening /\ recoveryRequired /\ height = 0
    /\ pc = "recover" =>
         /\ work = journal.h /\ work > 0
         /\ \A s \in Shards : s \notin todo => mem[s] = Expected(s, work)
         /\ ~recoveryRequired =>
              /\ height = work /\ econ = work /\ journal.status = "committed"
              /\ \A s \in Shards : mem[s] = Expected(s, work)
    /\ pc = "restored" =>
         /\ reopening /\ ~recoveryRequired
         /\ height = journal.h /\ econ = journal.h
         /\ journal.status = "committed"
         /\ \A s \in Shards : mem[s] = Expected(s, height)

\* A runtime outside a call, and a node that is down.
RestInv ==
    /\ pc \in {"idle", "down"} => ~reopening
    /\ pc = "down" => height = 0 /\ econ = 0
    /\ Available =>
         /\ height = journal.h /\ econ = height /\ served = height
         /\ journal.status # "preparing"
         /\ \A s \in Shards : mem[s] = Expected(s, height)

\* Without retries in the same process a failed append is followed by a
\* restart, which truncates what it left.
FileInv ==
    ~InProcess =>
        /\ \A s \in Shards : file[s] # "corrupt"
        /\ pc # "down" /\ ~(pc = "idle" /\ recoveryRequired) =>
             \A s \in Shards : file[s] = "clean"

\* The history holds the block of the journal before any shard does.
HistInv ==
    History =>
        /\ hist \in {Settled, journal.h}
        /\ pc \in {"apply", "anchor", "recover", "restored"} => hist = journal.h
        /\ hist # journal.h => \A s \in Shards : dur[s] = Expected(s, Settled)

\* Nothing beyond the settled block was shown or anchored, and at most the
\* block in the journal is yet to be shown.
HighWaterInv == journal.h - 1 <= served /\ served <= Settled /\ anchor <= Settled

IInv ==
    /\ TypeOK /\ JournalInv /\ AtBoundary /\ SomePrefix
    /\ CommitInv /\ RecoveryInv /\ RestInv
    /\ FileInv /\ HistInv /\ HighWaterInv

-----------------------------------------------------------------------------
(* Facts about shard states.                                               *)

\* Applying the delta of a block to a state gives a state.
LEMMA WithType ==
    ASSUME NEW st \in States, NEW k \in Heights
    PROVE  With(st, k) \in States
BY DEF States, With

\* The state a block commits to is a state.
LEMMA PrefixType ==
    ASSUME NEW b, NEW s, NEW h
    PROVE  PrefixState(b, s, h) \in States
BY Zenon DEF PrefixState, States

\* The delta of block k takes a shard it changes from the pre-root to the
\* post-root.
LEMMA PrefixStep ==
    ASSUME NEW b, NEW s, NEW k \in Heights, s \in b[k]
    PROVE  With(PrefixState(b, s, k - 1), k) = PrefixState(b, s, k)
<1>1. \A i \in Heights : With(PrefixState(b, s, k - 1), k)[i] = PrefixState(b, s, k)[i]
  BY DEF With, PrefixState, Heights
<1> QED
  BY <1>1, Zenon DEF With, PrefixState

\* A shard that block k leaves alone has the same root before and after it.
LEMMA PrefixSame ==
    ASSUME NEW b, NEW s, NEW k \in Heights, s \notin b[k]
    PROVE  PrefixState(b, s, k - 1) = PrefixState(b, s, k)
<1>1. \A i \in Heights : (i <= k - 1 /\ s \in b[i]) <=> (i <= k /\ s \in b[i])
  BY DEF Heights
<1> QED
  BY <1>1, Zenon DEF PrefixState

\* Before the first block every shard is at genesis.
LEMMA PrefixGenesis ==
    ASSUME NEW b, NEW s
    PROVE  PrefixState(b, s, 0) = Genesis
BY DEF PrefixState, Genesis, Heights

\* The heights are integers, and the settled block is the one in the journal
\* or the one before it.
LEMMA Scalars ==
    ASSUME IInv
    PROVE  /\ height \in 0 .. MaxHeight /\ served \in 0 .. MaxHeight
           /\ hist \in 0 .. MaxHeight /\ anchor \in 0 .. MaxHeight
           /\ work \in 0 .. MaxHeight /\ journal.h \in 0 .. MaxHeight
           /\ journal.status \in {"none", "preparing", "committed"}
           /\ journal = Record(journal.h, journal.status)
           /\ Settled \in {journal.h - 1, journal.h}
<1>1. TypeOK
  BY Zenon DEF IInv
<1>2. journal \in [h : 0 .. MaxHeight, status : {"none", "preparing", "committed"}]
  BY <1>1, Zenon DEF TypeOK
<1> QED
  BY <1>1, <1>2, Zenon DEF TypeOK, Settled, Record

\* A step that leaves the shards' memory and the history alone is typed when
\* what it changes is.
LEMMA TypeStep ==
    ASSUME TypeOK, FlagsOK', UNCHANGED <<block, mem, hist, histFile>>,
           dur' \in [Shards -> States],
           file' \in [Shards -> {"clean", "torn", "corrupt"}],
           journal' \in [h : 0 .. MaxHeight, status : {"none", "preparing", "committed"}],
           height' \in 0 .. MaxHeight, econ' \in 0 .. MaxHeight,
           anchor' \in 0 .. MaxHeight, anchorFile' \in {"clean", "torn"},
           pc' \in {"idle", "down", "restored"},
           work' \in 0 .. MaxHeight, todo' \in SUBSET Shards,
           served' \in 0 .. MaxHeight, faults' \in 0 .. MaxFaults
    PROVE  TypeOK'
<1>1. /\ block \in [Heights -> SUBSET Shards] /\ mem \in [Shards -> States]
      /\ hist \in 0 .. MaxHeight /\ histFile \in {"clean", "torn"}
  BY Zenon DEF TypeOK
<1> QED
  BY <1>1, Zenon DEF TypeOK

-----------------------------------------------------------------------------
(* The invariant holds initially and is preserved by every step.           *)

\* A node created on empty stores satisfies the invariant.
LEMMA InitInv == Init => IInv
<1> SUFFICES ASSUME Init PROVE IInv
  BY Zenon
<1> USE ConstantsAssumption DEF ConstantsAssumption
<1>1. TypeOK
  <2>1. block \in [Heights -> SUBSET Shards]
    BY Zenon DEF Init
  <2>2. mem \in [Shards -> States] /\ dur \in [Shards -> States]
    BY Zenon DEF Init, Genesis, States
  <2>3. journal \in [h : 0 .. MaxHeight, status : {"none", "preparing", "committed"}]
    BY DEF Init, NoJournal, Record
  <2>4. FlagsOK
    BY Zenon DEF Init, FlagsOK
  <2> QED
    BY <2>1, <2>2, <2>3, <2>4 DEF Init, TypeOK
<1>2. Settled = 0 /\ journal.h = 0 /\ journal.status = "none"
  BY Zenon DEF Init, Settled, NoJournal, Record
<1>3. \A s \in Shards : mem[s] = Expected(s, 0) /\ dur[s] = Expected(s, 0)
  BY PrefixGenesis, Zenon DEF Init, Expected
<1>4. AtBoundary /\ SomePrefix
  BY <1>2, <1>3 DEF Init, AtBoundary, SomePrefix
<1>5. JournalInv /\ CommitInv /\ RecoveryInv /\ RestInv /\ FileInv /\ HistInv /\ HighWaterInv
  BY <1>2, <1>3 DEF Init, JournalInv, CommitInv, RecoveryInv, RestInv, FileInv, HistInv,
              HighWaterInv, Available
<1> QED
  BY <1>1, <1>4, <1>5, Zenon DEF IInv

\* Commit up to the PREPARING journal preserves the invariant.
LEMMA WriteIntentInv ==
    ASSUME IInv, NEW k \in Heights, WriteIntent(k)
    PROVE  IInv'
<1> USE ConstantsAssumption DEF ConstantsAssumption
<1> USE DEF WriteIntent, Fails, Fault, Return, Halt, disk, history, anchorStore, Record
<1>1. /\ k \in 1 .. MaxHeight /\ k = journal.h + 1 /\ height = k - 1 /\ econ = k - 1
      /\ Settled = k - 1 /\ journal.status # "preparing"
      /\ \A s \in Shards : mem[s] = Expected(s, k - 1)
  BY DEF IInv, TypeOK, RestInv, Available, AtBoundary, Settled, Heights
<1>2. FlagsOK'
  BY Zenon DEF IInv, TypeOK, FlagsOK
<1>3. TypeOK'
  BY <1>1, <1>2 DEF IInv, TypeOK
<1>4. JournalInv'
  BY <1>1 DEF IInv, TypeOK, JournalInv
<1>5. AtBoundary'
  BY <1>1 DEF IInv, TypeOK, AtBoundary, Expected, Settled
<1>6. SomePrefix'
  BY <1>1 DEF IInv, TypeOK, SomePrefix, Expected
<1>7. CommitInv'
  BY <1>1, PrefixSame DEF IInv, TypeOK, CommitInv, RestInv, Expected
<1>8. RecoveryInv' /\ RestInv'
  BY <1>1 DEF IInv, RecoveryInv, RestInv, Available
<1>9. FileInv'
  BY Zenon DEF IInv, FileInv
<1>10. HistInv' /\ HighWaterInv'
  BY <1>1 DEF IInv, TypeOK, HistInv, HighWaterInv, Settled, Expected, AtBoundary, FileInv,
              RestInv, Available
<1> QED
  BY <1>3, <1>4, <1>5, <1>6, <1>7, <1>8, <1>9, <1>10, Zenon DEF IInv

\* The append to the certified history preserves the invariant.
LEMMA AppendHistoryInv ==
    ASSUME IInv, AppendHistory
    PROVE  IInv'
<1> USE ConstantsAssumption DEF ConstantsAssumption
<1> USE DEF AppendHistory, HistoryReady, WriteHistory, TearHistory, Fails, Fault, Return, Halt,
            disk, history, anchorStore
<1>1. /\ History /\ ~InProcess /\ ~reopening
      /\ work = journal.h /\ work > 0 /\ journal.status = "preparing" /\ Settled = work - 1
      /\ hist' # work => hist' = hist
      /\ \A s \in Shards : file[s] = "clean"
  BY DEF IInv, TypeOK, CommitInv, FileInv, Settled
<1>2. FlagsOK'
  BY Zenon DEF IInv, TypeOK, FlagsOK
<1>3. TypeOK'
  BY <1>1, <1>2 DEF IInv, TypeOK
<1>4. JournalInv' /\ AtBoundary' /\ SomePrefix'
  BY Zenon DEF IInv, JournalInv, AtBoundary, SomePrefix, Expected, Settled
<1>5. CommitInv'
  BY DEF IInv, CommitInv, Expected
<1>6. RecoveryInv' /\ RestInv'
  BY <1>1 DEF IInv, RecoveryInv, RestInv, Available
<1>7. FileInv'
  BY <1>1, Zenon DEF IInv, FileInv
<1>8. HistInv'
  BY <1>1 DEF IInv, TypeOK, HistInv, Settled, Expected
<1>9. HighWaterInv'
  BY Zenon DEF IInv, HighWaterInv, Settled
<1> QED
  BY <1>3, <1>4, <1>5, <1>6, <1>7, <1>8, <1>9, Zenon DEF IInv

\* What a completed or an interrupted append may do to the log of one shard.
LEMMA WALAppend ==
    ASSUME IInv, NEW s \in Shards, NEW k \in Heights,
           mem[s] = Expected(s, k - 1), s \in block[k],
           TearWAL(s, k)
    PROVE  /\ file' \in [Shards -> {"clean", "torn", "corrupt"}]
           /\ dur' \in [Shards -> States]
           /\ \A t \in Shards : t # s => file'[t] = file[t] /\ dur'[t] = dur[t]
           /\ dur'[s] \in {dur[s], Expected(s, k)}
           /\ file[s] = "clean" => file'[s] # "corrupt"
<1> USE DEF TearWAL, WriteWAL, Expected
<1>1. With(mem[s], k) = PrefixState(block, s, k) /\ With(mem[s], k) \in States
  BY PrefixStep, PrefixType
<1>2. dur[s] = mem[s] => With(dur[s], k) = PrefixState(block, s, k)
  BY <1>1, Zenon
<1>3. dur[s] \in States /\ file[s] \in {"clean", "torn", "corrupt"}
  BY Zenon DEF IInv, TypeOK
<1>4. dur' \in [Shards -> States]
  BY <1>1, <1>2, <1>3 DEF IInv, TypeOK
<1>5. file' \in [Shards -> {"clean", "torn", "corrupt"}]
  BY <1>3, Zenon DEF IInv, TypeOK
<1>6. \A t \in Shards : t # s => file'[t] = file[t] /\ dur'[t] = dur[t]
  BY Zenon DEF IInv, TypeOK
<1>7. dur'[s] \in {dur[s], Expected(s, k)}
  BY <1>1, <1>2, Zenon DEF IInv, TypeOK
<1>8. file[s] = "clean" => file'[s] # "corrupt"
  BY <1>3, Zenon DEF IInv, TypeOK
<1> QED
  BY <1>4, <1>5, <1>6, <1>7, <1>8, Zenon

\* An acknowledged append on a clean log makes it hold block k, whether or
\* not an interrupted append had already written the record.
LEMMA WALAcknowledged ==
    ASSUME IInv, NEW s \in Shards, NEW k \in Heights,
           mem[s] = Expected(s, k - 1), s \in block[k],
           dur[s] \in {Expected(s, k - 1), Expected(s, k)},
           file[s] = "clean", WriteWAL(s, k)
    PROVE  dur'[s] = Expected(s, k) /\ file'[s] = "clean"
<1>1. With(mem[s], k) = PrefixState(block, s, k)
  BY PrefixStep, Zenon DEF Expected
<1> QED
  BY <1>1, Zenon DEF IInv, TypeOK, WriteWAL, Expected

\* One iteration of Commit's shard loop preserves the invariant.
LEMMA ApplyShardInv ==
    ASSUME IInv, NEW s \in Shards, ApplyShard(s)
    PROVE  IInv'
<1> USE ConstantsAssumption DEF ConstantsAssumption
<1>1. /\ work \in Heights /\ work = journal.h /\ journal.status = "preparing"
      /\ Settled = work - 1 /\ s \in block[work] /\ mem[s] = Expected(s, work - 1)
      /\ ~reopening /\ ~recoveryRequired /\ (History => hist = journal.h)
      /\ pc = "apply" /\ s \in todo
  BY DEF IInv, TypeOK, CommitInv, HistInv, Settled, Heights, ApplyShard, IsNext
<1>2. TearWAL(s, work)
  BY Zenon DEF TearWAL, ApplyShard
<1>3. UNCHANGED <<block, journal, hist, histFile, histPoisoned, anchor, anchorFile,
                  anchorPoisoned, served>>
  BY Zenon DEF ApplyShard, history, anchorStore
<1>4. /\ file' \in [Shards -> {"clean", "torn", "corrupt"}]
      /\ dur' \in [Shards -> States]
      /\ \A t \in Shards : t # s => file'[t] = file[t] /\ dur'[t] = dur[t]
      /\ dur'[s] \in {dur[s], Expected(s, work)}
      /\ file[s] = "clean" => file'[s] # "corrupt"
  BY <1>1, <1>2, <1>3, WALAppend, Zenon
<1>5. With(mem[s], work) = Expected(s, work) /\ With(mem[s], work) \in States
  BY <1>1, PrefixStep, PrefixType DEF Expected
<1>6. FlagsOK'
  BY Zenon DEF IInv, TypeOK, FlagsOK, ApplyShard, Fails, Fault, Return, Halt, history, anchorStore
<1>7. Settled' = Settled /\ JournalInv' /\ HighWaterInv'
  BY <1>3, Zenon DEF IInv, JournalInv, HighWaterInv, Settled
<1>8. CASE /\ WriteWAL(s, work)
           /\ mem' = [mem EXCEPT ![s] = With(@, work)]
           /\ todo' = todo \ {s}
           /\ UNCHANGED <<height, econ, recoveryRequired, pc, work, reopening, faults>>
  <2>1. ~InProcess => dur'[s] = Expected(s, work) /\ file'[s] = "clean"
    BY <1>1, <1>8, WALAcknowledged, Zenon DEF IInv, AtBoundary, FileInv
  <2>2. mem'[s] = Expected(s, work) /\ \A t \in Shards : t # s => mem'[t] = mem[t]
    BY <1>5, <1>8 DEF IInv, TypeOK
  <2>3. TypeOK'
    BY <1>3, <1>4, <1>5, <1>6, <1>8, Zenon DEF IInv, TypeOK
  <2>4. AtBoundary'
    BY <1>1, <1>3, <1>4, <1>7, <1>8, <2>1, <2>2, Zenon DEF IInv, AtBoundary, Expected
  <2>5. SomePrefix'
    BY <1>1, <1>3, <1>4, <2>2 DEF IInv, TypeOK, SomePrefix, Expected
  <2>6. CommitInv'
    BY <1>1, <1>3, <1>8, <2>2, Zenon DEF IInv, CommitInv, Expected
  <2>7. RecoveryInv' /\ RestInv'
    BY <1>1, <1>8, Zenon DEF RecoveryInv, RestInv, Available
  <2>8. FileInv'
    BY <1>1, <1>4, <1>8, <2>1, Zenon DEF IInv, FileInv
  <2>9. HistInv'
    BY <1>1, <1>3, <1>7, <1>8, Zenon DEF IInv, HistInv
  <2> QED
    BY <1>7, <2>3, <2>4, <2>5, <2>6, <2>7, <2>8, <2>9, Zenon DEF IInv
<1>9. CASE Fails /\ UNCHANGED mem
  <2> USE DEF Fails, Fault, Return, Halt
  <2>1. pc' \in {"down", "idle"} /\ (pc' = "idle" => recoveryRequired')
    BY <1>9, Zenon
  <2>2. TypeOK'
    BY <1>3, <1>4, <1>6, <1>9 DEF IInv, TypeOK
  <2>3. AtBoundary'
    BY <1>1, <1>3, <1>4, <1>7, <1>9, Zenon DEF IInv, AtBoundary, Expected
  <2>4. SomePrefix'
    BY <1>1, <1>3, <1>4, <1>9 DEF IInv, TypeOK, SomePrefix, Expected
  <2>5. CommitInv' /\ RecoveryInv'
    BY <2>1, Zenon DEF CommitInv, RecoveryInv
  <2>6. RestInv'
    BY <1>1, <1>9, <2>1 DEF RestInv, Available
  <2>7. FileInv'
    BY <1>1, <1>4, <2>1, Zenon DEF IInv, FileInv
  <2>8. HistInv'
    BY <1>1, <1>3, <1>7, <2>1, Zenon DEF IInv, HistInv
  <2> QED
    BY <1>7, <2>2, <2>3, <2>4, <2>5, <2>6, <2>7, <2>8, Zenon DEF IInv
<1> QED
  BY <1>5, <1>8, <1>9, Zenon DEF ApplyShard

\* The COMMITTED journal write preserves the invariant.
LEMMA WriteCommittedInv ==
    ASSUME IInv, WriteCommitted
    PROVE  IInv'
<1> USE ConstantsAssumption DEF ConstantsAssumption
<1> USE DEF WriteCommitted, Fails, Fault, Return, Halt, disk, history, anchorStore, Record
<1>1. /\ work = journal.h /\ work > 0 /\ journal.status = "preparing" /\ Settled = work - 1
      /\ \A s \in Shards : mem[s] = Expected(s, work)
      /\ ~InProcess => \A s \in Shards : dur[s] = Expected(s, work)
      /\ ~reopening /\ (History => hist = journal.h)
  BY Zenon DEF IInv, TypeOK, CommitInv, AtBoundary, HistInv, Settled
<1>2. FlagsOK'
  BY Zenon DEF IInv, TypeOK, FlagsOK
<1>3. TypeOK'
  BY <1>2 DEF IInv, TypeOK
<1>4. JournalInv' /\ journal'.h = work /\ journal'.status \in {"preparing", "committed"}
      /\ Settled' \in {work - 1, work}
  BY <1>1 DEF IInv, TypeOK, JournalInv, Settled
<1>5. AtBoundary' /\ SomePrefix'
  BY <1>1, <1>4 DEF IInv, AtBoundary, SomePrefix, Expected
<1>6. CommitInv'
  BY <1>1 DEF IInv, CommitInv, Expected
<1>7. RecoveryInv' /\ RestInv'
  BY <1>1 DEF RecoveryInv, RestInv, Available
<1>8. FileInv'
  BY Zenon DEF IInv, FileInv
<1>9. HistInv' /\ HighWaterInv'
  BY <1>1, <1>4 DEF IInv, TypeOK, HistInv, HighWaterInv
<1> QED
  BY <1>3, <1>4, <1>5, <1>6, <1>7, <1>8, <1>9, Zenon DEF IInv

\* The anchor append and the end of Commit preserve the invariant.
LEMMA AdvanceAnchorInv ==
    ASSUME IInv, AdvanceAnchor
    PROVE  IInv'
<1> USE ConstantsAssumption DEF ConstantsAssumption
<1> USE DEF AdvanceAnchor, WriteAnchor, TearAnchor, Fails, Fault, Return, Halt,
            disk, history, anchorStore
<1>1. /\ work = journal.h /\ work > 0 /\ journal.status = "committed" /\ Settled = work
      /\ ~reopening /\ ~recoveryRequired
      /\ \A s \in Shards : mem[s] = Expected(s, work)
  BY Zenon DEF IInv, TypeOK, CommitInv, Settled
<1>2. FlagsOK'
  BY Zenon DEF IInv, TypeOK, FlagsOK
<1>3. TypeOK'
  BY <1>2 DEF IInv, TypeOK
<1>4. JournalInv' /\ AtBoundary' /\ SomePrefix' /\ Settled' = Settled
  BY Zenon DEF IInv, JournalInv, AtBoundary, SomePrefix, Settled, Expected
<1>5. CommitInv' /\ RecoveryInv'
  BY Zenon DEF CommitInv, RecoveryInv
<1>6. RestInv'
  BY <1>1 DEF RestInv, Available, Expected
<1>7. FileInv'
  BY <1>1, Zenon DEF IInv, FileInv
<1>8. HistInv'
  BY <1>1, <1>4, Zenon DEF IInv, HistInv, Expected
<1>9. HighWaterInv'
  BY <1>1, <1>4 DEF IInv, TypeOK, HighWaterInv
<1> QED
  BY <1>3, <1>4, <1>5, <1>6, <1>7, <1>8, <1>9, Zenon DEF IInv

\* Stopping the process between two writes leaves the stores as they are.
LEMMA HaltInv ==
    ASSUME IInv, Halt, faults' \in 0 .. MaxFaults,
           UNCHANGED <<block, disk, journal, history, anchorStore, served>>
    PROVE  IInv'
<1> USE ConstantsAssumption DEF ConstantsAssumption
<1> USE DEF Halt, disk, history, anchorStore
<1>1. FlagsOK'
  BY Zenon DEF IInv, TypeOK, FlagsOK
<1>2. TypeOK'
  BY <1>1 DEF IInv, TypeOK
<1>3. JournalInv' /\ AtBoundary' /\ SomePrefix' /\ Settled' = Settled
  BY Zenon DEF IInv, JournalInv, AtBoundary, SomePrefix, Settled, Expected
<1>4. CommitInv' /\ RecoveryInv' /\ RestInv'
  BY Zenon DEF CommitInv, RecoveryInv, RestInv, Available
<1>5. FileInv' /\ HistInv' /\ HighWaterInv'
  BY <1>3, Zenon DEF IInv, FileInv, HistInv, HighWaterInv, Expected
<1> QED
  BY <1>2, <1>3, <1>4, <1>5, Zenon DEF IInv

\* Opening the stores of a stopped node preserves the invariant.
LEMMA OpenStoresInv ==
    ASSUME IInv, OpenStores
    PROVE  IInv'
<1> USE ConstantsAssumption DEF ConstantsAssumption
<1> USE DEF OpenStores, MustRecover
<1>1. FlagsOK'
  BY Zenon DEF IInv, TypeOK, FlagsOK
<1>2. TypeOK'
  BY <1>1, Zenon DEF IInv, TypeOK
<1>3. JournalInv' /\ AtBoundary' /\ SomePrefix' /\ Settled' = Settled
  <2>1. UNCHANGED <<block, journal, dur>> /\ mem' = dur /\ pc' # "down"
    BY Zenon
  <2>2. JournalInv' /\ Settled' = Settled
    BY <2>1, Zenon DEF IInv, JournalInv, Settled
  <2>3. AtBoundary'
    BY <2>1, <2>2, Zenon DEF IInv, AtBoundary, Expected
  <2>4. SomePrefix'
    BY <2>1, Zenon DEF IInv, SomePrefix, Expected
  <2> QED
    BY <2>2, <2>3, <2>4, Zenon
<1>4. CommitInv' /\ RecoveryInv'
  BY Zenon DEF IInv, RestInv, CommitInv, RecoveryInv
<1>5. journal.h = 0 => /\ journal.status = "none" /\ served = 0
                       /\ \A s \in Shards : dur[s] = Expected(s, 0)
  BY DEF IInv, TypeOK, JournalInv, HighWaterInv, Settled, SomePrefix
<1>6. RestInv'
  BY <1>5, Zenon DEF IInv, RestInv, Available, Expected
<1>7. FileInv' /\ HistInv' /\ HighWaterInv'
  BY <1>3, Zenon DEF IInv, FileInv, HistInv, HighWaterInv, Expected
<1> QED
  BY <1>2, <1>3, <1>4, <1>6, <1>7, Zenon DEF IInv

\* Reading the journal at the start of a recovery preserves the invariant.
LEMMA StartRecoveryInv ==
    ASSUME IInv, StartRecovery,
           \/ pc = "replay" /\ (History => hist = journal.h)
           \/ pc = "idle" /\ InProcess,
           UNCHANGED <<block, disk, journal, history, anchorStore, served, faults>>
    PROVE  IInv'
<1> USE ConstantsAssumption DEF ConstantsAssumption
<1> USE DEF StartRecovery, disk, history, anchorStore
<1>1. FlagsOK'
  BY Zenon DEF IInv, TypeOK, FlagsOK
<1>2. TypeOK'
  BY <1>1, Zenon DEF IInv, TypeOK
<1>3. JournalInv' /\ AtBoundary' /\ SomePrefix' /\ Settled' = Settled
  BY Zenon DEF IInv, JournalInv, AtBoundary, SomePrefix, Settled, Expected
<1>4. CommitInv' /\ RestInv'
  BY Zenon DEF CommitInv, RestInv, Available
<1>5. pc = "idle" /\ ~recoveryRequired =>
         /\ height = journal.h /\ econ = journal.h /\ journal.status = "committed"
         /\ \A s \in Shards : mem[s] = Expected(s, journal.h)
  BY Zenon DEF IInv, TypeOK, JournalInv, RestInv, Available
<1>6. RecoveryInv'
  BY <1>5 DEF IInv, TypeOK, RecoveryInv, Expected
<1>7. FileInv'
  BY Zenon DEF IInv, FileInv
<1>8. HistInv' /\ HighWaterInv'
  BY <1>3, Zenon DEF IInv, HistInv, HighWaterInv, Expected
<1> QED
  BY <1>2, <1>3, <1>4, <1>6, <1>7, <1>8, Zenon DEF IInv

\* Replaying the certified history preserves the invariant.
LEMMA ReplayHistoryInv ==
    ASSUME IInv, ReplayHistory
    PROVE  IInv'
<1> USE ConstantsAssumption DEF ConstantsAssumption
<1>1. UNCHANGED <<block, disk, journal, history, anchorStore, served, faults>>
  BY Zenon DEF ReplayHistory
<1>2. CASE (History => HistoryAccepts) /\ StartRecovery
  BY <1>1, <1>2, StartRecoveryInv, Zenon DEF ReplayHistory, HistoryAccepts
<1>3. CASE Return(TRUE)
  <2>1. Halt
    BY <1>3, Zenon DEF IInv, RecoveryInv, ReplayHistory, Return
  <2>2. faults' \in 0 .. MaxFaults
    BY <1>1, Zenon DEF IInv, TypeOK
  <2> QED
    BY <1>1, <2>1, <2>2, HaltInv, Zenon
<1> QED
  BY <1>2, <1>3, Zenon DEF ReplayHistory

\* A step that takes some states to the block in the journal, and leaves the
\* others, leaves each shard at the state of some block.
LEMMA WorkPrefix ==
    ASSUME IInv, work = journal.h,
           UNCHANGED <<block, journal>>,
           \A t \in Shards : /\ mem'[t] \in {mem[t], Expected(t, work)}
                             /\ dur'[t] \in {dur[t], Expected(t, work)}
    PROVE  SomePrefix'
<1>1. journal.h \in 0 .. journal.h
  BY Scalars
<1>2. \A t, h : Expected(t, h)' = Expected(t, h)
  BY Zenon DEF Expected
<1>3. ASSUME NEW t \in Shards
      PROVE  /\ \E h \in 0 .. journal.h : mem'[t] = Expected(t, h)
             /\ \E h \in 0 .. journal.h : dur'[t] = Expected(t, h)
  <2>1. SomePrefix
    BY Zenon DEF IInv
  <2> QED
    BY <1>1, <1>3, <2>1, Zenon DEF SomePrefix
<1> QED
  BY <1>2, <1>3, Zenon DEF SomePrefix

\* One iteration of the recovery's shard loop preserves the invariant.
LEMMA RecoverShardInv ==
    ASSUME IInv, NEW s \in Shards, RecoverShard(s)
    PROVE  IInv'
<1> USE ConstantsAssumption DEF ConstantsAssumption
<1>1. /\ work \in Heights /\ work = journal.h /\ work > 0
      /\ (History => hist = journal.h)
      /\ pc = "recover" /\ s \in todo
  BY DEF IInv, TypeOK, RecoveryInv, HistInv, Heights, RecoverShard, IsNext
<1>2. UNCHANGED <<block, journal, hist, histFile, histPoisoned, anchor, anchorFile,
                  anchorPoisoned, served>>
  BY Zenon DEF RecoverShard, history, anchorStore
<1>3. Settled' = Settled /\ JournalInv' /\ HighWaterInv'
  BY <1>2, Zenon DEF IInv, JournalInv, HighWaterInv, Settled
<1>4. FlagsOK'
  BY Zenon DEF IInv, TypeOK, FlagsOK, RecoverShard, Fails, Fault, Return, Halt, history, anchorStore
<1>5. CASE /\ mem[s] = Expected(s, work)
           /\ todo' = todo \ {s}
           /\ UNCHANGED <<height, econ, recoveryRequired, pc, work, reopening, disk, faults>>
  <2> USE <1>5 DEF disk
  <2>1. TypeOK'
    BY <1>2, <1>4, Zenon DEF IInv, TypeOK
  <2>2. AtBoundary' /\ SomePrefix' /\ CommitInv' /\ RestInv'
    BY <1>1, <1>2, <1>3, Zenon DEF IInv, AtBoundary, SomePrefix, Expected, CommitInv, RestInv, Available
  <2>3. RecoveryInv'
    BY <1>1, <1>2, Zenon DEF IInv, RecoveryInv, Expected
  <2>4. FileInv' /\ HistInv'
    BY <1>1, <1>2, <1>3, Zenon DEF IInv, FileInv, HistInv
  <2> QED
    BY <1>3, <2>1, <2>2, <2>3, <2>4, Zenon DEF IInv
<1>6. ASSUME NeedsDelta(s), TearWAL(s, work)
      PROVE  /\ journal.status = "preparing" /\ Settled = work - 1 /\ recoveryRequired
             /\ s \in block[work] /\ mem[s] = Expected(s, work - 1)
             /\ file' \in [Shards -> {"clean", "torn", "corrupt"}]
             /\ dur' \in [Shards -> States]
             /\ \A t \in Shards : t # s => file'[t] = file[t] /\ dur'[t] = dur[t]
             /\ dur'[s] \in {dur[s], Expected(s, work)}
             /\ file[s] = "clean" => file'[s] # "corrupt"
  <2>1. /\ journal.status = "preparing" /\ Settled = work - 1 /\ recoveryRequired
        /\ s \in block[work] /\ mem[s] = Expected(s, work - 1)
    BY <1>1, <1>6, Zenon DEF NeedsDelta, IInv, RecoveryInv, Settled
  <2> QED
    BY <1>1, <1>2, <1>6, <2>1, WALAppend, Zenon
<1>7. CASE /\ NeedsDelta(s)
           /\ WriteWAL(s, work)
           /\ mem' = [mem EXCEPT ![s] = With(@, work)]
           /\ todo' = todo \ {s}
           /\ UNCHANGED <<height, econ, recoveryRequired, pc, work, reopening, faults>>
  <2>1. TearWAL(s, work)
    BY <1>7, Zenon DEF TearWAL
  <2>2. ~InProcess => dur'[s] = Expected(s, work) /\ file'[s] = "clean"
    BY <1>1, <1>6, <1>7, <2>1, WALAcknowledged, Zenon DEF IInv, AtBoundary, FileInv
  <2>3. With(mem[s], work) = Expected(s, work) /\ With(mem[s], work) \in States
    BY <1>7, PrefixType, Zenon DEF NeedsDelta, Expected
  <2>4. mem'[s] = Expected(s, work) /\ \A t \in Shards : t # s => mem'[t] = mem[t]
    BY <1>7, <2>3 DEF IInv, TypeOK
  <2>5. TypeOK'
    BY <1>2, <1>4, <1>6, <1>7, <2>1, <2>3, Zenon DEF IInv, TypeOK
  <2>6. AtBoundary'
    BY <1>1, <1>2, <1>3, <1>6, <1>7, <2>1, <2>2, <2>4, Zenon DEF IInv, AtBoundary, Expected
  <2>7. SomePrefix'
    <3>1. \A t \in Shards : /\ mem'[t] \in {mem[t], Expected(t, work)}
                             /\ dur'[t] \in {dur[t], Expected(t, work)}
      BY <1>6, <1>7, <2>1, <2>4, Zenon
    <3> QED
      BY <1>1, <1>2, <3>1, WorkPrefix, Zenon
  <2>8. RecoveryInv'
    BY <1>1, <1>2, <1>7, <2>4, Zenon DEF IInv, RecoveryInv, Expected
  <2>9. CommitInv' /\ RestInv'
    BY <1>1, <1>7, Zenon DEF CommitInv, RestInv, Available
  <2>10. FileInv' /\ HistInv'
    BY <1>1, <1>2, <1>3, <1>6, <1>7, <2>1, <2>2, Zenon DEF IInv, FileInv, HistInv
  <2> QED
    BY <1>3, <2>5, <2>6, <2>7, <2>8, <2>9, <2>10, Zenon DEF IInv
<1>8. CASE NeedsDelta(s) /\ TearWAL(s, work) /\ Fails /\ UNCHANGED mem
  <2> USE DEF Fails, Fault, Return, Halt
  <2>1. pc' \in {"down", "idle"} /\ (pc' = "idle" => recoveryRequired') /\ ~reopening'
    BY <1>8
  <2>2. TypeOK'
    <3>1. /\ TypeOK /\ faults \in 0 .. MaxFaults /\ anchorFile \in {"clean", "torn"}
          /\ journal \in [h : 0 .. MaxHeight, status : {"none", "preparing", "committed"}]
          /\ econ \in 0 .. MaxHeight
      BY Zenon DEF IInv, TypeOK
    <3>2. /\ work' = 0 /\ todo' = {} /\ height' \in {0, height} /\ econ' \in {0, econ}
          /\ mem' = mem
      BY <1>8, Zenon
    <3>3. faults' \in 0 .. MaxFaults
      BY <1>8, <3>1
    <3>4. FlagsOK'
      BY <1>2, <1>8, Zenon DEF IInv, TypeOK, FlagsOK
    <3>5. /\ dur' \in [Shards -> States]
          /\ file' \in [Shards -> {"clean", "torn", "corrupt"}]
      BY <1>4, <1>6, <1>8, Zenon DEF IInv, TypeOK
    <3> QED
      BY <1>2, <2>1, <3>1, <3>2, <3>3, <3>4, <3>5, Scalars, TypeStep
  <2>3. AtBoundary'
    BY <1>1, <1>2, <1>3, <1>6, <1>8, Zenon DEF IInv, AtBoundary, Expected
  <2>4. SomePrefix'
    <3>1. \A t \in Shards : /\ mem'[t] \in {mem[t], Expected(t, work)}
                             /\ dur'[t] \in {dur[t], Expected(t, work)}
      BY <1>6, <1>8, Zenon
    <3> QED
      BY <1>1, <1>2, <3>1, WorkPrefix, Zenon
  <2>5. CommitInv' /\ RecoveryInv'
    BY <2>1, Zenon DEF CommitInv, RecoveryInv
  <2>6. RestInv'
    BY <1>8, <2>1, Zenon DEF RestInv, Available
  <2>7. FileInv'
    BY <1>1, <1>6, <1>8, <2>1, Zenon DEF IInv, FileInv
  <2>8. HistInv'
    BY <1>1, <1>2, <1>3, <2>1, Zenon DEF IInv, HistInv
  <2> QED
    BY <1>3, <2>2, <2>3, <2>4, <2>5, <2>6, <2>7, <2>8, Zenon DEF IInv
<1>9. CASE /\ mem[s] # Expected(s, work)
           /\ Return(recoveryRequired)
           /\ UNCHANGED <<disk, faults>>
  <2>1. recoveryRequired
    BY <1>1, <1>9, Zenon DEF IInv, RecoveryInv
  <2>2. CASE Halt
    BY <1>2, <1>9, <2>2, HaltInv, Zenon DEF IInv, TypeOK, history, anchorStore
  <2>3. CASE ~reopening /\ ~Halt
    <3>0. /\ recoveryRequired' /\ pc' = "idle" /\ work' = 0 /\ todo' = {}
          /\ UNCHANGED <<height, econ, reopening>>
      BY <1>9, <2>1, <2>3, Zenon DEF Return
    <3>1. /\ pc' = "idle" /\ recoveryRequired' /\ ~reopening'
          /\ work' = 0 /\ todo' = {} /\ height' = height /\ econ' = econ
      BY <2>3, <3>0, Zenon
    <3> USE <1>9 DEF disk
    <3>2. TypeOK'
      BY <1>2, <1>4, <3>1 DEF IInv, TypeOK
    <3>3. AtBoundary' /\ SomePrefix'
      BY <1>1, <1>2, <1>3, <3>1, Zenon DEF IInv, AtBoundary, SomePrefix, Expected
    <3>4. CommitInv' /\ RecoveryInv' /\ RestInv'
      BY <3>1, Zenon DEF CommitInv, RecoveryInv, RestInv, Available
    <3>5. FileInv' /\ HistInv'
      BY <1>1, <1>2, <1>3, <3>1, Zenon DEF IInv, FileInv, HistInv
    <3> QED
      BY <1>3, <3>2, <3>3, <3>4, <3>5, Zenon DEF IInv
  <2> QED
    BY <1>9, <2>2, <2>3, Zenon DEF Return
<1> QED
  BY <1>5, <1>7, <1>8, <1>9, Zenon DEF RecoverShard

\* The end of the journal recovery preserves the invariant.
LEMMA FinishRecoveryInv ==
    ASSUME IInv, FinishRecovery
    PROVE  IInv'
<1> USE ConstantsAssumption DEF ConstantsAssumption
<1>1. /\ pc = "recover" /\ todo = {}
      /\ block' = block /\ mem' = mem /\ dur' = dur /\ file' = file
      /\ hist' = hist /\ histFile' = histFile /\ histPoisoned' = histPoisoned
      /\ anchor' = anchor /\ anchorFile' = anchorFile /\ anchorPoisoned' = anchorPoisoned
  BY Zenon DEF FinishRecovery, disk, history, anchorStore
<1>2. /\ work = journal.h /\ work > 0
      /\ \A s \in Shards : mem[s] = Expected(s, work)
  BY <1>1, Zenon DEF IInv, RecoveryInv
<1>3. journal.status \in {"preparing", "committed"} /\ work \in 0 .. MaxHeight
  BY <1>2, Scalars DEF IInv, JournalInv
<1>4. \A s \in Shards : ~InProcess => dur[s] = Expected(s, work)
  BY <1>1, <1>2, Zenon DEF IInv, AtBoundary
<1>5. History => hist = journal.h
  BY <1>1, Zenon DEF IInv, HistInv
<1>6. journal.h - 1 <= served /\ served <= work /\ anchor <= Settled
  BY <1>2, Scalars DEF IInv, HighWaterInv
<1>7. journal' \in {journal, Record(work, "committed")}
  BY Zenon DEF FinishRecovery
<1>8. journal'.h = work /\ journal'.status \in {"preparing", "committed"}
  BY <1>2, <1>3, <1>7 DEF Record
<1>9. journal' \in [h : 0 .. MaxHeight, status : {"none", "preparing", "committed"}]
  BY <1>3, <1>7 DEF Record, IInv, TypeOK
<1>10. JournalInv' /\ Settled' \in {work - 1, work} /\ anchor' <= Settled'
  BY <1>1, <1>2, <1>3, <1>6, <1>7, <1>8, Scalars DEF JournalInv, Settled, Record
<1>11. AtBoundary' /\ SomePrefix'
  <2>1. \A s \in Shards : Expected(s, journal.h)' = Expected(s, work)
    BY <1>1, <1>8, Zenon DEF Expected
  <2>2. AtBoundary'
    BY <1>1, <1>2, <1>4, <2>1, Zenon DEF AtBoundary
  <2>3. SomePrefix'
    BY <1>1, <1>2, <1>8, Zenon DEF IInv, SomePrefix, Expected
  <2> QED
    BY <2>2, <2>3, Zenon
<1>12. FileInv' /\ HistInv'
  <2>1. pc' # "down" => FileInv'
    BY <1>1, Zenon DEF IInv, FileInv
  <2>2. pc' = "down" => FileInv'
    BY <1>1, Zenon DEF IInv, FileInv
  <2>3. HistInv'
    BY <1>1, <1>2, <1>5, <1>8, Zenon DEF HistInv
  <2> QED
    BY <2>1, <2>2, <2>3, Zenon
<1>13. CASE /\ journal' = Record(work, "committed")
            /\ height' = work /\ econ' = work
            /\ recoveryRequired' = FALSE
            /\ pc' = IF reopening THEN "restored" ELSE "idle"
            /\ work' = 0 /\ todo' = {}
            /\ served' = IF reopening \/ served > height' THEN served ELSE height'
            /\ UNCHANGED <<reopening, faults>>
  <2>1. journal'.h = work /\ journal'.status = "committed" /\ Settled' = work
    BY <1>13, Zenon DEF Record, Settled
  <2>2. served' = IF reopening THEN served ELSE work
    BY <1>3, <1>6, <1>13, Scalars
  <2>3. served' \in 0 .. MaxHeight /\ work - 1 <= served' /\ served' <= work
    BY <1>2, <1>3, <1>6, <2>2, Scalars
  <2>4. \A s \in Shards : mem'[s] = Expected(s, height)'
    BY <1>1, <1>2, <1>13, Zenon DEF Expected
  <2>5. FlagsOK'
    BY <1>1, <1>13, Zenon DEF IInv, TypeOK, FlagsOK
  <2>6. TypeOK'
    <3>1. /\ TypeOK /\ dur \in [Shards -> States]
          /\ file \in [Shards -> {"clean", "torn", "corrupt"}]
          /\ anchorFile \in {"clean", "torn"} /\ faults \in 0 .. MaxFaults
      BY Zenon DEF IInv, TypeOK
    <3>2. /\ pc' \in {"idle", "restored"} /\ todo' \in SUBSET Shards
          /\ work' \in 0 .. MaxHeight /\ faults' = faults
          /\ height' \in 0 .. MaxHeight /\ econ' \in 0 .. MaxHeight
      BY <1>3, <1>13
    <3> QED
      BY <1>1, <1>9, <2>3, <2>5, <3>1, <3>2, Scalars, TypeStep, Zenon
  <2>7. CommitInv' /\ RecoveryInv'
    BY <1>13, <2>1, <2>4, Zenon DEF CommitInv, RecoveryInv
  <2>8. RestInv'
    BY <1>13, <2>1, <2>2, <2>4, Zenon DEF RestInv, Available
  <2>9. HighWaterInv'
    BY <1>10, <2>1, <2>3, Zenon DEF HighWaterInv
  <2> QED
    BY <1>10, <1>11, <1>12, <2>6, <2>7, <2>8, <2>9, Zenon DEF IInv
<1>14. CASE /\ journal.status = "preparing"
            /\ Fault
            /\ \/ Halt
               \/ /\ ~reopening
                  /\ pc' = "idle" /\ work' = 0 /\ todo' = {}
                  /\ recoveryRequired' = TRUE
                  /\ econ' = work
                  /\ UNCHANGED <<height, reopening>>
            /\ UNCHANGED served
  <2>1. /\ pc' \in {"down", "idle"} /\ (pc' = "idle" => recoveryRequired' = TRUE)
        /\ reopening' = FALSE /\ recoveryRequired' \in BOOLEAN
        /\ height' \in {0, height} /\ econ' \in {0, work}
        /\ (pc' = "down" => height' = 0 /\ econ' = 0)
        /\ work' = 0 /\ todo' = {} /\ served' = served
    <3>1. reopening \in BOOLEAN
      BY Zenon DEF IInv, TypeOK, FlagsOK
    <3> QED
      BY <1>14, <3>1, Zenon DEF Halt
  <2>2. faults' \in 0 .. MaxFaults
    BY <1>14 DEF Fault, IInv, TypeOK
  <2>3. FlagsOK'
    BY <1>1, <2>1, Zenon DEF IInv, TypeOK, FlagsOK
  <2>4. TypeOK'
    <3>1. /\ TypeOK /\ dur \in [Shards -> States]
          /\ file \in [Shards -> {"clean", "torn", "corrupt"}]
          /\ anchorFile \in {"clean", "torn"}
      BY Zenon DEF IInv, TypeOK
    <3>2. /\ pc' \in {"idle", "down"} /\ todo' \in SUBSET Shards
          /\ work' \in 0 .. MaxHeight
          /\ height' \in 0 .. MaxHeight /\ econ' \in 0 .. MaxHeight
      BY <1>3, <2>1, Scalars
    <3> QED
      BY <1>1, <1>9, <2>1, <2>2, <2>3, <3>1, <3>2, Scalars, TypeStep, Zenon
  <2>5. CommitInv' /\ RecoveryInv' /\ RestInv'
    BY <2>1, Zenon DEF CommitInv, RecoveryInv, RestInv, Available
  <2>6. served <= Settled'
    BY <1>2, <1>6, <1>10, <1>14, Scalars, Zenon DEF IInv, HighWaterInv, Settled
  <2>7. HighWaterInv'
    BY <1>2, <1>6, <1>8, <1>10, <2>1, <2>6, Zenon DEF HighWaterInv
  <2> QED
    BY <1>10, <1>11, <1>12, <2>4, <2>5, <2>7, Zenon DEF IInv
<1> QED
  BY <1>13, <1>14, Zenon DEF FinishRecovery

\* The anchor catch-up at the end of an open preserves the invariant.
LEMMA CatchUpAnchorInv ==
    ASSUME IInv, CatchUpAnchor
    PROVE  IInv'
<1> USE ConstantsAssumption DEF ConstantsAssumption
<1>1. /\ pc = "restored"
      /\ block' = block /\ mem' = mem /\ dur' = dur /\ file' = file
      /\ journal' = journal
      /\ hist' = hist /\ histFile' = histFile /\ histPoisoned' = histPoisoned
  BY Zenon DEF CatchUpAnchor, disk, history
<1>2. /\ reopening /\ ~recoveryRequired /\ height = journal.h /\ econ = journal.h
      /\ journal.status = "committed" /\ Settled = journal.h
      /\ \A s \in Shards : mem[s] = Expected(s, height)
  BY <1>1, Zenon DEF IInv, RecoveryInv, Settled
<1>3. journal.h - 1 <= served /\ served <= journal.h /\ anchor <= journal.h
  BY <1>2, Zenon DEF IInv, HighWaterInv
\* The catch-up succeeds, or the node is stopped.
<1>4. \/ /\ pc' = "idle" /\ reopening' = FALSE /\ recoveryRequired' = recoveryRequired
         /\ height' = height /\ econ' = econ
         /\ served' = (IF served > height THEN served ELSE height)
         /\ work' = work /\ todo' = todo /\ faults' = faults
      \/ /\ Halt /\ served' = served
         /\ faults' = faults \/ Fault
  BY <1>2, Zenon DEF CatchUpAnchor, Fails, Return
<1>5. /\ anchor' \in {anchor, height} /\ anchorFile' \in {anchorFile, "torn"}
      /\ anchorPoisoned' \in {anchorPoisoned, TRUE}
  BY Zenon DEF CatchUpAnchor, WriteAnchor, TearAnchor, anchorStore
<1>6. /\ pc' \in {"idle", "down"} /\ reopening' = FALSE
      /\ height' \in {0, height} /\ econ' \in {0, econ}
      /\ served' \in {served, height} /\ work' \in {0, work} /\ todo' \in {{}, todo}
      /\ recoveryRequired' = FALSE
  <2>1. recoveryRequired = FALSE
    BY <1>2, Zenon DEF IInv, TypeOK, FlagsOK
  <2> QED
    BY <1>4, <2>1, Zenon DEF Halt
<1>7. pc' = "idle" => height' = height /\ econ' = econ /\ served' = height
  BY <1>2, <1>3, <1>4, Scalars DEF Halt
<1>8. pc' = "down" => height' = 0 /\ econ' = 0
  BY <1>4, Zenon DEF Halt
<1>9. TypeOK'
  <2>1. /\ TypeOK /\ dur \in [Shards -> States] /\ todo \in SUBSET Shards
        /\ file \in [Shards -> {"clean", "torn", "corrupt"}]
        /\ journal \in [h : 0 .. MaxHeight, status : {"none", "preparing", "committed"}]
        /\ anchorFile \in {"clean", "torn"} /\ faults \in 0 .. MaxFaults
        /\ econ \in 0 .. MaxHeight
    BY Zenon DEF IInv, TypeOK
  <2>2. faults' \in 0 .. MaxFaults
    BY <1>4, <2>1 DEF Fault
  <2>3. FlagsOK'
    BY <1>1, <1>5, <1>6, Zenon DEF IInv, TypeOK, FlagsOK
  <2>4. /\ height' \in 0 .. MaxHeight /\ econ' \in 0 .. MaxHeight
        /\ served' \in 0 .. MaxHeight /\ work' \in 0 .. MaxHeight
        /\ anchor' \in 0 .. MaxHeight
    BY <1>5, <1>6, <2>1, Scalars
  <2>5. todo' \in SUBSET Shards /\ anchorFile' \in {"clean", "torn"}
    BY <1>5, <1>6, <2>1, Zenon
  <2> QED
    BY <1>1, <1>6, <2>1, <2>2, <2>3, <2>4, <2>5, TypeStep, Zenon
<1>10. JournalInv' /\ AtBoundary' /\ SomePrefix' /\ Settled' = Settled
  BY <1>1, Zenon DEF IInv, JournalInv, AtBoundary, SomePrefix, Settled, Expected
<1>11. CommitInv' /\ RecoveryInv'
  BY <1>6, Zenon DEF CommitInv, RecoveryInv
<1>12. RestInv'
  BY <1>1, <1>2, <1>6, <1>7, <1>8, Zenon DEF RestInv, Available, Expected
<1>13. FileInv'
  BY <1>1, <1>6, Zenon DEF IInv, FileInv
<1>14. HistInv'
  BY <1>1, <1>2, <1>6, <1>10, Zenon DEF IInv, HistInv, Expected
<1>15. HighWaterInv'
  BY <1>1, <1>2, <1>3, <1>5, <1>6, <1>10, Scalars DEF HighWaterInv
<1> QED
  BY <1>9, <1>10, <1>11, <1>12, <1>13, <1>14, <1>15, Zenon DEF IInv

\* Every step, also one that changes nothing, preserves the invariant.
LEMMA NextInv == IInv /\ [Next]_vars => IInv'
<1> SUFFICES ASSUME IInv, [Next]_vars PROVE IInv'
  BY Zenon
<1>1. CASE \E k \in Heights : WriteIntent(k)
  BY <1>1, WriteIntentInv, Zenon
<1>2. CASE AppendHistory
  BY <1>2, AppendHistoryInv, Zenon
<1>3. CASE \E s \in Shards : ApplyShard(s)
  BY <1>3, ApplyShardInv, Zenon
<1>4. CASE WriteCommitted
  BY <1>4, WriteCommittedInv, Zenon
<1>5. CASE AdvanceAnchor
  BY <1>5, AdvanceAnchorInv, Zenon
<1>6. CASE Crash
  <2>1. faults' \in 0 .. MaxFaults
    BY <1>6, ConstantsAssumption DEF ConstantsAssumption, IInv, TypeOK, Crash, Fault
  <2> QED
    BY <1>6, <2>1, HaltInv, Zenon DEF Crash
<1>7. CASE Close
  BY <1>7, HaltInv, Zenon DEF Close, IInv, TypeOK
<1>8. CASE OpenStores
  BY <1>8, OpenStoresInv, Zenon
<1>9. CASE ReplayHistory
  BY <1>9, ReplayHistoryInv, Zenon
<1>10. CASE RecoverInProcess
  BY <1>10, StartRecoveryInv, Zenon DEF RecoverInProcess
<1>11. CASE \E s \in Shards : RecoverShard(s)
  BY <1>11, RecoverShardInv, Zenon
<1>12. CASE FinishRecovery
  BY <1>12, FinishRecoveryInv, Zenon
<1>13. CASE CatchUpAnchor
  BY <1>13, CatchUpAnchorInv, Zenon
<1>14. CASE UNCHANGED vars
  <2> USE <1>14 DEF vars, control, disk, history, anchorStore
  <2>1. FlagsOK'
    BY Zenon DEF IInv, TypeOK, FlagsOK
  <2>2. TypeOK'
    BY <2>1, Zenon DEF IInv, TypeOK
  <2>3. JournalInv' /\ AtBoundary' /\ SomePrefix'
    BY Zenon DEF IInv, JournalInv, AtBoundary, SomePrefix, Settled, Expected
  <2>4. CommitInv' /\ RecoveryInv' /\ RestInv'
    BY Zenon DEF IInv, CommitInv, RecoveryInv, RestInv, Available, Expected
  <2>5. FileInv' /\ HistInv' /\ HighWaterInv'
    BY Zenon DEF IInv, FileInv, HistInv, HighWaterInv, Settled, Expected
  <2> QED
    BY <2>2, <2>3, <2>4, <2>5, Zenon DEF IInv
<1> QED
  BY <1>1, <1>2, <1>3, <1>4, <1>5, <1>6, <1>7, <1>8, <1>9, <1>10, <1>11, <1>12, <1>13, <1>14, Zenon
  DEF Next

\* The invariant holds in every reachable state.
THEOREM Invariance == Spec => []IInv
BY InitInv, NextInv, PTL DEF Spec

-----------------------------------------------------------------------------
(* The properties.                                                         *)

\* The variables keep their types for any number of shards and blocks.
THEOREM TypeCorrect == Spec => []TypeOK
<1>1. IInv => TypeOK
  BY Zenon DEF IInv
<1> QED
  BY <1>1, Invariance, PTL

\* A runtime that accepts calls has every shard, and its economics, at
\* exactly the block it reports, whatever failed before.
THEOREM AtomicStateHolds == Spec => []AtomicState
<1>1. IInv => AtomicState
  BY Zenon DEF IInv, TypeOK, RestInv, Available, AtBoundary, AtomicState, Settled
<1> QED
  BY <1>1, Invariance, PTL

\* No delta is ever applied twice to a shard, in memory or in its log.
THEOREM AppliedOnceHolds == Spec => []AppliedOnce
<1>1. IInv => AppliedOnce
  <2>1. ASSUME NEW s, NEW h, NEW k \in Heights PROVE Expected(s, h)[k] <= 1
    BY DEF Expected, PrefixState
  <2>2. ASSUME IInv, NEW s \in Shards, NEW k \in Heights
        PROVE  mem[s][k] <= 1 /\ dur[s][k] <= 1
    BY <2>1, <2>2 DEF IInv, SomePrefix
  <2> QED
    BY <2>2, Zenon DEF AppliedOnce
<1> QED
  BY <1>1, Invariance, PTL

\* No shard has a block that the certified history lacks.
THEOREM HistoryBeforeStateHolds == Spec => []HistoryBeforeState
<1>1. IInv => HistoryBeforeState
  <2> SUFFICES ASSUME IInv, History, NEW s \in Shards, NEW k \in Heights, dur[s][k] > 0
               PROVE  k <= hist
    BY Zenon DEF HistoryBeforeState
  <2>1. ASSUME NEW h, Expected(s, h)[k] > 0 PROVE k <= h
    <3>1. Expected(s, h)[k] = IF k <= h /\ s \in block[k] THEN 1 ELSE 0
      BY Zenon DEF Expected, PrefixState
    <3>2. ~(k <= h) => Expected(s, h)[k] = 0
      BY <3>1, Zenon
    <3>3. ~(Expected(s, h)[k] = 0)
      BY <2>1
    <3> QED
      BY <3>2, <3>3, Zenon
  <2>2. dur[s] \in {Expected(s, Settled), Expected(s, journal.h)}
    BY ConstantsAssumption, Zenon DEF ConstantsAssumption, IInv, AtBoundary, FileInv
  <2>3. hist = journal.h \/ (hist = Settled /\ dur[s] = Expected(s, Settled))
    BY Zenon DEF IInv, HistInv
  <2>4. Settled <= journal.h /\ Settled \in Int /\ journal.h \in Int /\ k \in Int
    BY DEF IInv, TypeOK, Settled, Heights
  <2> QED
    BY <2>1, <2>2, <2>3, <2>4
<1> QED
  BY <1>1, Invariance, PTL

\* Without retries in the same process the log of every shard has the settled
\* blocks, each once.
LEMMA SettledIsLogged ==
    ASSUME IInv, ~InProcess, NEW s \in Shards, NEW k \in 1 .. Settled, s \in block[k]
    PROVE  dur[s][k] = 1
<1>1. dur[s] \in {Expected(s, Settled), Expected(s, journal.h)}
  BY Zenon DEF IInv, AtBoundary, FileInv
<1>2. k \in Heights /\ k <= Settled /\ k <= journal.h
  BY ConstantsAssumption DEF ConstantsAssumption, IInv, TypeOK, Settled, Heights
<1>3. \A h : k <= h => Expected(s, h)[k] = 1
  BY <1>2, Zenon DEF Expected, PrefixState
<1> QED
  BY <1>1, <1>2, <1>3, Zenon

\* What the node showed as final stays in readable logs, if it recovers by
\* restarting.
THEOREM DurabilityHolds == Spec => [](~InProcess => ServedIsDurable)
<1>1. IInv => (~InProcess => ServedIsDurable)
  <2> SUFFICES ASSUME IInv, ~InProcess PROVE ServedIsDurable
    BY Zenon
  <2>1. \A s \in Shards : file[s] # "corrupt"
    BY Zenon DEF IInv, FileInv
  <2>2. \A k \in 1 .. served : k \in 1 .. Settled
    BY DEF IInv, TypeOK, HighWaterInv, Settled
  <2> QED
    BY <2>1, <2>2, SettledIsLogged, Zenon DEF ServedIsDurable
<1> QED
  BY <1>1, Invariance, PTL

\* The external anchor is written last: every height it holds is in the
\* certified history and in the logs of all the shards, whatever failed.
THEOREM AnchorBehindStateHolds == Spec => []AnchorBehindState
<1>1. IInv => AnchorBehindState
  <2> SUFFICES ASSUME IInv, Anchor PROVE AnchorBehindState
    BY Zenon DEF AnchorBehindState
  <2>1. ~InProcess /\ History
    BY ConstantsAssumption, Zenon DEF ConstantsAssumption
  <2>2. anchor <= hist
    BY <2>1 DEF IInv, TypeOK, HistInv, HighWaterInv, Settled
  <2>3. \A k \in 1 .. anchor : k \in 1 .. Settled /\ k \in Heights
    BY ConstantsAssumption DEF ConstantsAssumption, IInv, TypeOK, HighWaterInv, Settled, Heights
  <2>4. \A k \in Heights : block[k] \subseteq Shards
    BY Zenon DEF IInv, TypeOK
  <2> QED
    BY <2>1, <2>2, <2>3, <2>4, SettledIsLogged, Zenon DEF AnchorBehindState
<1> QED
  BY <1>1, Invariance, PTL

\* A runtime that accepts calls is never behind what it showed before.
THEOREM NoRollbackHolds == Spec => []NoRollback
<1>1. IInv => NoRollback
  BY DEF IInv, TypeOK, RestInv, NoRollback
<1> QED
  BY <1>1, Invariance, PTL

-----------------------------------------------------------------------------
(* A node that nothing has failed yet.                                     *)

\* While nothing has failed, no file has a damaged end, no store refuses
\* writes, and the history ends with the block of the journal, except while
\* Commit is about to append it or when the history is full.
CleanInv ==
    faults = 0 =>
        /\ \A s \in Shards : file[s] = "clean"
        /\ histFile = "clean" /\ anchorFile = "clean" /\ ~histPoisoned
        /\ History /\ hist # journal.h => pc = "history" \/ journal.h > HistoryLimit
        /\ pc = "history" => hist = work - 1

\* A step that counts no failure and leaves the ends of the files, and either
\* both the history and the journal's height or the call to Commit, as they
\* were, keeps CleanInv.
LEMMA CleanStep ==
    ASSUME CleanInv, faults' = 0 => faults = 0,
           faults' = 0 =>
             /\ UNCHANGED <<hist, histFile, anchorFile>>
             /\ histPoisoned' => histPoisoned
             /\ \A s \in Shards : file[s] = "clean" => file'[s] = "clean"
             /\ journal'.h = journal.h
             /\ pc # "history" /\ pc' # "history"
    PROVE  CleanInv'
BY Zenon DEF CleanInv

\* Every step keeps CleanInv: a failure is counted, and Commit finds the
\* history right before its block.
LEMMA CleanNext == IInv /\ CleanInv /\ [Next]_vars => CleanInv'
<1> SUFFICES ASSUME IInv, CleanInv, [Next]_vars PROVE CleanInv'
  BY Zenon
<1> USE DEF disk, history, anchorStore
<1>0. faults \in Nat /\ journal.h \in Nat /\ hist \in Nat /\ work \in Nat /\ HistoryLimit \in Nat
  BY ConstantsAssumption, Scalars DEF ConstantsAssumption, IInv, TypeOK
<1>1. CASE \E k \in Heights : WriteIntent(k)
  <2> PICK k \in Heights : WriteIntent(k)
    BY <1>1, Zenon
  <2>1. /\ k = journal.h + 1 /\ Settled = journal.h
    BY Zenon DEF WriteIntent, IInv, RestInv, Available, Settled
  <2>2. /\ pc = "idle" /\ UNCHANGED <<file, hist, histFile, anchorFile, histPoisoned>>
    BY Zenon DEF WriteIntent
  <2>3. \/ /\ journal' = Record(k, "preparing") /\ work' = k /\ faults' = faults
           /\ pc' = IF History THEN "history" ELSE "apply"
        \/ faults' = faults + 1
    BY Zenon DEF WriteIntent, Fails, Fault
  <2>4. History => hist = journal.h
    BY <2>1, Zenon DEF IInv, HistInv
  <2> QED
    BY <1>0, <2>1, <2>2, <2>3, <2>4 DEF CleanInv, Record
<1>2. CASE AppendHistory
  <2>1. /\ pc = "history" /\ journal' = journal /\ work = journal.h /\ History
        /\ UNCHANGED <<file, anchorFile>>
    BY <1>2, Zenon DEF AppendHistory, IInv, CommitInv
  <2>2. CASE HistoryReady(work) /\ WriteHistory /\ pc' = "apply" /\ faults' = faults
    BY <1>0, <2>1, <2>2 DEF CleanInv, HistoryReady, WriteHistory
  <2>3. CASE Fault
    BY <1>0, <2>3 DEF CleanInv, Fault
  <2>4. CASE ~HistoryReady(work) /\ Return(TRUE) /\ UNCHANGED <<hist, histFile, histPoisoned, faults>>
    <3>1. pc' # "history"
      BY <2>4, Zenon DEF Return, Halt
    <3>2. faults = 0 => journal.h > HistoryLimit
      BY <1>0, <2>1, <2>4 DEF CleanInv, HistoryReady
    <3> QED
      BY <2>1, <2>4, <3>1, <3>2, Zenon DEF CleanInv
  <2> QED
    BY <1>2, <2>2, <2>3, <2>4, Zenon DEF AppendHistory, Fails
<1>3. CASE \E s \in Shards : ApplyShard(s)
  <2> PICK s \in Shards : ApplyShard(s)
    BY <1>3, Zenon
  <2>1. /\ pc = "apply" /\ journal' = journal
        /\ UNCHANGED <<hist, histFile, anchorFile, histPoisoned>>
    BY Zenon DEF ApplyShard
  <2>2. CASE Fault
    BY <1>0, <2>2 DEF CleanInv, Fault
  <2>3. CASE WriteWAL(s, work) /\ pc' # "history" /\ faults' = faults
    <3>1. faults = 0 => file' = file
      BY <2>3, Zenon DEF CleanInv, WriteWAL
    <3> QED
      BY <2>1, <2>3, <3>1, CleanStep, Zenon
  <2> QED
    BY <2>1, <2>2, <2>3, Zenon DEF ApplyShard, Fails, Return, Halt
<1>4. CASE WriteCommitted
  <2>1. CASE Fault
    BY <1>0, <2>1 DEF CleanInv, Fault
  <2>2. CASE journal' = Record(work, "committed") /\ pc' = "anchor" /\ faults' = faults
    BY <1>4, <2>2, CleanStep, Zenon DEF WriteCommitted, IInv, CommitInv, Record
  <2> QED
    BY <1>4, <2>1, <2>2, Zenon DEF WriteCommitted, Fails
<1>5. CASE AdvanceAnchor
  <2>1. CASE Fault
    BY <1>0, <2>1 DEF CleanInv, Fault
  <2>2. CASE pc' # "history" /\ faults' = faults /\ UNCHANGED anchorFile
    BY <1>5, <2>2, CleanStep, Zenon DEF AdvanceAnchor
  <2> QED
    BY <1>5, <2>1, <2>2, Zenon DEF AdvanceAnchor, Fails, Return, Halt, WriteAnchor
<1>6. CASE Crash
  BY <1>0, <1>6 DEF Crash, Fault, CleanInv
<1>7. CASE Close
  BY <1>7, CleanStep, Zenon DEF Close, Halt
<1>8. CASE OpenStores
  BY <1>8, CleanStep, Zenon DEF OpenStores
<1>9. CASE ReplayHistory
  BY <1>9, CleanStep, Zenon DEF ReplayHistory, StartRecovery, Return, Halt
<1>10. CASE RecoverInProcess
  BY <1>10, CleanStep, Zenon DEF RecoverInProcess, StartRecovery
<1>11. CASE \E s \in Shards : RecoverShard(s)
  <2> PICK s \in Shards : RecoverShard(s)
    BY <1>11, Zenon
  <2>1. /\ pc = "recover" /\ journal' = journal
        /\ UNCHANGED <<hist, histFile, anchorFile, histPoisoned>>
    BY Zenon DEF RecoverShard
  <2>2. CASE Fault
    BY <1>0, <2>2 DEF CleanInv, Fault
  <2>3. CASE (WriteWAL(s, work) \/ UNCHANGED file) /\ pc' # "history" /\ faults' = faults
    <3>1. faults = 0 => file' = file
      BY <2>3, Zenon DEF CleanInv, WriteWAL
    <3> QED
      BY <2>1, <2>3, <3>1, CleanStep, Zenon
  <2> QED
    BY <2>1, <2>2, <2>3, Zenon DEF RecoverShard, Fails, Return, Halt
<1>12. CASE FinishRecovery
  <2>1. CASE Fault
    BY <1>0, <2>1 DEF CleanInv, Fault
  <2>2. CASE journal' = Record(work, "committed") /\ pc' # "history" /\ faults' = faults
    BY <1>12, <2>2, CleanStep, Zenon DEF FinishRecovery, IInv, RecoveryInv, Record
  <2> QED
    BY <1>12, <2>1, <2>2, Zenon DEF FinishRecovery
<1>13. CASE CatchUpAnchor
  <2>1. CASE Fault
    BY <1>0, <2>1 DEF CleanInv, Fault
  <2>2. CASE pc' # "history" /\ faults' = faults /\ UNCHANGED anchorFile
    BY <1>13, <2>2, CleanStep, Zenon DEF CatchUpAnchor
  <2> QED
    BY <1>13, <2>1, <2>2, Zenon DEF CatchUpAnchor, Fails, Return, Halt, WriteAnchor
<1>14. CASE UNCHANGED vars
  BY <1>14, Zenon DEF vars, control, CleanInv
<1> QED
  BY <1>1, <1>2, <1>3, <1>4, <1>5, <1>6, <1>7, <1>8, <1>9, <1>10, <1>11, <1>12, <1>13, <1>14, Zenon
  DEF Next

\* A node that served a block and stopped without a failure can be opened
\* again, as long as no block was attempted beyond the records the certified
\* history may hold; MaxCertifiedHistoryRecords is the only obstacle.
THEOREM CleanStopReopensHolds == Spec => [](journal.h <= HistoryLimit => CleanStopReopens)
<1>1. Init => CleanInv
  BY DEF Init, CleanInv, NoJournal, Record
<1>2. IInv /\ CleanInv => (journal.h <= HistoryLimit => CleanStopReopens)
  <2> SUFFICES ASSUME IInv, CleanInv, journal.h <= HistoryLimit, pc = "down", faults = 0,
                      served > 0
               PROVE  Openable
    BY Zenon DEF CleanStopReopens
  <2>1. /\ journal.h \in Nat /\ hist \in Nat /\ HistoryLimit \in Nat /\ anchor \in Nat
        /\ served \in Nat /\ Settled \in {journal.h - 1, journal.h}
    BY ConstantsAssumption, Scalars DEF ConstantsAssumption
  <2>2. served <= Settled /\ anchor <= Settled
    BY Zenon DEF IInv, HighWaterInv
  <2>3. History => hist = journal.h
    BY <2>1 DEF CleanInv
  <2> QED
    BY <2>1, <2>2, <2>3 DEF CleanInv, Openable, HistoryAccepts
<1> QED
  BY <1>1, <1>2, CleanNext, Invariance, PTL DEF Spec

-----------------------------------------------------------------------------
(* The runtime implements AtomicCommit.                                    *)

\* A step that starts while the runtime is not available keeps the height of
\* the journal, and shows a new height only by making the runtime available.
LEMMA HiddenStep ==
    ASSUME IInv, Next, ~Available
    PROVE  /\ UNCHANGED block
           /\ journal'.h = journal.h
           /\ ~Available' => served' = served
<1> USE DEF Available, Record, history, anchorStore, disk
<1>1. CASE \E k \in Heights : WriteIntent(k)
  BY <1>1, Zenon DEF WriteIntent
<1>2. CASE AppendHistory
  BY <1>2, Zenon DEF AppendHistory
<1>3. CASE \E s \in Shards : ApplyShard(s)
  BY <1>3, Zenon DEF ApplyShard
<1>4. CASE WriteCommitted
  <2>1. work = journal.h
    BY <1>4, Zenon DEF WriteCommitted, IInv, CommitInv
  <2>2. journal' \in {journal, Record(work, "committed")} /\ UNCHANGED <<block, served>>
    BY <1>4, Zenon DEF WriteCommitted
  <2> QED
    BY <2>1, <2>2
<1>5. CASE AdvanceAnchor
  <2>1. ~recoveryRequired
    BY <1>5, Zenon DEF AdvanceAnchor, IInv, CommitInv
  <2>2. UNCHANGED <<block, journal>>
    BY <1>5, Zenon DEF AdvanceAnchor
  <2>3. Available' \/ UNCHANGED served
    BY <1>5, <2>1, Zenon DEF AdvanceAnchor
  <2> QED
    BY <2>2, <2>3, Zenon
<1>6. CASE Crash \/ Close
  BY <1>6, Zenon DEF Crash, Close
<1>7. CASE OpenStores \/ ReplayHistory \/ RecoverInProcess
  BY <1>7, Zenon DEF OpenStores, ReplayHistory, RecoverInProcess
<1>8. CASE \E s \in Shards : RecoverShard(s)
  BY <1>8, Zenon DEF RecoverShard
<1>9. CASE FinishRecovery
  <2>1. work = journal.h
    BY <1>9, Zenon DEF FinishRecovery, IInv, RecoveryInv
  <2>2. journal' \in {journal, Record(work, "committed")} /\ block' = block
    BY <1>9, Zenon DEF FinishRecovery
  <2>3. CASE ~reopening /\ pc' = "idle" /\ recoveryRequired' = FALSE
    BY <2>1, <2>2, <2>3
  <2>4. CASE served' = served
    BY <2>1, <2>2, <2>4
  <2> QED
    BY <1>9, <2>3, <2>4, Zenon DEF FinishRecovery
<1>10. CASE CatchUpAnchor
  <2>1. ~recoveryRequired
    BY <1>10, Zenon DEF CatchUpAnchor, IInv, RecoveryInv
  <2>2. UNCHANGED <<block, journal>>
    BY <1>10, Zenon DEF CatchUpAnchor
  <2>3. Available' \/ UNCHANGED served
    BY <1>10, <2>1, Zenon DEF CatchUpAnchor
  <2> QED
    BY <2>2, <2>3, Zenon
<1> QED
  BY <1>1, <1>2, <1>3, <1>4, <1>5, <1>6, <1>7, <1>8, <1>9, <1>10, Zenon DEF Next

\* A step that starts while the runtime is available makes it unavailable.
LEMMA VisibleStep ==
    ASSUME IInv, Next, Available
    PROVE  ~Available' /\ UNCHANGED <<block, served>>
<1> USE DEF Available
<1>1. CASE \E k \in Heights : WriteIntent(k)
  BY <1>1, Zenon DEF WriteIntent, Fails, Fault, Return, Halt
<1>2. CASE Crash \/ Close
  BY <1>2, Zenon DEF Crash, Close, Halt
<1>3. CASE RecoverInProcess
  BY <1>3, Zenon DEF RecoverInProcess, StartRecovery
<1> QED
  BY <1>1, <1>2, <1>3, Zenon DEF Next, AppendHistory, ApplyShard, WriteCommitted, AdvanceAnchor,
     OpenStores, ReplayHistory, RecoverShard, FinishRecovery, CatchUpAnchor

\* The state of all the shards after h blocks, as the abstract specification
\* writes it.
LEMMA AbstractPrefix ==
    \A h : Abstract!Prefix(h) = [s \in Shards |-> Expected(s, h)]
BY Zenon DEF Abstract!Prefix, Expected, PrefixState

\* A new node is an initial state of AtomicCommit.
LEMMA RefinesInit == Init => Abstract!AInit
<1> SUFFICES ASSUME Init PROVE Abstract!AInit
  BY Zenon
<1>1. Available /\ height = 0 /\ block \in [Heights -> SUBSET Shards]
  BY Zenon DEF Init, Available
<1>2. mem = [s \in Shards |-> Expected(s, 0)]
  BY PrefixGenesis, Zenon DEF Init, Expected
<1> QED
  BY <1>1, <1>2, AbstractPrefix, Zenon DEF Abstract!AInit

\* Every step of the node is a step of AtomicCommit or changes nothing there.
LEMMA RefinesNext ==
    IInv /\ IInv' /\ [Next]_vars => [Abstract!ANext]_(Abstract!avars)
<1> SUFFICES ASSUME IInv, IInv', [Next]_vars
             PROVE  [Abstract!ANext]_(Abstract!avars)
  BY Zenon
<1>1. Available => /\ mem = [s \in Shards |-> Expected(s, height)]
                   /\ height = served /\ served = journal.h
  <2>1. Available => /\ \A s \in Shards : mem[s] = Expected(s, height)
                     /\ height = served /\ served = journal.h
    BY Zenon DEF IInv, RestInv
  <2>2. mem \in [Shards -> States]
    BY Zenon DEF IInv, TypeOK
  <2> QED
    BY <2>1, <2>2, Zenon
<1>2. Available' => /\ mem' = [s \in Shards |-> Expected(s, height)']
                    /\ height' = served' /\ served' = journal'.h
  <2>1. Available' => /\ \A s \in Shards : mem'[s] = Expected(s, height)'
                      /\ height' = served' /\ served' = journal'.h
    BY Zenon DEF IInv, RestInv
  <2>2. mem' \in [Shards -> States]
    BY Zenon DEF IInv, TypeOK
  <2> QED
    BY <2>1, <2>2, Zenon
<1>3. CASE UNCHANGED vars
  BY <1>3, Zenon DEF Abstract!avars, vars, control, disk, Available, Expected
<1>4. CASE Next /\ Available
  <2>1. ~Available' /\ UNCHANGED <<block, served>>
    BY <1>4, VisibleStep, Zenon
  <2>2. [s \in Shards |-> Expected(s, served)'] = mem
    BY <2>1, <1>1, <1>4, Zenon DEF Expected
  <2> QED
    BY <2>1, <2>2, <1>1, <1>4 DEF Abstract!ANext, Abstract!Suspend
<1>5. CASE Next /\ ~Available /\ ~Available'
  <2>1. UNCHANGED <<block, served>>
    BY <1>5, HiddenStep, Zenon
  <2>2. UNCHANGED (IF Available THEN height ELSE served)
    BY <2>1, <1>5, Zenon
  <2>3. UNCHANGED (IF Available THEN mem ELSE [s \in Shards |-> Expected(s, served)])
    BY <2>1, <1>5, Zenon DEF Expected
  <2>4. UNCHANGED Available
    BY <1>5, Zenon DEF Available
  <2> QED
    BY <2>1, <2>2, <2>3, <2>4, Zenon DEF Abstract!avars
<1>6. CASE Next /\ ~Available /\ Available'
  <2>1. UNCHANGED block /\ journal'.h = journal.h
    BY <1>6, HiddenStep, Zenon
  <2>2. height' \in {served, served + 1}
    <3>1. height' = journal.h
      BY <2>1, <1>2, <1>6, Zenon
    <3>2. journal.h - 1 <= served /\ served <= Settled
      BY Zenon DEF IInv, HighWaterInv
    <3> QED
      BY <3>1, <3>2, Scalars
  <2>3. mem' = Abstract!Prefix(height')
    BY <2>1, <1>2, <1>6, Zenon DEF Abstract!Prefix, Expected, PrefixState
  <2>4. (IF Available THEN height ELSE served)' = height'
    BY <1>6, Zenon
  <2>5. (IF Available THEN mem ELSE [s \in Shards |-> Expected(s, served)])' = mem'
    BY <1>6, Zenon
  <2>6. (IF Available THEN height ELSE served) = served
    BY <1>6, Zenon
  <2>7. Available' = TRUE
    BY <1>6, Zenon DEF Available
  <2> QED
    BY <2>1, <2>2, <2>3, <2>4, <2>5, <2>6, <2>7, <1>6, Zenon DEF Abstract!ANext, Abstract!Resume
<1> QED
  BY <1>3, <1>4, <1>5, <1>6, Zenon

\* Through every failure, retry and restart, Commit and the recovery move the
\* node only as module AtomicCommit allows, for any number of shards.
THEOREM Refinement == Spec => AtomicCommitSpec
<1>1. IInv /\ IInv' /\ [Next]_vars => [Abstract!ANext]_(Abstract!avars)
  BY RefinesNext, Zenon
<1> QED
  BY <1>1, RefinesInit, Invariance, PTL DEF Spec, AtomicCommitSpec, Abstract!ASpec
=============================================================================
