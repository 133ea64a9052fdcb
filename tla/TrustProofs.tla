---------------------------- MODULE TrustProofs ----------------------------
(***************************************************************************)
(* Theorems about the parties who do not run the chain themselves: the     *)
(* witnesses that sign checkpoints, the floor an observer takes from them, *)
(* the followers of validator checkpoints and the Citizen's device.  Each  *)
(* part is about one module and uses none of the others.                   *)
(***************************************************************************)
EXTENDS WitnessSigning, WitnessFloor, ValidatorRotation, CitizenDevice,
        FiniteSetTheorems, TLAPS

-----------------------------------------------------------------------------
(* Module WitnessSigning.                                                  *)
(* Two bundles never name different headers of one height, for any number  *)
(* of witnesses, checkpoints, failed writes and deployments, while fewer   *)
(* journals are restored than two bundles have signers in common.          *)

Checkpoint == [height : Nat, hash : {cp.hash : cp \in Checkpoints} \cup {"none"}]
File == [records : Seq(Checkpoint), torn : BOOLEAN]
Store == [tip : Checkpoint, count : Nat, poisoned : BOOLEAN]
Process == [up : {TRUE}, certified : Checkpoint, store : Store,
            task : {"idle", "granted"} \cup UNION {d.guards : d \in Deployments}]

(* The records of a journal, and that they climb.                          *)
Recorded(w) == {intents[w].records[i] : i \in 1..Len(intents[w].records)}

Climbing(records) ==
    \A i, j \in 1..Len(records) : i < j => records[i].height < records[j].height

TypeInv ==
    /\ intents \in [Witnesses -> {NoAnchor} \cup File]
    /\ witness \in [Witnesses -> {Down} \cup Process]
    /\ signed \in [Witnesses -> SUBSET Checkpoint]
    /\ bundles \subseteq Checkpoint
    /\ deployment \in Deployments
    /\ mishaps \in [writes : {mishaps.writes}, restored : SUBSET Witnesses]
    /\ Cardinality(mishaps.restored) < 2 * threshold - Cardinality(Witnesses)

(* A store that is open and not poisoned knows the last record of its      *)
(* file, and only what is recorded goes on to be signed.                   *)
JournalInv(w) ==
    /\ intents[w] # NoAnchor => Climbing(intents[w].records)
    /\ witness[w].up =>
         /\ intents[w] \in File
         /\ Climbing(intents[w].records)
         /\ ~witness[w].store.poisoned =>
              witness[w].store.tip =
                (IF intents[w].records = <<>> THEN NoCheckpoint
                 ELSE intents[w].records[Len(intents[w].records)])
         /\ witness[w].task # "idle" => witness[w].certified \in Recorded(w)
    /\ w \notin mishaps.restored =>
         /\ signed[w] # {} => intents[w] # NoAnchor
         /\ signed[w] \subseteq Recorded(w)

(* A bundle was signed by a threshold of witnesses.                        *)
Backed(cp) ==
    \E Q \in SUBSET Witnesses :
       Cardinality(Q) >= threshold /\ \A w \in Q : cp \in signed[w]

SigningInv ==
    /\ TypeInv
    /\ \A w \in Witnesses : JournalInv(w)
    /\ \A cp \in bundles : Backed(cp)

-----------------------------------------------------------------------------
(* Counting.                                                               *)

\* Two thresholds together exceed the committee, so two bundles share a witness.
LEMMA ThresholdBounds ==
    /\ Cardinality(Witnesses) \in Nat
    /\ threshold \in Nat
    /\ 2 * threshold - Cardinality(Witnesses) > 0
<1> DEFINE n == Cardinality(Witnesses)
<1>1. n \in Nat
  BY WitnessAssumption, FS_CardinalityType, Zenon DEF WitnessAssumption
<1> HIDE DEF n
<1>2. (2 * n) \div 3 + 1 \in Nat /\ 2 * ((2 * n) \div 3 + 1) - n > 0
  BY <1>1, SMT
<1> QED
  BY <1>1, <1>2, Zenon DEF threshold, n

(* Two sets of signers share one whose journal was never restored.         *)
LEMMA CommonSigner ==
    ASSUME NEW P \in SUBSET Witnesses, NEW Q \in SUBSET Witnesses, NEW R \in SUBSET Witnesses,
           Cardinality(P) >= threshold, Cardinality(Q) >= threshold,
           Cardinality(R) < 2 * threshold - Cardinality(Witnesses)
    PROVE  \E w \in P \cap Q : w \notin R
<1>1. IsFiniteSet(Witnesses)
  BY WitnessAssumption, Zenon DEF WitnessAssumption
<1>2. /\ IsFiniteSet(P) /\ IsFiniteSet(Q) /\ IsFiniteSet(R)
      /\ IsFiniteSet(P \cup Q) /\ IsFiniteSet(P \cap Q)
  BY <1>1, FS_Subset, Zenon
<1>3. /\ Cardinality(P) \in Nat /\ Cardinality(Q) \in Nat /\ Cardinality(R) \in Nat
      /\ Cardinality(P \cap Q) \in Nat
  BY <1>2, FS_CardinalityType, Zenon
<1>4. Cardinality(P \cup Q) = Cardinality(P) + Cardinality(Q) - Cardinality(P \cap Q)
  BY <1>2, FS_Union, Zenon
<1>5. Cardinality(P \cup Q) <= Cardinality(Witnesses)
  <2>1. P \cup Q \subseteq Witnesses
    BY Zenon
  <2> QED
    BY <1>1, <2>1, FS_Subset, Zenon
<1>6. Cardinality(R) < Cardinality(P \cap Q)
  BY <1>3, <1>4, <1>5, ThresholdBounds, SMT
<1>7. ASSUME P \cap Q \subseteq R
      PROVE  FALSE
  <2>1. Cardinality(P \cap Q) <= Cardinality(R)
    BY <1>2, <1>7, FS_Subset, Zenon
  <2> QED
    BY <1>3, <1>6, <2>1, SMT
<1> QED
  BY <1>7, Zenon

\* The value that stands for a missing anchor is not a file's contents.
LEMMA NoAnchorIsNoFile == NoAnchor \notin File
<1>1. DOMAIN NoAnchor = {"absent"}
  BY Zenon DEF NoAnchor
<1>2. \A f \in File : DOMAIN f = {"records", "torn"}
  BY Zenon DEF File
<1> QED
  BY <1>1, <1>2, "absent" # "records", Zenon

-----------------------------------------------------------------------------
(* One write to a journal.                                                 *)

(* What advance may do to an open, healthy journal: nothing, poison the    *)
(* store, or append a higher record; and when it succeeds the checkpoint   *)
(* is the last record.                                                     *)
LEMMA AdvanceKeeps ==
    ASSUME NEW store \in Store, NEW file \in File, NEW cp \in Checkpoint,
           Climbing(file.records),
           ~store.poisoned =>
              store.tip = (IF file.records = <<>> THEN NoCheckpoint
                           ELSE file.records[Len(file.records)]),
           NEW result \in advance(store, file, cp)
    PROVE  /\ result.store \in Store
           /\ result.file \in File
           /\ Climbing(result.file.records)
           /\ ~result.store.poisoned =>
                result.store.tip = (IF result.file.records = <<>> THEN NoCheckpoint
                                    ELSE result.file.records[Len(result.file.records)])
           /\ \A i \in 1..Len(file.records) :
                i \in 1..Len(result.file.records) /\ result.file.records[i] = file.records[i]
           /\ result.ok /\ result.store.tip = cp =>
                \E i \in 1..Len(result.file.records) : result.file.records[i] = cp
<1> DEFINE r == file.records
           n == Len(file.records)
           more == Append(file.records, cp)
<1>1. r \in Seq(Checkpoint) /\ n \in Nat
  BY DEF File
<1>2. /\ more \in Seq(Checkpoint) /\ Len(more) = n + 1 /\ more # <<>>
      /\ \A i \in 1..n : i \in 1..(n + 1) /\ more[i] = r[i]
      /\ more[n + 1] = cp /\ n + 1 \in 1..(n + 1)
  BY <1>1, SMT
<1>3. ASSUME ~store.poisoned, cp.height > store.tip.height
      PROVE  Climbing(more)
  <2>1. ASSUME NEW i \in 1..n
        PROVE  r[i].height < cp.height
    <3>1. r # <<>> /\ n \in 1..n /\ r[i] \in Checkpoint /\ r[n] \in Checkpoint
      BY <1>1, <2>1, SMT
    <3>2. store.tip = r[n]
      BY <1>3, <3>1, Zenon
    <3>3. i = n \/ r[i].height < r[n].height
      BY <1>1, <2>1, <3>1, SMT DEF Climbing
    <3> QED
      BY <1>3, <3>1, <3>2, <3>3, SMT DEF Checkpoint
  <2>2. ASSUME NEW i \in 1..(n + 1), NEW j \in 1..(n + 1), i < j
        PROVE  more[i].height < more[j].height
    <3>1. i \in 1..n
      BY <1>1, <2>2, SMT
    <3>2. CASE j = n + 1
      BY <1>2, <2>1, <3>1, <3>2, Zenon
    <3>3. CASE j \in 1..n
      BY <1>2, <2>2, <3>1, <3>3, Zenon DEF Climbing
    <3> QED
      BY <1>1, <3>2, <3>3, SMT
  <2> QED
    BY <1>2, <2>2, Zenon DEF Climbing
<1> DEFINE kept == [store |-> store, file |-> file, ok |-> FALSE]
           same == [store |-> store, file |-> file, ok |-> TRUE]
           bad == [store EXCEPT !.poisoned = TRUE]
           whole == [records |-> more, torn |-> FALSE]
           next == [store EXCEPT !.tip = cp, !.count = @ + 1]
           Writes == {[store |-> next, file |-> whole, ok |-> TRUE],
                      [store |-> bad, file |-> whole, ok |-> FALSE],
                      [store |-> bad, file |-> file, ok |-> FALSE],
                      [store |-> bad, file |-> [records |-> r, torn |-> TRUE], ok |-> FALSE]}
<1>4. \/ result = kept
      \/ result = same /\ ~Regresses(store, cp) /\ cp.height = store.tip.height
      \/ result \in Writes /\ ~Regresses(store, cp) /\ cp.height # store.tip.height
  BY Zenon DEF advance, AnchorFile
<1>5. CASE result = kept
  BY <1>1, <1>5, Zenon
<1>6. CASE result = same /\ ~Regresses(store, cp) /\ cp.height = store.tip.height
  <2>1. cp.height > 0 /\ ~store.poisoned
    BY <1>6, Zenon DEF Regresses, ValidCheckpoint
  <2>2. ASSUME store.tip = cp
        PROVE  \E i \in 1..n : r[i] = cp
    <3>1. r # <<>>
      BY <2>1, <2>2, SMT DEF NoCheckpoint, Checkpoint
    <3>2. n \in 1..n
      BY <1>1, <3>1, SMT
    <3> QED
      BY <2>1, <2>2, <3>1, <3>2, Zenon
  <2> QED
    BY <1>1, <1>6, <2>2, Zenon
<1>7. CASE result \in Writes /\ ~Regresses(store, cp) /\ cp.height # store.tip.height
  <2>1. ~store.poisoned /\ cp.height > store.tip.height
    BY <1>7, SMT DEF Regresses, Checkpoint, Store
  <2>2. Climbing(more)
    BY <1>3, <2>1, Zenon
  <2>3. /\ bad \in Store /\ bad.poisoned
        /\ next \in Store /\ next.tip = cp
        /\ whole \in File /\ whole.records = more
        /\ [records |-> r, torn |-> TRUE] \in File
    <3>1. bad \in Store /\ bad.poisoned
      BY Zenon DEF Store
    <3>2. next \in Store /\ next.tip = cp
      <4>1. store.count + 1 \in Nat
        BY SMT DEF Store
      <4>2. DOMAIN store = {"tip", "count", "poisoned"} /\ store.poisoned \in BOOLEAN
        BY Zenon DEF Store
      <4> DEFINE tipped == [store EXCEPT !.tip = cp]
      <4>3. tipped \in Store /\ tipped.tip = cp /\ tipped.count = store.count
        BY Zenon DEF Store
      <4>4. next = [tipped EXCEPT !.count = store.count + 1]
        BY Zenon
      <4> HIDE DEF tipped, next
      <4> QED
        BY <4>1, <4>3, <4>4, Zenon DEF Store
    <3>3. more \in Seq(Checkpoint)
      BY <1>2, Zenon
    <3> HIDE DEF more, Checkpoint
    <3>4. whole \in File /\ whole.records = more
      BY <3>3, Zenon DEF File
    <3>5. [records |-> r, torn |-> TRUE] \in File
      BY <1>1, Zenon DEF File
    <3> HIDE DEF bad, next, whole
    <3> QED
      BY <3>1, <3>2, <3>4, <3>5, Zenon
  <2> HIDE DEF more, bad, next, whole
  <2>4. CASE result = [store |-> next, file |-> whole, ok |-> TRUE]
    BY <1>2, <2>2, <2>3, <2>4, Zenon
  <2>5. CASE result = [store |-> bad, file |-> whole, ok |-> FALSE]
    BY <1>2, <2>2, <2>3, <2>5, Zenon
  <2>6. CASE result = [store |-> bad, file |-> file, ok |-> FALSE]
    BY <1>1, <2>3, <2>6, Zenon
  <2>7. CASE result = [store |-> bad, file |-> [records |-> r, torn |-> TRUE], ok |-> FALSE]
    BY <1>1, <2>3, <2>7, Zenon
  <2> QED
    BY <1>7, <2>4, <2>5, <2>6, <2>7, Zenon
<1> QED
  BY <1>4, <1>5, <1>6, <1>7, Zenon

-----------------------------------------------------------------------------
(* What a step that leaves a witness alone keeps of it.                    *)

\* A step that leaves a witness, its journal and its signatures alone keeps its facts.
LEMMA JournalKept ==
    ASSUME NEW w, JournalInv(w), intents'[w] = intents[w], witness'[w] = witness[w],
           signed'[w] = signed[w], mishaps.restored \subseteq mishaps'.restored
    PROVE  JournalInv(w)'
  BY Zenon DEF JournalInv, Recorded

\* A bundle with enough signers keeps them as signatures are added.
LEMMA BundlesKept ==
    ASSUME \A w \in Witnesses : signed[w] \subseteq signed'[w]
    PROVE  \A cp : Backed(cp) => Backed(cp)'
<1>1. threshold' = threshold
  BY Zenon DEF threshold
<1> QED
  BY <1>1, Zenon DEF Backed

\* The invariant of witness signing holds of a fresh installation.
LEMMA SigningInitial == WitnessInit => SigningInv
<1> SUFFICES ASSUME WitnessInit
             PROVE  SigningInv
  BY Zenon
<1>1. mishaps.restored = {} /\ mishaps \in [writes : {mishaps.writes}, restored : SUBSET Witnesses]
  BY Zenon DEF WitnessInit
<1>2. Cardinality(mishaps.restored) < 2 * threshold - Cardinality(Witnesses)
  BY <1>1, ThresholdBounds, FS_EmptySet, SMT
<1>3. TypeInv
  BY <1>1, <1>2, Zenon DEF WitnessInit, TypeInv
<1>4. ASSUME NEW w \in Witnesses
      PROVE  JournalInv(w)
  <2>1. intents[w] = NoAnchor /\ witness[w] = Down /\ signed[w] = {} /\ ~Down.up
    BY Zenon DEF WitnessInit, Down
  <2> QED
    BY <2>1, Zenon DEF JournalInv
<1> QED
  BY <1>3, <1>4, Zenon DEF SigningInv, WitnessInit

(* A step that only sets the task of a witness whose journal holds the     *)
(* certified checkpoint, or ends its task.                                 *)
LEMMA TaskStep ==
    ASSUME SigningInv, NEW w \in Witnesses, witness[w].up,
           NEW task \in {"idle", "granted"},
           task = "granted" => witness[w].certified \in Recorded(w),
           witness' = [witness EXCEPT ![w].task = task],
           UNCHANGED <<intents, bundles, mishaps, deployment>>,
           signed' \in [Witnesses -> SUBSET Checkpoint],
           \A v \in Witnesses : v # w => signed'[v] = signed[v],
           signed[w] \subseteq signed'[w],
           signed'[w] \subseteq signed[w] \cup Recorded(w)
    PROVE  SigningInv'
<1>1. witness[w] \in Process
  BY DEF SigningInv, TypeInv, Down
<1> DEFINE p == [witness[w] EXCEPT !.task = task]
<1>2. /\ p \in Process /\ p.up = witness[w].up /\ p.store = witness[w].store
      /\ p.certified = witness[w].certified /\ p.task = task
  BY <1>1, Zenon DEF Process
<1>3. witness' = [witness EXCEPT ![w] = p]
  BY Zenon
<1> HIDE DEF p
<1>4. witness \in [Witnesses -> {Down} \cup Process]
  BY Zenon DEF SigningInv, TypeInv
<1>5. /\ witness'[w] = p /\ \A v \in Witnesses : v # w => witness'[v] = witness[v]
      /\ witness' \in [Witnesses -> {Down} \cup Process]
  BY <1>2, <1>3, <1>4, Zenon
<1>6. TypeInv'
  BY <1>5, Zenon DEF SigningInv, TypeInv, threshold
<1>7. JournalInv(w)
  BY Zenon DEF SigningInv
<1>8. JournalInv(w)'
  <2>1. Recorded(w)' = Recorded(w) /\ intents[w] \in File /\ intents'[w] = intents[w]
    BY <1>7, Zenon DEF JournalInv, Recorded
  <2>2. w \notin mishaps.restored => intents[w] # NoAnchor /\ signed'[w] \subseteq Recorded(w)
    BY <1>7, <2>1, NoAnchorIsNoFile, Zenon DEF JournalInv
  <2> QED
    BY <1>2, <1>5, <1>7, <2>1, <2>2 DEF JournalInv
<1>9. \A v \in Witnesses : JournalInv(v)'
  BY <1>5, <1>8, JournalKept, Zenon DEF SigningInv
<1>10. \A cp \in bundles' : Backed(cp)'
  BY BundlesKept, Zenon DEF SigningInv
<1> QED
  BY <1>6, <1>9, <1>10, Zenon DEF SigningInv

-----------------------------------------------------------------------------
(* The actions.                                                            *)

\* Opening a signer, which reads its journal, keeps the signing invariant.
LEMMA OpenStep ==
    ASSUME SigningInv, NEW w \in Witnesses, NEW cp \in Checkpoints, OpenJournal(w, cp)
    PROVE  SigningInv'
<1> DEFINE create == intents[w] = NoAnchor
           file == OpenedFile(intents[w], create)
           tip == IF file.records = <<>> THEN NoCheckpoint ELSE file.records[Len(file.records)]
           store == OpenFinalityAnchorStore(file)
           p == [up |-> TRUE, certified |-> cp, task |-> "idle", store |-> store]
<1>1. TypeInv /\ JournalInv(w)
  BY Zenon DEF SigningInv
<1>2. /\ file \in File /\ Climbing(file.records)
      /\ signed[w] # {} /\ w \notin mishaps.restored => file = intents[w]
  <2>1. CASE create
    <3>1. file = [records |-> <<>>, torn |-> FALSE]
      BY <2>1, Zenon DEF OpenedFile, AnchorFile
    <3>2. <<>> \in Seq(Checkpoint) /\ Len(<<>>) = 0 /\ 1..Len(<<>>) = {}
      BY SMT
    <3>3. Climbing(<<>>)
      BY <3>2, Zenon DEF Climbing
    <3>4. [records |-> <<>>, torn |-> FALSE] \in File
      BY <3>2, Zenon DEF File
    <3>5. signed[w] # {} => w \in mishaps.restored
      BY <1>1, <2>1, Zenon DEF JournalInv
    <3> HIDE DEF file
    <3> QED
      BY <3>1, <3>3, <3>4, <3>5, Zenon
  <2>2. CASE ~create
    <3>1. file = intents[w]
      BY <2>2, Zenon DEF OpenedFile
    <3> QED
      BY <1>1, <2>2, <3>1, Zenon DEF JournalInv, TypeInv
  <2> QED
    BY <2>1, <2>2, Zenon
<1> HIDE DEF file
<1>3. /\ intents' = [intents EXCEPT ![w] = file]
      /\ UNCHANGED <<signed, bundles, mishaps, deployment>>
  BY Zenon DEF OpenJournal, file
<1>4. /\ intents' \in [Witnesses -> {NoAnchor} \cup File] /\ intents'[w] = file
      /\ \A v \in Witnesses : v # w => intents'[v] = intents[v]
  BY <1>1, <1>2, <1>3, Zenon DEF TypeInv
<1>5. witness' = [witness EXCEPT ![w] = p]
  BY <1>4, Zenon DEF OpenJournal
<1>6. /\ store \in Store /\ ~store.poisoned /\ store.tip = tip
  <2>1. file.records \in Seq(Checkpoint)
    BY <1>2, Zenon DEF File
  <2>2. Len(file.records) \in Nat
    BY <2>1
  <2>3. tip \in Checkpoint
    <3>1. CASE file.records = <<>>
      BY <3>1, Zenon DEF NoCheckpoint, Checkpoint
    <3>2. CASE file.records # <<>>
      <4>1. Len(file.records) \in 1..Len(file.records)
        BY <2>1, <3>2, SMT
      <4> QED
        BY <2>1, <3>2, <4>1
    <3> QED
      BY <3>1, <3>2, Zenon
  <2> HIDE DEF tip
  <2>4. store = [tip |-> tip, count |-> Len(file.records), poisoned |-> FALSE]
    BY Zenon DEF OpenFinalityAnchorStore, tip
  <2> HIDE DEF store
  <2> QED
    BY <2>2, <2>3, <2>4, Zenon DEF Store
<1> HIDE DEF store
<1>7. p \in Process /\ p.up /\ p.store = store /\ p.task = "idle"
  <2>1. cp \in Checkpoint
    BY WitnessAssumption, Zenon DEF WitnessAssumption, Checkpoint
  <2> QED
    BY <1>6, <2>1, Zenon DEF Process
<1> HIDE DEF p
<1>8. /\ witness' \in [Witnesses -> {Down} \cup Process] /\ witness'[w] = p
      /\ \A v \in Witnesses : v # w => witness'[v] = witness[v]
  BY <1>1, <1>5, <1>7, Zenon DEF TypeInv
<1>9. TypeInv'
  BY <1>1, <1>3, <1>4, <1>8, Zenon DEF TypeInv, threshold
<1>10. JournalInv(w)'
  <2>1. w \notin mishaps.restored =>
          (signed[w] # {} => intents'[w] # NoAnchor) /\ signed[w] \subseteq Recorded(w)'
    <3>1. CASE signed[w] = {}
      BY <3>1, Zenon
    <3>2. CASE signed[w] # {} /\ w \notin mishaps.restored
      BY <1>1, <1>2, <1>4, <3>2, Zenon DEF JournalInv, Recorded
    <3> QED
      BY <3>1, <3>2, Zenon
  <2> QED
    BY <1>2, <1>3, <1>4, <1>6, <1>7, <1>8, <2>1, Zenon DEF JournalInv, tip
<1>11. \A v \in Witnesses : JournalInv(v)'
  BY <1>3, <1>4, <1>8, <1>10, JournalKept, Zenon DEF SigningInv
<1>12. \A c \in bundles' : Backed(c)'
  BY <1>3, BundlesKept, Zenon DEF SigningInv
<1> QED
  BY <1>9, <1>11, <1>12, Zenon DEF SigningInv

\* Reserving a position in the journal before signing keeps the invariant.
LEMMA ReserveStep ==
    ASSUME SigningInv, NEW w \in Witnesses, NEW cp \in Checkpoints,
           NEW task \in deployment.guards, Reserve(w, cp, task)
    PROVE  SigningInv'
<1>1. TypeInv /\ JournalInv(w) /\ witness[w].up
  BY Zenon DEF SigningInv, Reserve
<1>2. /\ witness[w] \in Process /\ intents[w] \in File /\ cp \in Checkpoint
      /\ witness[w].certified = cp /\ witness[w].store \in Store
  <2>1. witness[w] \in Process
    BY <1>1 DEF TypeInv, Down
  <2> QED
    BY <1>1, <2>1, WitnessAssumption, Zenon
    DEF JournalInv, Reserve, VerifyFinalizedCheckpoint, Process, WitnessAssumption, Checkpoint
<1>3. PICK result \in advance(witness[w].store, intents[w], cp) :
         /\ intents' = [intents EXCEPT ![w] = result.file]
         /\ witness' = [witness EXCEPT
              ![w].store = result.store,
              ![w].task = IF result.ok /\ result.store.tip = cp THEN task ELSE "idle"]
         /\ mishaps' = [mishaps EXCEPT !.writes =
              IF result.store.poisoned /\ ~witness[w].store.poisoned THEN @ + 1 ELSE @]
  BY Zenon DEF Reserve
<1> DEFINE t == IF result.ok /\ result.store.tip = cp THEN task ELSE "idle"
           p == [witness[w] EXCEPT !.store = result.store, !.task = t]
<1>4. /\ result.store \in Store
      /\ result.file \in File
      /\ Climbing(result.file.records)
      /\ ~result.store.poisoned =>
           result.store.tip = (IF result.file.records = <<>> THEN NoCheckpoint
                               ELSE result.file.records[Len(result.file.records)])
      /\ \A i \in 1..Len(intents[w].records) :
           i \in 1..Len(result.file.records) /\ result.file.records[i] = intents[w].records[i]
      /\ result.ok /\ result.store.tip = cp =>
           \E i \in 1..Len(result.file.records) : result.file.records[i] = cp
  BY <1>1, <1>2, AdvanceKeeps DEF JournalInv
<1>5. UNCHANGED <<signed, bundles, deployment>>
  BY Zenon DEF Reserve
<1>6. /\ intents' \in [Witnesses -> {NoAnchor} \cup File] /\ intents'[w] = result.file
      /\ \A v \in Witnesses : v # w => intents'[v] = intents[v]
  BY <1>1, <1>3, <1>4, Zenon DEF TypeInv
<1>7. t \in {"idle", "granted"} \cup UNION {d.guards : d \in Deployments}
  BY <1>1, Zenon DEF TypeInv
<1>8. witness' = [witness EXCEPT ![w] = p]
  BY <1>3, Zenon
<1> HIDE DEF t
<1>9. /\ p \in Process /\ p.up /\ p.store = result.store /\ p.task = t /\ p.certified = cp
  <2> DEFINE q == [witness[w] EXCEPT !.store = result.store]
  <2>1. q \in Process /\ q.store = result.store /\ q.certified = cp
    BY <1>2, <1>4, Zenon DEF Process
  <2>2. p = [q EXCEPT !.task = t]
    BY Zenon
  <2> HIDE DEF q, p
  <2> QED
    BY <1>7, <2>1, <2>2, Zenon DEF Process
<1> HIDE DEF p
<1>10. /\ witness' \in [Witnesses -> {Down} \cup Process] /\ witness'[w] = p
       /\ \A v \in Witnesses : v # w => witness'[v] = witness[v]
  BY <1>1, <1>8, <1>9, Zenon DEF TypeInv
<1>11. /\ mishaps'.restored = mishaps.restored
       /\ mishaps' \in [writes : {mishaps'.writes}, restored : SUBSET Witnesses]
  BY <1>1, <1>3, Zenon DEF TypeInv
<1>12. TypeInv'
  BY <1>1, <1>5, <1>6, <1>10, <1>11, Zenon DEF TypeInv, threshold
<1>13. JournalInv(w)'
  <2>1. Recorded(w) \subseteq Recorded(w)'
    BY <1>4, <1>6 DEF Recorded
  <2>2. p.task # "idle" => p.certified \in Recorded(w)'
    BY <1>4, <1>6, <1>9 DEF Recorded, t
  <2>3. w \notin mishaps'.restored => intents'[w] # NoAnchor /\ signed'[w] \subseteq Recorded(w)'
    BY <1>1, <1>4, <1>5, <1>6, <1>11, <2>1, NoAnchorIsNoFile, Zenon DEF JournalInv
  <2> QED
    BY <1>4, <1>6, <1>9, <1>10, <2>2, <2>3, Zenon DEF JournalInv
<1>14. \A v \in Witnesses : JournalInv(v)'
  BY <1>5, <1>6, <1>10, <1>11, <1>13, JournalKept, Zenon DEF SigningInv
<1>15. \A c \in bundles' : Backed(c)'
  BY <1>5, BundlesKept, Zenon DEF SigningInv
<1> QED
  BY <1>12, <1>14, <1>15, Zenon DEF SigningInv

(* Floors, grants and the key only set the task, and sign what is recorded. *)
LEMMA GrantStep ==
    ASSUME SigningInv, NEW w \in Witnesses, NEW agreed, NEW answered \in BOOLEAN,
           \/ Reconcile(w, agreed)
           \/ ReconcileExternalFloor(w, agreed)
           \/ ReserveWitnessFence(w, answered)
    PROVE  SigningInv'
<1>1. JournalInv(w) /\ TypeInv
  BY Zenon DEF SigningInv
<1>2. /\ signed' = signed /\ UNCHANGED <<intents, bundles, mishaps, deployment>> /\ witness[w].up
      /\ signed' \in [Witnesses -> SUBSET Checkpoint]
  BY <1>1, Zenon DEF Reconcile, ReconcileExternalFloor, ReserveWitnessFence, TypeInv
<1>3. PICK task \in {"idle", "granted"} :
         /\ witness' = [witness EXCEPT ![w].task = task]
         /\ task = "granted" => witness[w].certified \in Recorded(w)
  <2>1. CASE Reconcile(w, agreed)
    BY <1>1, <2>1, Zenon DEF Reconcile, JournalInv
  <2>2. CASE ReserveWitnessFence(w, answered)
    BY <1>1, <2>2, Zenon DEF ReserveWitnessFence, JournalInv
  <2>3. CASE ReconcileExternalFloor(w, agreed)
    <3>1. /\ witness[w].store.tip = witness[w].certified /\ witness[w].store.tip.height > 0
          /\ ~witness[w].store.poisoned /\ witness' = [witness EXCEPT ![w].task = "granted"]
      BY <2>3, Zenon DEF ReconcileExternalFloor, VerifyFinalizedCheckpoint
    <3>2. intents[w] \in File
      BY <1>1, <1>2, Zenon DEF JournalInv
    <3>3. witness[w].store.tip = (IF intents[w].records = <<>> THEN NoCheckpoint
                                  ELSE intents[w].records[Len(intents[w].records)])
      BY <1>1, <1>2, <3>1, Zenon DEF JournalInv
    <3>4. intents[w].records # <<>>
      <4>1. ~(NoCheckpoint.height > 0)
        BY SMT DEF NoCheckpoint
      <4> QED
        BY <3>1, <3>3, <4>1, Zenon
    <3>5. Len(intents[w].records) \in 1..Len(intents[w].records)
      <4>1. intents[w].records \in Seq(Checkpoint)
        BY <3>2, Zenon DEF File
      <4> QED
        BY <3>4, <4>1, SMT
    <3>6. witness[w].certified \in Recorded(w)
      BY <3>1, <3>3, <3>4, <3>5, Zenon DEF Recorded
    <3> QED
      BY <3>1, <3>6, Zenon
  <2> QED
    BY <2>1, <2>2, <2>3, Zenon
<1> QED
  BY <1>2, <1>3, TaskStep, Zenon

\* Releasing a signature for a reserved position keeps the invariant.
LEMMA SignStep ==
    ASSUME SigningInv, NEW w \in Witnesses, Sign(w)
    PROVE  SigningInv'
<1>1. JournalInv(w) /\ TypeInv
  BY Zenon DEF SigningInv
<1>2. witness[w].certified \in Recorded(w) /\ witness[w].up
  BY <1>1, Zenon DEF Sign, JournalInv
<1>3. witness[w].certified \in Checkpoint
  <2>1. witness[w] \in Process
    BY <1>1, <1>2 DEF TypeInv, Down
  <2> QED
    BY <2>1, Zenon DEF Process
<1>4. /\ signed' \in [Witnesses -> SUBSET Checkpoint]
      /\ signed'[w] = signed[w] \cup {witness[w].certified}
      /\ \A v \in Witnesses : v # w => signed'[v] = signed[v]
  BY <1>1, <1>3, Zenon DEF Sign, TypeInv
<1>5. witness' = [witness EXCEPT ![w].task = "idle"] /\ UNCHANGED <<intents, bundles, mishaps, deployment>>
  BY Zenon DEF Sign
<1> QED
  BY <1>2, <1>4, <1>5, TaskStep, Zenon

\* A signer that stops or crashes keeps the invariant: the journal is on disk.
LEMMA StopStep ==
    ASSUME SigningInv, NEW w \in Witnesses, StopWitness(w)
    PROVE  SigningInv'
<1>1. TypeInv /\ JournalInv(w) /\ ~Down.up
  BY Zenon DEF SigningInv, Down
<1>2. /\ witness' = [witness EXCEPT ![w] = Down]
      /\ UNCHANGED <<intents, signed, bundles, mishaps, deployment>>
  BY Zenon DEF StopWitness
<1>3. /\ witness' \in [Witnesses -> {Down} \cup Process] /\ witness'[w] = Down
      /\ \A v \in Witnesses : v # w => witness'[v] = witness[v]
  BY <1>1, <1>2, Zenon DEF TypeInv
<1>4. TypeInv'
  BY <1>1, <1>2, <1>3, Zenon DEF TypeInv, threshold
<1>5. JournalInv(w)'
  BY <1>1, <1>2, <1>3, Zenon DEF JournalInv, Recorded
<1>6. \A v \in Witnesses : JournalInv(v)'
  BY <1>2, <1>3, <1>5, JournalKept, Zenon DEF SigningInv
<1>7. \A c \in bundles' : Backed(c)'
  BY <1>2, BundlesKept, Zenon DEF SigningInv
<1> QED
  BY <1>4, <1>6, <1>7, Zenon DEF SigningInv

\* Putting back an older copy of a journal keeps the invariant, which exempts that witness.
LEMMA RestoreStep ==
    ASSUME SigningInv, NEW w \in Witnesses, NEW kept \in Nat, RestoreJournal(w, kept)
    PROVE  SigningInv'
<1> DEFINE r == intents[w].records
           part == SubSeq(intents[w].records, 1, kept)
           file == [records |-> part, torn |-> FALSE]
<1>1. TypeInv /\ JournalInv(w) /\ ~witness[w].up
  BY Zenon DEF SigningInv, RestoreJournal
<1>2. intents[w] \in File /\ Climbing(r)
  BY <1>1, Zenon DEF RestoreJournal, TypeInv, JournalInv
<1>3. r \in Seq(Checkpoint) /\ kept < Len(r)
  BY <1>2, Zenon DEF File, RestoreJournal
<1>4. /\ part \in Seq(Checkpoint) /\ Len(part) = kept
      /\ \A i \in 1..kept : i \in 1..Len(r) /\ part[i] = r[i]
  BY <1>3, SMT
<1>5. Climbing(part)
  BY <1>2, <1>4 DEF Climbing
<1>6. /\ intents' = [intents EXCEPT ![w] = file]
      /\ mishaps' = [mishaps EXCEPT !.restored = @ \cup {w}]
      /\ UNCHANGED <<witness, signed, bundles, deployment>>
  BY Zenon DEF RestoreJournal, AnchorFile
<1> HIDE DEF part
<1>7. file \in File /\ file.records = part
  BY <1>4, Zenon DEF File
<1> HIDE DEF file
<1>8. /\ intents' \in [Witnesses -> {NoAnchor} \cup File] /\ intents'[w] = file
      /\ \A v \in Witnesses : v # w => intents'[v] = intents[v]
  BY <1>1, <1>6, <1>7, Zenon DEF TypeInv
<1>9. /\ mishaps'.restored = mishaps.restored \cup {w}
      /\ mishaps' \in [writes : {mishaps'.writes}, restored : SUBSET Witnesses]
  BY <1>1, <1>6, Zenon DEF TypeInv
<1>10. Cardinality(mishaps'.restored) < 2 * threshold - Cardinality(Witnesses)
  <2>1. Cardinality(mishaps'.restored) \in Nat
    <3>1. mishaps'.restored \subseteq Witnesses
      BY <1>9, Zenon
    <3>2. IsFiniteSet(Witnesses)
      BY WitnessAssumption, Zenon DEF WitnessAssumption
    <3> QED
      BY <3>1, <3>2, FS_Subset, FS_CardinalityType, Zenon
  <2>2. 2 * threshold - Cardinality(Witnesses) > Cardinality(mishaps'.restored)
    BY <1>9, Zenon DEF RestoreJournal
  <2> QED
    BY <2>1, <2>2, ThresholdBounds, SMT
<1>11. TypeInv'
  BY <1>1, <1>6, <1>8, <1>9, <1>10, Zenon DEF TypeInv, threshold
<1>12. JournalInv(w)'
  BY <1>1, <1>5, <1>6, <1>7, <1>8, <1>9, Zenon DEF JournalInv
<1>13. \A v \in Witnesses : JournalInv(v)'
  BY <1>6, <1>8, <1>9, <1>12, JournalKept, Zenon DEF SigningInv
<1>14. \A c \in bundles' : Backed(c)'
  BY <1>6, BundlesKept, Zenon DEF SigningInv
<1> QED
  BY <1>11, <1>13, <1>14, Zenon DEF SigningInv

\* Assembling a bundle from released signatures keeps the invariant.
LEMMA AssembleStep ==
    ASSUME SigningInv, NEW cp \in Checkpoints, NEW signers \in SUBSET Witnesses,
           Assemble(cp, signers)
    PROVE  SigningInv'
<1>1. /\ bundles' = bundles \cup {cp}
      /\ UNCHANGED <<intents, witness, signed, mishaps, deployment>>
      /\ Cardinality(signers) >= threshold /\ \A w \in signers : cp \in signed[w]
  BY Zenon DEF Assemble, ParseSignedWitnessCheckpoint
<1>2. cp \in Checkpoint
  BY WitnessAssumption, Zenon DEF WitnessAssumption, Checkpoint
<1>3. TypeInv'
  BY <1>1, <1>2, Zenon DEF SigningInv, TypeInv, threshold
<1>4. \A v \in Witnesses : JournalInv(v)'
  BY <1>1, JournalKept, Zenon DEF SigningInv
<1>5. Backed(cp)
  BY <1>1, Zenon DEF Backed
<1>6. \A c \in bundles' : Backed(c)'
  BY <1>1, <1>5, BundlesKept, Zenon DEF SigningInv
<1> QED
  BY <1>3, <1>4, <1>6, Zenon DEF SigningInv

\* Every step of witness signing keeps the invariant.
LEMMA SigningStep == SigningInv /\ [WitnessNext]_witnessVars => SigningInv'
<1> SUFFICES ASSUME SigningInv, [WitnessNext]_witnessVars
             PROVE  SigningInv'
  BY Zenon
<1>1. CASE UNCHANGED witnessVars
  <2>1. UNCHANGED <<intents, witness, signed, bundles, mishaps, deployment>>
    BY <1>1, Zenon DEF witnessVars
  <2>2. TypeInv'
    BY <2>1, Zenon DEF SigningInv, TypeInv, threshold
  <2>3. \A v \in Witnesses : JournalInv(v)'
    BY <2>1, JournalKept, Zenon DEF SigningInv
  <2>4. \A c \in bundles' : Backed(c)'
    BY <2>1, BundlesKept, Zenon DEF SigningInv
  <2> QED
    BY <2>2, <2>3, <2>4, Zenon DEF SigningInv
<1>2. ASSUME NEW kept \in 0..AnchorLimit
      PROVE  kept \in Nat
  BY <1>2, SMT
<1> QED
  BY <1>1, <1>2, OpenStep, ReserveStep, GrantStep, SignStep, StopStep, RestoreStep, AssembleStep, Zenon
  DEF WitnessNext

-----------------------------------------------------------------------------
(* A signer that two bundles share, and whose journal was never restored,  *)
(* has both checkpoints among its climbing records.                        *)
LEMMA BackedAgree ==
    ASSUME SigningInv, NEW c \in bundles, NEW d \in bundles, c.height = d.height
    PROVE  c = d
<1>1. PICK P \in SUBSET Witnesses :
         Cardinality(P) >= threshold /\ \A w \in P : c \in signed[w]
  BY Zenon DEF SigningInv, Backed
<1>2. PICK Q \in SUBSET Witnesses :
         Cardinality(Q) >= threshold /\ \A w \in Q : d \in signed[w]
  BY Zenon DEF SigningInv, Backed
<1>3. mishaps.restored \in SUBSET Witnesses
  BY Zenon DEF SigningInv, TypeInv
<1>4. PICK w \in P \cap Q : w \notin mishaps.restored
  BY <1>1, <1>2, <1>3, CommonSigner, Zenon DEF SigningInv, TypeInv
<1>5. w \in Witnesses /\ c \in Recorded(w) /\ d \in Recorded(w) /\ intents[w] # NoAnchor
  BY <1>1, <1>2, <1>4, Zenon DEF SigningInv, JournalInv
<1>6. Climbing(intents[w].records) /\ intents[w] \in File
  BY <1>5, Zenon DEF SigningInv, JournalInv, TypeInv
<1>7. intents[w].records \in Seq(Checkpoint)
  BY <1>6, Zenon DEF File
<1>8. PICK i \in 1..Len(intents[w].records), j \in 1..Len(intents[w].records) :
         c = intents[w].records[i] /\ d = intents[w].records[j]
  BY <1>5, Zenon DEF Recorded
<1>9. c.height \in Nat /\ Len(intents[w].records) \in Nat
  <2>1. c \in Checkpoint
    BY Zenon DEF SigningInv, TypeInv
  <2> QED
    BY <1>7, <2>1 DEF Checkpoint
<1>10. ~(i < j) /\ ~(j < i)
  BY <1>6, <1>8, <1>9, SMT DEF Climbing
<1> QED
  BY <1>8, <1>9, <1>10, SMT

(* AssembleSignedWitnessCheckpoint never produces bundles for two headers  *)
(* of one height, so that VerifyWitnessEvidenceSet accepts any two: for    *)
(* every number of witnesses, and however many writes fail, as long as     *)
(* fewer journals are restored than two quorums must share.                *)
THEOREM BundlesAgreeHolds == WitnessSpec => []BundlesAgree
<1>1. SigningInv => BundlesAgree
  <2> SUFFICES ASSUME SigningInv, NEW c \in bundles, NEW d \in bundles
               PROVE  CheckWitnessQuorumConsistency(c, d) /\ VerifyWitnessEvidenceSet({c, d})
    BY Zenon DEF BundlesAgree
  <2>1. \A x, y \in {c, d} : CheckWitnessQuorumConsistency(x, y)
    BY BackedAgree, Zenon DEF CheckWitnessQuorumConsistency
  <2>2. Cardinality({c, d}) <= 64
    <3>1. CASE c = d
      <4>1. Cardinality({c}) = 1 /\ {c, d} = {c}
        BY <3>1, FS_Singleton, Zenon
      <4> QED
        BY <4>1, SMT
    <3>2. CASE c # d
      <4>1. IsFiniteSet({c}) /\ Cardinality({c}) = 1
        BY FS_Singleton, Zenon
      <4>2. Cardinality({c} \cup {d}) = Cardinality({c}) + 1
        BY <3>2, <4>1, FS_AddElement, Zenon
      <4>3. {c} \cup {d} = {c, d}
        BY Zenon
      <4> QED
        BY <4>1, <4>2, <4>3, SMT
    <3> QED
      BY <3>1, <3>2, Zenon
  <2> QED
    BY <2>1, <2>2, Zenon DEF VerifyWitnessEvidenceSet
<1> QED
  BY <1>1, SigningInitial, SigningStep, PTL DEF WitnessSpec

-----------------------------------------------------------------------------
(* Module ValidatorRotation.                                               *)
(* Checkpoint chains agree, for any number of nodes, validator sets,       *)
(* followers and restarts.                                                 *)

(* A set certifies one header per height: the guard of Certify, which      *)
(* stands for Agreement of ValidatorService.                               *)
CertifiedOnce ==
    \A g, h \in certified : g.height = h.height /\ g.root = h.root => g = h

(* The checkpoint chain of one follower: its entries are certified and     *)
(* linked by hand-overs, and root and last describe its last entry.        *)
Followed(c) ==
    LET n == Len(c.entries)
    IN  /\ c.entries \in Seq(certified)
        /\ c.root \in c.sets
        /\ n = 0 => c.last.height = 0 /\ c.root = GenesisSet
        /\ n > 0 => c.last = c.entries[n] /\ c.root = EffectiveNextValidatorRoot(c.entries[n])
        /\ \A i \in 1..n :
             /\ c.entries[i].height = i
             /\ c.entries[i].root \in c.sets
             /\ c.entries[i].root = (IF i = 1 THEN GenesisSet
                                     ELSE EffectiveNextValidatorRoot(c.entries[i - 1]))

SamePrefix(c, d) ==
    \A i \in 1..Len(c.entries) : i <= Len(d.entries) => d.entries[i] = c.entries[i]

RotationInv ==
    /\ CertifiedOnce
    /\ DOMAIN chain = Followers
    /\ chain = [f \in Followers |-> chain[f]]
    /\ \A f \in Followers : Followed(chain[f])
    /\ \A f, g \in Followers : SamePrefix(chain[f], chain[g])

\* The invariant of validator rotation holds of the genesis set.
LEMMA RotationInitial == RotationInit => RotationInv
<1> SUFFICES ASSUME RotationInit
             PROVE  RotationInv
  BY Zenon
<1>1. \A f \in Followers : /\ chain[f].entries = <<>> /\ chain[f].root = GenesisSet
                           /\ chain[f].last = Genesis /\ chain[f].sets = {GenesisSet}
  BY Zenon DEF RotationInit
<1>2. \A f \in Followers : Followed(chain[f])
  <2> SUFFICES ASSUME NEW f \in Followers
               PROVE  Followed(chain[f])
    BY Zenon
  <2>0. Len(<<>>) = 0 /\ <<>> \in Seq(certified)
    OBVIOUS
  <2>1. Len(chain[f].entries) = 0 /\ chain[f].entries \in Seq(certified)
    BY <1>1, <2>0, Zenon
  <2>2. 1..Len(chain[f].entries) = {}
    BY <2>1, SMT
  <2>3. chain[f].last.height = 0
    BY <1>1 DEF Genesis
  <2> QED
    BY <1>1, <2>1, <2>2, <2>3 DEF Followed
<1>3. \A f, g \in Followers : SamePrefix(chain[f], chain[g])
  BY <1>1, SMT DEF SamePrefix
<1> QED
  BY <1>2, <1>3, Zenon DEF RotationInit, RotationInv, CertifiedOnce

(* Appending the same next header to two chains that agree.                *)
LEMMA AppendKeeps ==
    ASSUME CertifiedOnce,
           NEW c, Followed(c), NEW h \in certified, NEW current \in ValidatorSets,
           NEW next \in ValidatorSets \cup {NoRoot}, Appendable(c, h, current, next),
           NEW d, Followed(d), SamePrefix(c, d),
           NEW e, e.root = EffectiveNextValidatorRoot(h), e.last = h,
           e.entries = Append(c.entries, h),
           e.sets = c.sets \cup ({current, next} \ {NoRoot})
    PROVE  Followed(e) /\ SamePrefix(e, d) /\ SamePrefix(d, e)
<1> DEFINE n == Len(c.entries)
<1>1. n \in Nat /\ c.entries \in Seq(certified)
  BY DEF Followed
<1>2. /\ e.entries \in Seq(certified)
      /\ Len(e.entries) = n + 1
      /\ \A i \in 1..n : e.entries[i] = c.entries[i]
      /\ e.entries[n + 1] = h
  BY <1>1, SMT
<1>3. h.height = n + 1
  BY <1>1, SMT DEF Followed, Appendable
<1>4. h.root = current /\ current = c.root /\ h.root \in c.sets
  BY Zenon DEF Followed, Appendable
<1>5. e.root \in e.sets
  BY <1>4, RotationAssumption, Zenon DEF RotationAssumption, Appendable, EffectiveNextValidatorRoot
<1>6. h.root = (IF n + 1 = 1 THEN GenesisSet
                ELSE EffectiveNextValidatorRoot(e.entries[n + 1 - 1]))
  <2>1. CASE n = 0
    BY <1>4, <2>1 DEF Followed
  <2>2. CASE n > 0
    <3>1. n + 1 - 1 = n /\ n + 1 # 1 /\ n \in 1..n
      BY <1>1, <2>2, SMT
    <3> QED
      BY <1>2, <1>4, <2>2, <3>1 DEF Followed
  <2> QED
    BY <1>1, <2>1, <2>2, SMT
<1>7. Followed(e)
  <2>1. ASSUME NEW i \in 1..(n + 1)
        PROVE  /\ e.entries[i].height = i
               /\ e.entries[i].root \in e.sets
               /\ e.entries[i].root = (IF i = 1 THEN GenesisSet
                                       ELSE EffectiveNextValidatorRoot(e.entries[i - 1]))
    <3>1. CASE i = n + 1
      BY <1>2, <1>3, <1>4, <1>6, <3>1
    <3>2. CASE i \in 1..n
      <4>1. i # 1 => i - 1 \in 1..n
        BY <1>1, <3>2, SMT
      <4>2. /\ c.entries[i].height = i
            /\ c.entries[i].root \in c.sets
            /\ c.entries[i].root = (IF i = 1 THEN GenesisSet
                                    ELSE EffectiveNextValidatorRoot(c.entries[i - 1]))
        BY <3>2, Zenon DEF Followed
      <4>3. e.entries[i] = c.entries[i] /\ (i # 1 => e.entries[i - 1] = c.entries[i - 1])
        BY <1>2, <3>2, <4>1, Zenon
      <4> QED
        BY <4>2, <4>3, Zenon
    <3> QED
      BY <1>1, <3>1, <3>2, SMT
  <2>2. n + 1 > 0 /\ n + 1 # 0
    BY <1>1, SMT
  <2> QED
    BY <1>2, <1>5, <2>1, <2>2, Zenon DEF Followed
<1>8. n + 1 <= Len(d.entries) => d.entries[n + 1] = h
  <2> SUFFICES ASSUME n + 1 <= Len(d.entries)
               PROVE  d.entries[n + 1] = h
    BY Zenon
  <2>1. /\ n + 1 \in 1..Len(d.entries) /\ d.entries \in Seq(certified)
        /\ n > 0 => n \in 1..n /\ n <= Len(d.entries)
    BY <1>1, SMT DEF Followed
  <2>2. d.entries[n + 1] \in certified
    BY <2>1
  <2>3. d.entries[n + 1].height = h.height
    BY <1>3, <2>1, Zenon DEF Followed
  <2>4. d.entries[n + 1].root = h.root
    <3>1. CASE n = 0
      BY <1>4, <2>1, <3>1 DEF Followed
    <3>2. CASE n > 0
      <4>1. n + 1 # 1 /\ n + 1 - 1 = n
        BY <1>1, <3>2, SMT
      <4>2. d.entries[n] = c.entries[n]
        BY <2>1, <3>2, Zenon DEF SamePrefix
      <4> QED
        BY <1>4, <2>1, <3>2, <4>1, <4>2 DEF Followed
    <3> QED
      BY <1>1, <3>1, <3>2, SMT
  <2> QED
    BY <2>2, <2>3, <2>4, Zenon DEF CertifiedOnce
<1>9. ASSUME NEW i \in Nat, i \in 1..Len(e.entries), i <= Len(d.entries)
      PROVE  d.entries[i] = e.entries[i]
  <2>1. CASE i = n + 1
    BY <1>2, <1>8, <1>9, <2>1, Zenon
  <2>2. CASE i \in 1..n
    BY <1>2, <1>9, <2>2, Zenon DEF SamePrefix
  <2> QED
    BY <1>1, <1>2, <1>9, <2>1, <2>2, SMT
<1>10. SamePrefix(e, d)
  BY <1>9, SMT DEF SamePrefix
<1>11. SamePrefix(d, e)
  <2>1. Len(d.entries) \in Nat
    BY DEF Followed
  <2> QED
    BY <1>2, <1>1, <1>9, <2>1, SMT DEF SamePrefix
<1> QED
  BY <1>7, <1>10, <1>11, Zenon

\* Every rotation step keeps the chain of validator sets linked.
LEMMA RotationStep == RotationInv /\ [RotationNext]_rotationVars => RotationInv'
<1> SUFFICES ASSUME RotationInv, [RotationNext]_rotationVars
             PROVE  RotationInv'
  BY Zenon
<1>1. ASSUME UNCHANGED <<certified, chain>>
      PROVE  RotationInv'
  BY <1>1 DEF RotationInv, CertifiedOnce, Followed, SamePrefix
<1>2. ASSUME NEW h, Certify(h)
      PROVE  RotationInv'
  <2>1. CertifiedOnce'
    BY <1>2, Zenon DEF RotationInv, CertifiedOnce, Certify
  <2>2. chain' = chain /\ certified \subseteq certified'
    BY <1>2, Zenon DEF Certify
  <2>3. \A s : s \in Seq(certified) => s \in Seq(certified')
    BY <2>2, SMT
  <2>4. ASSUME NEW f \in Followers
        PROVE  Followed(chain[f])'
    BY <2>2, <2>3 DEF RotationInv, Followed
  <2> QED
    BY <2>1, <2>2, <2>4 DEF RotationInv, SamePrefix
<1>3. ASSUME NEW f \in Followers, NEW h \in certified, NEW current \in ValidatorSets,
             NEW next \in ValidatorSets \cup {NoRoot}, AppendCheckpoint(f, h, current, next)
      PROVE  RotationInv'
  <2> DEFINE e == [root    |-> EffectiveNextValidatorRoot(h),
                   last    |-> h,
                   entries |-> Append(chain[f].entries, h),
                   sets    |-> chain[f].sets \cup ({current, next} \ {NoRoot})]
  <2>1. certified' = certified
    BY <1>3, Zenon DEF AppendCheckpoint
  <2>2. chain' = [chain EXCEPT ![f] = e]
    BY <1>3, Zenon DEF AppendCheckpoint
  <2>3. /\ DOMAIN chain' = Followers /\ chain' = [g \in Followers |-> chain'[g]]
        /\ chain'[f] = e /\ \A g \in Followers \ {f} : chain'[g] = chain[g]
    BY <2>2, Zenon DEF RotationInv
  <2>4. Appendable(chain[f], h, current, next)
    BY <1>3, Zenon DEF AppendCheckpoint
  <2>5. /\ e.root = EffectiveNextValidatorRoot(h) /\ e.last = h
        /\ e.entries = Append(chain[f].entries, h)
        /\ e.sets = chain[f].sets \cup ({current, next} \ {NoRoot})
    BY Zenon
  <2> HIDE DEF e
  <2>6. ASSUME NEW g \in Followers
        PROVE  Followed(e) /\ SamePrefix(e, chain[g]) /\ SamePrefix(chain[g], e)
    <3>1. /\ CertifiedOnce /\ Followed(chain[f]) /\ Followed(chain[g])
          /\ SamePrefix(chain[f], chain[g])
      BY Zenon DEF RotationInv
    <3> QED
      BY <2>4, <2>5, <3>1, AppendKeeps, Zenon
  <2>7. \A g \in Followers : Followed(chain'[g])
    BY <2>3, <2>6, Zenon DEF RotationInv
  <2>8. \A g \in Followers : Followed(chain[g])'
    BY <2>1, <2>7, Zenon DEF Followed
  <2>9. SamePrefix(e, e)
    BY Zenon DEF SamePrefix
  <2>10. \A g, k \in Followers : SamePrefix(chain'[g], chain'[k])
    BY <2>3, <2>6, <2>9, Zenon DEF RotationInv
  <2>11. CertifiedOnce'
    BY <2>1, Zenon DEF RotationInv, CertifiedOnce
  <2> QED
    BY <2>3, <2>8, <2>10, <2>11, Zenon DEF RotationInv, SamePrefix
<1>4. CASE UNCHANGED rotationVars
  BY <1>1, <1>4, Zenon DEF rotationVars
<1>5. ASSUME NEW n \in Nodes,
             \/ \E next \in ValidatorSets : BuildCandidate(n, next)
             \/ \E h \in certified : CommitHeader(n, h)
             \/ InstallRoot(n)
             \/ RestartNode(n)
      PROVE  RotationInv'
  BY <1>1, <1>5, Zenon DEF BuildCandidate, CommitHeader, InstallRoot, RestartNode
<1> QED
  BY <1>2, <1>3, <1>4, <1>5, Zenon DEF RotationNext

(* Chain.Append keeps every follower on one chain: whichever certified     *)
(* headers it is given, and whatever a node in the window of               *)
(* CommitWithValidatorTransition or after a restart gets its former set to *)
(* sign.                                                                   *)
THEOREM CheckpointsAgreeHolds == RotationSpec => []CheckpointsAgree
<1>1. RotationInv => CheckpointsAgree
  <2> SUFFICES ASSUME RotationInv, NEW f \in Followers
               PROVE  LET entries == chain[f].entries
                      IN  /\ chain[f].root \in chain[f].sets
                          /\ \A i \in 1..Len(entries) :
                               /\ VerifyEntry(f, i)
                               /\ entries[i].height = i
                               /\ entries[i].root = (IF i = 1 THEN GenesisSet
                                     ELSE EffectiveNextValidatorRoot(entries[i - 1]))
                               /\ \A g \in Followers :
                                    i <= Len(chain[g].entries) => chain[g].entries[i] = entries[i]
    BY Zenon DEF CheckpointsAgree
  <2>1. Followed(chain[f]) /\ \A g \in Followers : SamePrefix(chain[f], chain[g])
    BY Zenon DEF RotationInv
  <2>2. \A i \in 1..Len(chain[f].entries) : chain[f].entries[i] \in certified
    BY <2>1 DEF Followed
  <2> QED
    BY <2>1, <2>2, Zenon DEF Followed, SamePrefix, VerifyEntry
<1> QED
  BY RotationInitial, RotationStep, <1>1, PTL DEF RotationSpec

-----------------------------------------------------------------------------
(* Module CitizenDevice.                                                   *)
(* The Citizen's anchor and the evidence it accepts, for any number of     *)
(* calls, validator sets, blocks and challenges.                           *)

(* A set the finalized chain authorised.                                   *)
Authorised(set) ==
    \/ set = FirstSet
    \/ \E i \in 1..Len(ledger) : ledger[i].next = set

(* Evidence that is true of the block it names.                            *)
Shown(e) ==
    /\ e.height \in 1..Len(ledger)
    /\ LET c == ledger[e.height].credential
       IN  /\ c.present
           /\ c.object = e.object
           /\ c.sequence = e.sequence
           /\ e.capabilities \subseteq c.capabilities
           /\ c.expires = 0 \/ e.height < c.expires
           /\ \E a \in answers :
                /\ a.key = c.key
                /\ a.challenge.object = e.object
                /\ a.challenge.sequence = e.sequence
                /\ a.challenge.height = e.height

(* Finalized blocks hand over within the committee, and what a call has    *)
(* read was authorised when it read it: sets do not lose that.             *)
LightInv ==
    /\ ledger \in Seq({ledger[i] : i \in 1..Len(ledger)})
    /\ \A i \in 1..Len(ledger) : ledger[i].height = i /\ ledger[i].next \in CommitteeSets
    /\ Authorised(citizen)
    /\ \A c \in Calls : call[c] = NoCall \/ Authorised(call[c])
    /\ \A e \in evidence : Shown(e)

\* The light client's invariant holds before anything is finalized.
LEMMA LightInitial == LightInit => LightInv
<1> SUFFICES ASSUME LightInit
             PROVE  LightInv
  BY Zenon
<1>1. Len(ledger) = 0 /\ ledger \in Seq({ledger[i] : i \in 1..Len(ledger)})
  BY SMT DEF LightInit
<1>2. 1..Len(ledger) = {}
  BY <1>1, SMT
<1> QED
  BY <1>1, <1>2, Zenon DEF LightInit, LightInv, Authorised

(* A new block leaves the earlier ones in place.                           *)
LEMMA LedgerGrows ==
    ASSUME LightInv, NEW next \in CommitteeSets, NEW credential, FinalizeBlock(next, credential)
    PROVE  /\ Len(ledger) \in Nat
           /\ Len(ledger') = Len(ledger) + 1
           /\ \A i \in 1..Len(ledger) : i \in 1..Len(ledger') /\ ledger'[i] = ledger[i]
           /\ ledger'[Len(ledger) + 1].height = Len(ledger) + 1
           /\ ledger'[Len(ledger) + 1].next = next
           /\ ledger' \in Seq({ledger'[i] : i \in 1..Len(ledger')})
<1> DEFINE n == Len(ledger)
           b == [height |-> Len(ledger) + 1, root |-> LastRoot, next |-> next,
                 credential |-> credential]
           S == {ledger[i] : i \in 1..Len(ledger)} \cup {b}
<1>1. ledger' = Append(ledger, b)
  BY Zenon DEF FinalizeBlock
<1>2. b.height = Len(ledger) + 1 /\ b.next = next
  BY Zenon
<1>3. ledger \in Seq(S) /\ b \in S
  BY SMT DEF LightInv
<1> HIDE DEF b, S
<1>4. /\ n \in Nat /\ Len(ledger') = n + 1 /\ ledger' \in Seq(S)
      /\ \A i \in 1..n : i \in 1..Len(ledger') /\ ledger'[i] = ledger[i]
      /\ ledger'[n + 1] = b
  BY <1>1, <1>3, SMT
<1>5. ledger' \in Seq({ledger'[i] : i \in 1..Len(ledger')})
  BY <1>4, SMT
<1> QED
  BY <1>2, <1>4, <1>5, Zenon

(* What remains true when the chain and the answers grow.                  *)
LEMMA FactsPersist ==
    ASSUME Len(ledger) \in Nat,
           \A i \in 1..Len(ledger) : i \in 1..Len(ledger') /\ ledger'[i] = ledger[i],
           answers \subseteq answers'
    PROVE  /\ \A set : Authorised(set) => Authorised(set)'
           /\ \A e : Shown(e) => Shown(e)'
<1>1. ASSUME NEW set, Authorised(set)
      PROVE  Authorised(set)'
  BY <1>1, Zenon DEF Authorised
<1>2. ASSUME NEW e, Shown(e)
      PROVE  Shown(e)'
  BY <1>2, Zenon DEF Shown
<1> QED
  BY <1>1, <1>2, Zenon

(* A step that leaves the chain, the answers and the evidence alone.       *)
LEMMA AnchorStep ==
    ASSUME LightInv, UNCHANGED <<ledger, answers, evidence>>, Authorised(citizen'),
           \A c \in Calls : call'[c] = NoCall \/ Authorised(call'[c])
    PROVE  LightInv'
<1>1. /\ (ledger \in Seq({ledger[i] : i \in 1..Len(ledger)}))'
      /\ (\A i \in 1..Len(ledger) : ledger[i].height = i /\ ledger[i].next \in CommitteeSets)'
  BY Zenon DEF LightInv
<1>2. Authorised(citizen)'
  BY Zenon DEF Authorised
<1>3. \A c \in Calls : (call[c] = NoCall \/ Authorised(call[c]))'
  BY Zenon DEF Authorised
<1>4. \A e : Shown(e) => Shown(e)'
  BY Zenon DEF Shown
<1>5. \A e \in evidence' : Shown(e)'
  BY <1>4, Zenon DEF LightInv
<1> QED
  BY <1>1, <1>2, <1>3, <1>5, Zenon DEF LightInv

(* LightInv is inductive.                                                  *)
LEMMA LightStep == LightInv /\ [LightNext]_lightVars => LightInv'
<1> SUFFICES ASSUME LightInv, [LightNext]_lightVars
             PROVE  LightInv'
  BY Zenon
<1>0. Len(ledger) \in Nat
  BY DEF LightInv
<1>1. ASSUME NEW next \in CommitteeSets, NEW credential, FinalizeBlock(next, credential)
      PROVE  LightInv'
  <2>1. UNCHANGED <<citizen, call, answers, evidence>>
    BY <1>1, Zenon DEF FinalizeBlock
  <2>2. /\ \A set : Authorised(set) => Authorised(set)'
        /\ \A e : Shown(e) => Shown(e)'
    BY <1>1, <2>1, LedgerGrows, FactsPersist, Zenon
  <2>3. \A i \in 1..Len(ledger') : i \in 1..Len(ledger) \/ i = Len(ledger) + 1
    <3>1. Len(ledger') = Len(ledger) + 1
      BY <1>1, LedgerGrows, Zenon
    <3> QED
      BY <1>0, <3>1, SMT
  <2>4. \A i \in 1..Len(ledger') : ledger'[i].height = i /\ ledger'[i].next \in CommitteeSets
    <3>1. /\ \A i \in 1..Len(ledger) : ledger'[i] = ledger[i]
          /\ ledger'[Len(ledger) + 1].height = Len(ledger) + 1
          /\ ledger'[Len(ledger) + 1].next \in CommitteeSets
      BY <1>1, LedgerGrows, Zenon
    <3>2. \A i \in 1..Len(ledger) : ledger[i].height = i /\ ledger[i].next \in CommitteeSets
      BY Zenon DEF LightInv
    <3> QED
      BY <2>3, <3>1, <3>2, Zenon
  <2>5. Authorised(citizen)'
    BY <2>1, <2>2, Zenon DEF LightInv, Authorised
  <2>6. \A c \in Calls : (call[c] = NoCall \/ Authorised(call[c]))'
    BY <2>1, <2>2, Zenon DEF LightInv, Authorised
  <2>7. \A e \in evidence' : Shown(e)'
    BY <2>1, <2>2, Zenon DEF LightInv
  <2> QED
    BY <1>1, <2>4, <2>5, <2>6, <2>7, LedgerGrows, Zenon DEF LightInv
<1>2. ASSUME NEW c \in Calls, ReadAnchor(c)
      PROVE  LightInv'
  <2>1. UNCHANGED <<ledger, citizen, answers, evidence>>
    BY <1>2, Zenon DEF ReadAnchor
  <2>2. \A d \in Calls : call'[d] = call[d] \/ call'[d] = citizen
    BY <1>2 DEF ReadAnchor
  <2>3. /\ Authorised(citizen')
        /\ \A d \in Calls : call'[d] = NoCall \/ Authorised(call'[d])
    BY <2>1, <2>2, Zenon DEF LightInv
  <2> QED
    BY <2>1, <2>3, AnchorStep, Zenon
<1>3. ASSUME NEW c \in Calls, NEW bundle \in Bundles, MoveAnchor(c, bundle)
      PROVE  LightInv'
  <2>1. UNCHANGED <<ledger, answers, evidence>>
    BY <1>3, Zenon DEF MoveAnchor
  <2>2. \A d \in Calls : call'[d] = call[d] \/ call'[d] = NoCall
    BY <1>3 DEF MoveAnchor
  <2>3. Authorised(citizen')
    <3>1. CASE ~VerifyObjectBundle(bundle, call[c])
      BY <1>3, <3>1, Zenon DEF MoveAnchor, LightInv
    <3>2. CASE VerifyObjectBundle(bundle, call[c])
      <4>1. citizen' = bundle.next
        BY <1>3, <3>2, Zenon DEF MoveAnchor
      <4>2. Authorised(call[c])
        BY <1>3, Zenon DEF MoveAnchor, LightInv
      <4>3. call[c] # OtherSet
        BY <4>2, LightAssumption, Zenon DEF LightInv, Authorised, LightAssumption
      <4>4. bundle \in {ledger[i] : i \in 1..Len(ledger)}
        BY <3>2, <4>3 DEF Bundles, VerifyObjectBundle
      <4> QED
        BY <4>1, <4>4, Zenon DEF Authorised
    <3> QED
      BY <3>1, <3>2, Zenon
  <2>4. \A d \in Calls : call'[d] = NoCall \/ Authorised(call'[d])
    BY <2>2, Zenon DEF LightInv
  <2> QED
    BY <2>1, <2>3, <2>4, AnchorStep, Zenon
<1>4. ASSUME NEW key, NEW challenge, AnswerChallenge(key, challenge)
      PROVE  LightInv'
  <2>1. UNCHANGED <<ledger, citizen, call, evidence>> /\ answers \subseteq answers'
    BY <1>4, Zenon DEF AnswerChallenge
  <2>2. /\ \A set : Authorised(set) => Authorised(set)'
        /\ \A e : Shown(e) => Shown(e)'
    BY <1>0, <2>1, FactsPersist, Zenon
  <2> QED
    BY <2>1, <2>2 DEF LightInv, Authorised
<1>5. ASSUME NEW bundle \in Bundles, NEW answer \in answers, AcceptEvidence(bundle, answer)
      PROVE  LightInv'
  <2> DEFINE e == [object |-> bundle.credential.object, sequence |-> bundle.credential.sequence,
                   height |-> bundle.height, capabilities |-> answer.challenge.capabilities,
                   challenge |-> answer.challenge]
  <2>1. UNCHANGED <<ledger, citizen, call, answers>> /\ evidence' = evidence \cup {e}
    BY <1>5, Zenon DEF AcceptEvidence
  <2>2. VerifyObjectBundle(bundle, citizen) /\ VerifyDeviceChallenge(bundle, answer)
    BY <1>5, Zenon DEF AcceptEvidence
  <2>3. citizen # OtherSet
    BY LightAssumption DEF LightInv, Authorised, LightAssumption
  <2>4. PICK i \in 1..Len(ledger) : bundle = ledger[i]
    BY <2>2, <2>3 DEF Bundles, VerifyObjectBundle
  <2>5. bundle.height = i
    BY <2>4, Zenon DEF LightInv
  <2>6. Shown(e)
    <3>1. /\ e.height = i /\ e.object = bundle.credential.object
          /\ e.sequence = bundle.credential.sequence
          /\ e.capabilities = answer.challenge.capabilities
      BY <2>5, Zenon
    <3> HIDE DEF e
    <3> QED
      BY <2>2, <2>4, <2>5, <3>1, Zenon DEF Shown, VerifyDeviceChallenge,
         ParseVerifiedDeviceCredential, VerifyChallenge, ActiveAt
  <2> HIDE DEF e
  <2> QED
    <3>1. \A d : Shown(d) => Shown(d)'
      BY <2>1, Zenon DEF Shown
    <3>2. \A d \in evidence' : Shown(d)'
      BY <2>1, <2>6, <3>1, Zenon DEF LightInv
    <3> QED
      BY <2>1, <3>2, Zenon DEF LightInv, Authorised
<1>6. CASE UNCHANGED lightVars
  <2>1. UNCHANGED <<ledger, citizen, call, answers, evidence>>
    BY <1>6, Zenon DEF lightVars
  <2>2. /\ Authorised(citizen')
        /\ \A d \in Calls : call'[d] = NoCall \/ Authorised(call'[d])
    BY <2>1, Zenon DEF LightInv
  <2> QED
    BY <2>1, <2>2, AnchorStep, Zenon
<1> QED
  BY <1>1, <1>2, <1>3, <1>4, <1>5, <1>6, Zenon DEF LightNext

(* The anchor of CitizenNode is a set the chain authorised, although       *)
(* VerifyObjectBundle writes it without having kept the lock, and what     *)
(* VerifyDeviceChallengeBundleJSON accepts is true of the finalized block  *)
(* it names.                                                               *)
THEOREM CitizenSeesFinalizedHolds == LightSpec => []CitizenSeesFinalized
<1>1. LightInv => CitizenSeesFinalized
  BY Zenon DEF LightInv, CitizenSeesFinalized, Authorised, Shown
<1> QED
  BY LightInitial, LightStep, <1>1, PTL DEF LightSpec

-----------------------------------------------------------------------------
(* Module WitnessFloor.                                                    *)
(* The floors one process returns never go back, for any number of         *)
(* concurrent calls, sources and published bundles.                        *)

FloorCheckpoint == [height : Nat, hash : {cp.hash : cp \in Floors} \cup {"none"}]

(* A call that has heard from a source holds a valid checkpoint; the floor *)
(* kept under the lock is at or above everything returned, and it is only  *)
(* unset while nothing has been returned.                                  *)
FloorInv ==
    /\ published \subseteq FloorCheckpoint
    /\ reader \in [Readers -> [asked : Nat, agreed : FloorCheckpoint]]
    /\ \A r \in Readers : reader[r].asked > 0 => reader[r].agreed.height > 0
    /\ floor \in FloorCheckpoint
    /\ returned \in Seq(FloorCheckpoint)
    /\ floor = NoCheckpoint => returned = <<>>
    /\ \A i \in 1..Len(returned) :
         returned[i].height < floor.height \/ returned[i] = floor
    /\ FloorMonotone

Call == [asked : Nat, agreed : FloorCheckpoint]

\* A call that waits has a known shape and has asked nobody yet.
LEMMA WaitingType == NoCheckpoint \in FloorCheckpoint /\ Waiting \in Call /\ Waiting.asked = 0
<1>2. NoCheckpoint \in FloorCheckpoint
  BY SMT DEF NoCheckpoint, FloorCheckpoint
<1>3. 0 \in Nat
  BY SMT
<1> QED
  BY <1>2, <1>3, Zenon DEF Waiting, Asking, Call

\* The floor is consistent before any witness has answered.
LEMMA FloorInitial == FloorInit => FloorInv
<1> SUFFICES ASSUME FloorInit
             PROVE  FloorInv
  BY Zenon
<1>1. /\ reader \in [Readers -> Call]
      /\ \A r \in Readers : reader[r].asked > 0 => reader[r].agreed.height > 0
  BY WaitingType, SMT DEF FloorInit
<1>2. Len(returned) = 0 /\ returned \in Seq(FloorCheckpoint) /\ 1..Len(returned) = {}
  BY SMT DEF FloorInit
<1> QED
  BY <1>1, <1>2, WaitingType, Zenon DEF FloorInit, FloorInv, FloorMonotone, Call

\* Every step of the floor protocol keeps its invariant.
LEMMA FloorStep == FloorInv /\ [FloorNext]_floorVars => FloorInv'
<1> SUFFICES ASSUME FloorInv, [FloorNext]_floorVars
             PROVE  FloorInv'
  BY Zenon
<1> USE FloorAssumption DEF FloorAssumption
<1>1. ASSUME NEW cp \in Floors, Publish(cp)
      PROVE  FloorInv'
  <2>1. published' \subseteq FloorCheckpoint
    BY <1>1 DEF FloorInv, Publish, FloorCheckpoint
  <2>2. UNCHANGED <<reader, floor, returned>>
    BY <1>1, Zenon DEF Publish
  <2> QED
    BY <2>1, <2>2 DEF FloorInv, FloorMonotone
<1>2. ASSUME NEW r \in Readers, NEW cp \in published \cup {NoCheckpoint}, AskSource(r, cp)
      PROVE  FloorInv'
  <2>1. cp \in FloorCheckpoint
    BY WaitingType, Zenon DEF FloorInv
  <2>2. /\ reader' \in [Readers -> [asked : Nat, agreed : FloorCheckpoint]]
        /\ \A q \in Readers : reader'[q].asked > 0 => reader'[q].agreed.height > 0
    <3> DEFINE asking == Asking(reader[r].asked + 1, cp)
    <3>1. reader[r] \in Call
      BY Zenon DEF FloorInv, Call
    <3>2. asking \in Call /\ asking.agreed = cp
      BY <2>1, <3>1, SMT DEF Asking, Call
    <3> HIDE DEF asking
    <3>3. PICK x \in Call : /\ reader' = [reader EXCEPT ![r] = x]
                            /\ (x = asking /\ cp.height > 0) \/ x = Waiting
      BY <1>2, <3>2, WaitingType, Zenon DEF AskSource, ValidCheckpoint, asking
    <3>4. x.asked > 0 => x.agreed.height > 0
      BY <3>2, <3>3, WaitingType, SMT
    <3> QED
      BY <3>3, <3>4, Zenon DEF FloorInv, Call
  <2>3. UNCHANGED <<published, floor, returned>>
    BY <1>2, Zenon DEF AskSource
  <2> QED
    BY <2>2, <2>3 DEF FloorInv, FloorMonotone
<1>3. ASSUME NEW r \in Readers, ReturnFloor(r)
      PROVE  FloorInv'
  <2> DEFINE agreed == reader[r].agreed
             passes == NotBelow(agreed, floor)
  <2>1. agreed \in FloorCheckpoint /\ agreed.height > 0 /\ agreed # NoCheckpoint
    BY <1>3, SMT DEF FloorInv, ReturnFloor, NoCheckpoint, FloorCheckpoint
  <2>2. /\ reader' \in [Readers -> [asked : Nat, agreed : FloorCheckpoint]]
        /\ \A q \in Readers : reader'[q].asked > 0 => reader'[q].agreed.height > 0
        /\ published' = published
    <3>1. reader' = [reader EXCEPT ![r] = Waiting] /\ published' = published
      BY <1>3, Zenon DEF ReturnFloor
    <3>2. ~(Waiting.asked > 0)
      BY WaitingType, SMT
    <3> QED
      BY <3>1, <3>2, WaitingType, Zenon DEF FloorInv, Call
  <2>3. CASE ~passes
    <3>1. floor' = floor /\ returned' = returned
      BY <1>3, <2>3, Zenon DEF ReturnFloor
    <3> QED
      BY <2>2, <3>1 DEF FloorInv, FloorMonotone
  <2>4. CASE passes
    <3>1. floor' = agreed
      BY <1>3, <2>4, Zenon DEF ReturnFloor
    <3>2. \A i \in 1..Len(returned) :
            returned[i].height < agreed.height \/ returned[i] = agreed
      <4> SUFFICES ASSUME NEW i \in 1..Len(returned)
                   PROVE  returned[i].height < agreed.height \/ returned[i] = agreed
        BY Zenon
      <4>1. returned[i] \in FloorCheckpoint
        BY DEF FloorInv
      <4>2. floor # NoCheckpoint
        BY DEF FloorInv
      <4>3. agreed.height > floor.height \/ agreed = floor
        BY <2>4, <4>2, Zenon DEF NotBelow
      <4>4. returned[i].height < floor.height \/ returned[i] = floor
        BY Zenon DEF FloorInv
      <4> QED
        BY <2>1, <4>1, <4>3, <4>4, SMT DEF FloorInv, FloorCheckpoint
    <3>3. CASE returned' = returned
      BY <2>1, <2>2, <3>1, <3>2, <3>3 DEF FloorInv, FloorMonotone
    <3>4. CASE returned' = Append(returned, agreed)
      <4>1. /\ returned' \in Seq(FloorCheckpoint)
            /\ Len(returned') = Len(returned) + 1
            /\ \A i \in 1..Len(returned) : returned'[i] = returned[i]
            /\ returned'[Len(returned) + 1] = agreed
        BY <2>1, <3>4, SMT DEF FloorInv
      <4>2. \A i \in 1..Len(returned') :
              returned'[i].height < floor'.height \/ returned'[i] = floor'
        BY <3>1, <3>2, <4>1, SMT DEF FloorInv
      <4>3. FloorMonotone'
        <5> SUFFICES ASSUME NEW i \in 1..Len(returned'), NEW j \in 1..Len(returned'), i < j
                     PROVE  \/ returned'[i].height < returned'[j].height
                            \/ returned'[i] = returned'[j]
          BY Zenon DEF FloorMonotone
        <5>1. Len(returned) \in Nat
          BY DEF FloorInv
        <5>2. i \in 1..Len(returned) /\ (j \in 1..Len(returned) \/ j = Len(returned) + 1)
          BY <4>1, <5>1, SMT
        <5> QED
          BY <3>2, <4>1, <5>2, Zenon DEF FloorInv, FloorMonotone
      <4> QED
        BY <2>1, <2>2, <3>1, <4>1, <4>2, <4>3, Zenon DEF FloorInv
    <3> QED
      BY <1>3, <3>3, <3>4, Zenon DEF ReturnFloor
  <2> QED
    BY <2>3, <2>4, Zenon
<1>4. ASSUME RestartFloor
      PROVE  FloorInv'
  <2>1. /\ reader' = [r \in Readers |-> Waiting] /\ floor' = NoCheckpoint
        /\ returned' = <<>> /\ published' = published
    BY <1>4, Zenon DEF RestartFloor
  <2>2. /\ reader' \in [Readers -> Call]
        /\ \A r \in Readers : reader'[r].asked > 0 => reader'[r].agreed.height > 0
    BY <2>1, WaitingType, SMT
  <2>3. Len(returned') = 0 /\ returned' \in Seq(FloorCheckpoint) /\ 1..Len(returned') = {}
    BY <2>1, SMT
  <2> QED
    BY <2>1, <2>2, <2>3, WaitingType, Zenon DEF FloorInv, FloorMonotone, Call
<1>5. CASE UNCHANGED floorVars
  BY <1>5 DEF FloorInv, FloorMonotone, floorVars
<1> QED
  BY <1>1, <1>2, <1>3, <1>4, <1>5, Zenon DEF FloorNext

(* MultiSourceWitnessFloor returns ever higher floors, or the same one:    *)
(* however many calls overlap, however many publishers are asked and       *)
(* whatever bundles they fall back to.                                     *)
THEOREM FloorMonotoneHolds == FloorSpec => []FloorMonotone
<1>1. FloorInv => FloorMonotone
  BY Zenon DEF FloorInv
<1> QED
  BY FloorInitial, FloorStep, <1>1, PTL DEF FloorSpec
=============================================================================
