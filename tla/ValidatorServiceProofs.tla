----------------------- MODULE ValidatorServiceProofs -----------------------
(***************************************************************************)
(* Quorums of the weighted validator set overlap; a guarded validator      *)
(* votes once per height; the committed chains agree and are valid.        *)
(***************************************************************************)
EXTENDS ValidatorService, FiniteSetTheorems, SequenceTheorems, TLAPS

-----------------------------------------------------------------------------
(* Voting power.                                                           *)

\* QuorumPower is more than two thirds of the total and can be reached.
LEMMA QuorumPowerBounds ==
    ASSUME NEW total \in Nat, total > 0
    PROVE  /\ QuorumPower(total) \in Nat
           /\ 3 * QuorumPower(total) > 2 * total
           /\ QuorumPower(total) <= total
<1> DEFINE q == total \div 3
           r == total % 3
<1>1. /\ q \in Nat /\ r \in 0 .. 2
      /\ total = 3 * q + r
  BY SMT
<1>2. CASE r = 0
  BY <1>1, <1>2, SMT DEF QuorumPower
<1>3. CASE r = 1
  BY <1>1, <1>3, SMT DEF QuorumPower
<1>4. CASE r = 2
  BY <1>1, <1>4, SMT DEF QuorumPower
<1> QED
  BY <1>1, <1>2, <1>3, <1>4, SMT

\* Units of power are finitely many, and they split as the voters do.
LEMMA UnitsOfPower ==
    ASSUME NEW S, NEW T, S \subseteq Validators, T \subseteq Validators
    PROVE  /\ IsFiniteSet(Units(S))
           /\ PowerOf(S) \in Nat
           /\ Units(S \cup T) = Units(S) \cup Units(T)
           /\ Units(S \cap T) = Units(S) \cap Units(T)
           /\ Units(S) \subseteq Units(Validators)
<1>1. IsFiniteSet(S)
  BY PowerAssumption, FS_Subset, Zenon DEF PowerAssumption
<1>2. MaxPower \in Nat
  BY PowerAssumption, Zenon DEF PowerAssumption
<1>3. IsFiniteSet(1 .. MaxPower)
  BY <1>2, FS_Interval
<1>4. IsFiniteSet(S \X (1 .. MaxPower))
  BY <1>1, <1>3, FS_Product, Zenon
<1>5. IsFiniteSet(Units(S))
  BY <1>4, FS_Subset, Zenon DEF Units
<1>6. PowerOf(S) \in Nat
  BY <1>5, FS_CardinalityType, Zenon DEF PowerOf
<1>7. Units(S \cup T) = Units(S) \cup Units(T)
  BY Zenon DEF Units
<1>8. Units(S \cap T) = Units(S) \cap Units(T)
  BY Zenon DEF Units
<1>9. Units(S) \subseteq Units(Validators)
  BY Zenon DEF Units
<1> QED
  BY <1>5, <1>6, <1>7, <1>8, <1>9, Zenon

\* VerifyCertificate counts distinct voters: any two certificates share voters
\* with more than a third of the total power.
THEOREM QuorumOverlap ==
    ASSUME NEW S, NEW T, S \subseteq Validators, T \subseteq Validators,
           IsQuorum(S), IsQuorum(T)
    PROVE  /\ 3 * PowerOf(S \cap T) > TotalPower
           /\ S \cap T # {}
<1>1. /\ IsFiniteSet(Units(S)) /\ IsFiniteSet(Units(T))
      /\ PowerOf(S) \in Nat /\ PowerOf(T) \in Nat
      /\ PowerOf(S \cap T) \in Nat /\ PowerOf(S \cup T) \in Nat
      /\ TotalPower \in Nat
      /\ IsFiniteSet(Units(Validators))
  BY UnitsOfPower, Zenon DEF TotalPower
<1>2. PowerOf(S \cup T) = PowerOf(S) + PowerOf(T) - PowerOf(S \cap T)
  BY <1>1, UnitsOfPower, FS_Union DEF PowerOf
<1>3. PowerOf(S \cup T) <= TotalPower
  <2>1. Units(S \cup T) \subseteq Units(Validators)
    BY UnitsOfPower, Zenon
  <2> QED
    BY <2>1, <1>1, FS_Subset, Zenon DEF PowerOf, TotalPower
<1>4. TotalPower > 0
  <2>1. PICK v \in Validators : TRUE
    BY PowerAssumption, Zenon DEF PowerAssumption
  <2>2. <<v, 1>> \in Units(Validators)
    BY <2>1, PowerAssumption DEF PowerAssumption, Units
  <2> QED
    BY <2>2, <1>1, FS_EmptySet DEF TotalPower, PowerOf
<1>5. 3 * QuorumPower(TotalPower) > 2 * TotalPower /\ QuorumPower(TotalPower) \in Nat
  BY <1>1, <1>4, QuorumPowerBounds, Zenon
<1>6. 3 * PowerOf(S \cap T) > TotalPower
  BY <1>1, <1>2, <1>3, <1>5 DEF IsQuorum
<1>7. S \cap T # {}
  <2>1. SUFFICES ASSUME S \cap T = {} PROVE FALSE
    BY Zenon
  <2>2. Units({}) = {}
    BY Zenon DEF Units
  <2>3. PowerOf(S \cap T) = 0
    BY <2>1, <2>2, FS_EmptySet, Zenon DEF PowerOf
  <2> QED
    BY <2>3, <1>6, <1>1
<1> QED
  BY <1>6, <1>7, Zenon

-----------------------------------------------------------------------------
(* Headers.                                                                *)

\* A header and its parent.
LEMMA ParentOf ==
    ASSUME NEW B, NEW x \in Seq(B), Len(x) > 0
    PROVE  /\ Parent(x) \in Seq(B) /\ Len(Parent(x)) = Len(x) - 1
           /\ Block(x) \in B
           /\ SubSeq(x, 1, Len(x)) = x
           /\ \A h \in 1 .. Len(x) - 1 : x[h] = Parent(x)[h]
           /\ \A h \in 0 .. Len(x) - 1 : SubSeq(x, 1, h) = SubSeq(Parent(x), 1, h)
<1>1. Len(x) \in Nat /\ \A i \in 1 .. Len(x) : x[i] \in B
  OBVIOUS
<1>2. /\ Parent(x) \in Seq(B) /\ Len(Parent(x)) = Len(x) - 1
      /\ \A i \in 1 .. Len(x) - 1 : Parent(x)[i] = x[i]
  <2> DEFINE n == Len(x) - 1
  <2>1. n \in Int /\ n >= 0 /\ \A i \in 1 .. n : x[i] \in B
    BY <1>1
  <2> HIDE DEF n
  <2>2. /\ SubSeq(x, 1, n) \in Seq(B)
        /\ Len(SubSeq(x, 1, n)) = IF 1 <= n THEN n - 1 + 1 ELSE 0
        /\ \A i \in 1 .. n - 1 + 1 : SubSeq(x, 1, n)[i] = x[1 + i - 1]
    BY <2>1, SubSeqProperties
  <2>3. /\ Len(SubSeq(x, 1, n)) = n
        /\ \A i \in 1 .. n : SubSeq(x, 1, n)[i] = x[i]
    BY <2>1, <2>2
  <2> QED
    BY <2>2, <2>3, Zenon DEF Parent, n
<1>3. Block(x) \in B
  BY <1>1 DEF Block
<1>4. SubSeq(x, 1, Len(x)) = x
  BY SubSeqFull, Zenon
<1>5. ASSUME NEW h \in 0 .. Len(x) - 1
      PROVE  SubSeq(x, 1, h) = SubSeq(Parent(x), 1, h)
  BY <1>1, <1>2, <1>5
<1> QED
  BY <1>2, <1>3, <1>4, <1>5, Zenon

\* The header that Propose builds.
LEMMA NextHeader ==
    ASSUME NEW B, NEW x \in Seq(B), NEW b \in B
    PROVE  /\ Append(x, b) \in Seq(B) /\ Len(Append(x, b)) = Len(x) + 1
           /\ Parent(Append(x, b)) = x /\ Block(Append(x, b)) = b
<1> DEFINE y == Append(x, b)
<1>1. /\ y \in Seq(B) /\ Len(y) = Len(x) + 1 /\ Len(x) \in Nat
      /\ y[Len(y)] = b /\ \A i \in 1 .. Len(x) : y[i] = x[i]
  BY AppendProperties
<1> HIDE DEF y
<1>2. /\ Parent(y) \in Seq(B) /\ Len(Parent(y)) = Len(x)
      /\ \A i \in 1 .. Len(x) : Parent(y)[i] = x[i]
  <2>1. y \in Seq(B) /\ Len(y) > 0 /\ Len(y) - 1 = Len(x)
    BY <1>1
  <2>2. /\ Parent(y) \in Seq(B) /\ Len(Parent(y)) = Len(y) - 1
        /\ \A h \in 1 .. Len(y) - 1 : y[h] = Parent(y)[h]
    BY <2>1, ParentOf, Zenon
  <2> QED
    BY <2>1, <2>2, <1>1, Zenon
<1>3. Parent(y) = x
  BY <1>2
<1> QED
  BY <1>1, <1>3, Zenon DEF Block, y

-----------------------------------------------------------------------------
(* The inductive invariant.                                                *)

\* A certificate can exist: of a quorum, all but the faulty have voted for it.
Certified(x) ==
    \E Q \in SUBSET Validators : IsQuorum(Q) /\ \A w \in Q \ Faulty : x \in cast[w]

\* Votes survive: in the journal, or in memory when nothing ever crashes.
Protected == Guarded \/ MaxFaults = 0

\* Without crashes the vote map forgets settled heights only.
Remembered ==
    MaxFaults = 0 =>
        \A v \in Validators : \A x \in cast[v] :
            Len(x) > Len(chain[v]) => x \in votes[v]

VotesWereCast == \A v \in Validators : votes[v] \subseteq cast[v]

\* What Propose holds while the service is unlocked.
FlightInv ==
    \A v \in Validators :
        /\ \A w \in flight[v].votes \ Faulty : flight[v].header \in cast[w]
        /\ flight[v] # None =>
             /\ Len(flight[v].header) > 0
             /\ Builds(Parent(flight[v].header), Block(flight[v].header))

CommitsCertified == \A x \in commits : Certified(x)

ChainCertified ==
    \A v \in Validators : \A h \in 1 .. Len(chain[v]) :
        Certified(SubSeq(chain[v], 1, h))

IInv ==
    /\ TypeOK
    /\ JournalCoversVotes
    /\ Remembered
    /\ VotesWereCast
    /\ Protected => VoteOnce
    /\ FlightInv
    /\ CommitsCertified
    /\ ChainCertified
    /\ ChainIsValid
    /\ PoolBuilds

\* The state after Init.
LEMMA InitInv == Init => IInv
<1> SUFFICES ASSUME Init PROVE IInv
  BY Zenon
<1>1. <<>> \in Headers
  BY DEF Headers
<1>2. TypeOK
  BY <1>1, ServiceAssumption DEF Init, TypeOK, None, ServiceAssumption
<1>3. JournalCoversVotes /\ Remembered /\ VotesWereCast /\ VoteOnce
  BY Zenon DEF Init, JournalCoversVotes, Remembered, VotesWereCast, VoteOnce
<1>4. FlightInv /\ CommitsCertified
  BY Zenon DEF Init, FlightInv, CommitsCertified, None
<1>5. ChainCertified /\ ChainIsValid
  BY DEF Init, ChainCertified, ChainIsValid
<1>6. PoolBuilds
  BY Zenon DEF Init, PoolBuilds, Builds
<1> QED
  BY <1>2, <1>3, <1>4, <1>5, <1>6, Zenon DEF IInv

\* A vote that exists stays: certificates are not lost.
LEMMA CertifiedStays ==
    ASSUME NEW x, Certified(x), \A v \in Validators : cast[v] \subseteq cast'[v]
    PROVE  Certified(x)'
  BY Zenon DEF Certified, IsQuorum, PowerOf, TotalPower, Units, QuorumPower

\* signVoteLocked with its guard: the new vote is for the next height of the
\* voter and conflicts with none of its earlier ones.
LEMMA SigningInv ==
    ASSUME IInv, NEW v \in Validators, NEW header \in Headers,
           Len(header) = Len(chain[v]) + 1,
           SignVote(v, header),
           chain' = chain,
           \/ Guarded /\ Authorizes(v, header) /\ journal' = [journal EXCEPT ![v] = header]
           \/ Guarded /\ header \in votes[v] /\ journal' = journal
           \/ ~Guarded /\ journal' = journal
    PROVE  /\ JournalCoversVotes' /\ Remembered' /\ VotesWereCast'
           /\ (Protected => VoteOnce)'
           /\ votes' \in [Validators -> SUBSET Headers]
           /\ cast' \in [Validators -> SUBSET Headers]
           /\ \A w \in Validators : cast[w] \subseteq cast'[w]
           /\ header \in cast'[v]
<1>1. /\ votes \in [Validators -> SUBSET Headers]
      /\ cast \in [Validators -> SUBSET Headers]
      /\ journal \in [Validators -> Headers]
      /\ chain \in [Validators -> Headers]
  BY Zenon DEF IInv, TypeOK
<1>2. /\ votes' = [votes EXCEPT ![v] = @ \cup {header}]
      /\ cast' = [cast EXCEPT ![v] = @ \cup {header}]
      /\ MayVote(v, header)
  BY Zenon DEF SignVote
<1>3. \A x \in Headers : Len(x) \in Nat
  BY DEF Headers
<1>4. JournalCoversVotes'
  BY <1>1, <1>2, <1>3 DEF IInv, JournalCoversVotes, VotesWereCast, Authorizes
<1>5. Remembered'
  BY <1>1, <1>2, <1>3, Zenon DEF IInv, Remembered
<1>6. VotesWereCast'
  BY <1>1, <1>2, Zenon DEF IInv, VotesWereCast
<1>7. ASSUME Protected, NEW x \in cast[v], Len(x) = Len(header)
      PROVE  x = header
  <2>1. CASE header \in votes[v]
    BY <2>1, <1>7, <1>1, Zenon DEF IInv, VotesWereCast, VoteOnce
  <2>2. CASE header \notin votes[v] /\ Guarded
    BY <2>2, <1>1, <1>2, <1>3, <1>7 DEF IInv, JournalCoversVotes, MayVote, Authorizes
  <2>3. CASE ~Guarded
    BY <2>3, <1>1, <1>2, <1>3, <1>7 DEF IInv, Protected, Remembered, MayVote
  <2> QED
    BY <2>1, <2>2, <2>3, Zenon
<1>8. (Protected => VoteOnce)'
  BY <1>1, <1>2, <1>7, Zenon DEF IInv, VoteOnce, Protected
<1>9. /\ votes' \in [Validators -> SUBSET Headers]
      /\ cast' \in [Validators -> SUBSET Headers]
      /\ \A w \in Validators : cast[w] \subseteq cast'[w]
      /\ header \in cast'[v]
  BY <1>1, <1>2, Zenon
<1> QED
  BY <1>4, <1>5, <1>6, <1>8, <1>9, Zenon

\* Commit and clearCommittedStateLocked, for a certified header that extends
\* the chain with a block that builds.
LEMMA CommitInv ==
    ASSUME IInv, NEW v \in Validators, NEW header \in Headers,
           Len(header) > 0, Parent(header) = chain[v],
           Builds(chain[v], Block(header)), Certified(header),
           CommitHeader(v, header), cast' = cast
    PROVE  /\ chain' \in [Validators -> Headers]
           /\ pool' \in [Validators -> SUBSET Txs]
           /\ imports' \in [Validators -> [Outbound -> Nat]]
           /\ votes' \in [Validators -> SUBSET Headers]
           /\ Remembered' /\ VotesWereCast'
           /\ ChainCertified' /\ ChainIsValid' /\ PoolBuilds'
<1>1. /\ chain \in [Validators -> Headers] /\ pool \in [Validators -> SUBSET Txs]
      /\ imports \in [Validators -> [Outbound -> Nat]]
      /\ votes \in [Validators -> SUBSET Headers]
      /\ cast \in [Validators -> SUBSET Headers]
  BY Zenon DEF IInv, TypeOK
<1>2. /\ chain' = [chain EXCEPT ![v] = header]
      /\ pool' = [pool EXCEPT ![v] = {}]
      /\ imports' \in {imports, [imports EXCEPT ![v] = [r \in Outbound |-> 0]]}
      /\ votes' = [votes EXCEPT ![v] = {w \in @ : Len(w) > Len(header)}]
  BY Zenon DEF CommitHeader, ClearPool, ClearImports
<1>3. \A x \in Headers : Len(x) \in Nat
  BY DEF Headers
<1>4. /\ Len(header) \in Nat /\ Len(chain[v]) = Len(header) - 1
      /\ SubSeq(header, 1, Len(header)) = header
      /\ \A h \in 1 .. Len(header) - 1 : header[h] = chain[v][h]
      /\ \A h \in 0 .. Len(header) - 1 : SubSeq(header, 1, h) = SubSeq(chain[v], 1, h)
  BY <1>3, ParentOf DEF Headers
<1>heights. Len(header) \in Nat /\ Len(chain[v]) \in Nat /\ Len(header) = Len(chain[v]) + 1
  <2>1. Len(header) \in Nat /\ Len(chain[v]) = Len(header) - 1
    BY <1>4, Zenon
  <2>2. chain[v] \in Headers
    BY <1>1, Zenon
  <2> QED
    BY <2>1, <2>2, <1>3
<1>5. /\ chain' \in [Validators -> Headers]
      /\ pool' \in [Validators -> SUBSET Txs]
      /\ votes' \in [Validators -> SUBSET Headers]
  BY <1>1, <1>2, Zenon
<1>6. imports' \in [Validators -> [Outbound -> Nat]]
  <2>1. [r \in Outbound |-> 0] \in [Outbound -> Nat]
    BY Zenon
  <2>2. CASE imports' = imports
    BY <2>2, <1>1, Zenon
  <2>3. CASE imports' = [imports EXCEPT ![v] = [r \in Outbound |-> 0]]
    BY <2>1, <2>3, <1>1, Zenon
  <2> QED
    BY <2>2, <2>3, <1>2, Zenon
<1>7. Remembered'
  <2>1. ASSUME MaxFaults = 0, NEW w \in Validators, NEW x \in cast[w],
               Len(x) > Len(chain'[w])
        PROVE  x \in votes'[w]
    <3>1. x \in Headers /\ Len(x) \in Nat
      BY <1>1, <1>3, Zenon
    <3>2. CASE w # v
      BY <3>2, <2>1, <1>1, <1>2, Zenon DEF IInv, Remembered
    <3>3. CASE w = v
      <4>1. chain'[w] = header
        BY <3>3, <1>1, <1>2, Zenon
      <4>2. Len(x) > Len(header) /\ Len(x) > Len(chain[v])
        BY <4>1, <3>1, <2>1, <1>heights
      <4>3. x \in votes[v]
        BY <4>2, <3>3, <2>1, Zenon DEF IInv, Remembered
      <4> QED
        BY <4>2, <4>3, <3>3, <1>1, <1>2, Zenon
    <3> QED
      BY <3>2, <3>3, Zenon
  <2> QED
    BY <2>1, Zenon DEF Remembered
<1>8. VotesWereCast'
  BY <1>1, <1>2, Zenon DEF IInv, VotesWereCast
<1>9. ChainCertified'
  <2>1. ASSUME NEW w \in Validators, NEW h \in 1 .. Len(chain'[w])
        PROVE  Certified(SubSeq(chain'[w], 1, h))
    <3>1. CASE w # v
      BY <3>1, <1>1, <1>2, Zenon DEF IInv, ChainCertified
    <3>2. CASE w = v /\ h = Len(header)
      BY <3>2, <1>1, <1>2, <1>4, Zenon
    <3>3. CASE w = v /\ h # Len(header)
      <4>0. chain'[w] = header
        BY <3>3, <1>1, <1>2, Zenon
      <4>1. h \in 1 .. Len(chain[v]) /\ h \in 0 .. Len(header) - 1
        BY <4>0, <3>3, <1>heights
      <4>2. SubSeq(chain'[w], 1, h) = SubSeq(chain[v], 1, h)
        BY <4>0, <4>1, <1>4, Zenon
      <4> QED
        BY <4>1, <4>2, Zenon DEF IInv, ChainCertified
    <3> QED
      BY <3>1, <3>2, <3>3, Zenon
  <2>2. \A x : Certified(x) => Certified(x)'
    BY CertifiedStays, Zenon
  <2> QED
    BY <2>1, <2>2, Zenon DEF ChainCertified
<1>10. ChainIsValid'
  <2>1. ASSUME NEW w \in Validators, NEW h \in 1 .. Len(chain'[w])
        PROVE  Builds(SubSeq(chain'[w], 1, h - 1), chain'[w][h])
    <3>1. CASE w # v
      BY <3>1, <1>1, <1>2, Zenon DEF IInv, ChainIsValid
    <3>2. CASE w = v /\ h = Len(header)
      <4>1. SubSeq(chain'[w], 1, h - 1) = chain[v] /\ chain'[w][h] = Block(header)
        BY <3>2, <1>1, <1>2, Zenon DEF Parent, Block
      <4> QED
        BY <4>1, Zenon
    <3>3. CASE w = v /\ h # Len(header)
      <4>0. chain'[w] = header
        BY <3>3, <1>1, <1>2, Zenon
      <4>1. /\ h \in 1 .. Len(chain[v]) /\ h \in 1 .. Len(header) - 1
            /\ h - 1 \in 0 .. Len(header) - 1
        BY <4>0, <3>3, <1>heights
      <4>2. /\ SubSeq(chain'[w], 1, h - 1) = SubSeq(chain[v], 1, h - 1)
            /\ chain'[w][h] = chain[v][h]
        BY <4>0, <4>1, <1>4, Zenon
      <4> QED
        BY <4>1, <4>2, Zenon DEF IInv, ChainIsValid
    <3> QED
      BY <3>1, <3>2, <3>3, Zenon
  <2> QED
    BY <2>1, Zenon DEF ChainIsValid
<1>11. PoolBuilds'
  <2>1. ASSUME NEW w \in Validators
        PROVE  Builds(chain'[w], [txs |-> pool'[w], imports |-> {}])
    <3>1. CASE w # v
      BY <3>1, <1>1, <1>2, Zenon DEF IInv, PoolBuilds
    <3>2. CASE w = v
      BY <3>2, <1>1, <1>2, Zenon DEF Builds
    <3> QED
      BY <3>1, <3>2, Zenon
  <2> QED
    BY <2>1, Zenon DEF PoolBuilds
<1> QED
  BY <1>5, <1>6, <1>7, <1>8, <1>9, <1>10, <1>11, Zenon

\* A step that leaves chain, votes, flights and messages alone keeps what is
\* said about them.
LEMMA FrameInv ==
    ASSUME IInv, UNCHANGED <<chain, votes, cast, flight, commits>>
    PROVE  /\ Remembered' /\ VotesWereCast' /\ (Protected => VoteOnce)'
           /\ FlightInv' /\ CommitsCertified' /\ ChainCertified' /\ ChainIsValid'
<1>1. \A x : Certified(x) => Certified(x)'
  BY CertifiedStays, Zenon
<1>2. Remembered' /\ VotesWereCast' /\ (Protected => VoteOnce)'
  BY Zenon DEF IInv, Remembered, VotesWereCast, Protected, VoteOnce
<1>3. FlightInv'
  BY Zenon DEF IInv, FlightInv
<1>4. CommitsCertified' /\ ChainCertified'
  BY <1>1, Zenon DEF IInv, CommitsCertified, ChainCertified
<1>5. ChainIsValid'
  BY Zenon DEF IInv, ChainIsValid
<1> QED
  BY <1>2, <1>3, <1>4, <1>5, Zenon

\* Submit keeps the pool free of conflicts.
LEMMA SubmitInv ==
    ASSUME IInv, NEW v \in Validators, NEW t \in Txs, Submit(v, t)
    PROVE  IInv'
<1>1. UNCHANGED <<chain, votes, cast, flight, commits>> /\ UNCHANGED <<journal, poisoned, torn>>
  BY Zenon DEF Submit, guard, network
<1>2. TypeOK'
  BY Zenon DEF IInv, TypeOK, Submit, guard, network
<1>3. JournalCoversVotes'
  BY <1>1, Zenon DEF IInv, JournalCoversVotes
<1>4. PoolBuilds'
  <2>1. ASSUME NEW w \in Validators
        PROVE  Builds(chain[w], [txs |-> pool'[w], imports |-> {}])
    BY <2>1 DEF IInv, TypeOK, PoolBuilds, Builds, Submit
  <2> QED
    BY <2>1, <1>1, Zenon DEF PoolBuilds
<1> QED
  BY <1>1, <1>2, <1>3, <1>4, FrameInv, Zenon DEF IInv

\* QueueReceiptImport touches the queue only.
LEMMA QueueInv ==
    ASSUME IInv, NEW v \in Validators, NEW r \in Outbound, QueueReceiptImport(v, r)
    PROVE  IInv'
<1>1. /\ UNCHANGED <<chain, votes, cast, flight, commits>>
      /\ UNCHANGED <<journal, poisoned, torn>> /\ pool' = pool
  BY Zenon DEF QueueReceiptImport, guard, network
<1>2. TypeOK'
  BY DEF IInv, TypeOK, QueueReceiptImport, guard, network
<1>3. JournalCoversVotes' /\ PoolBuilds'
  BY <1>1, Zenon DEF IInv, JournalCoversVotes, PoolBuilds
<1> QED
  BY <1>1, <1>2, <1>3, FrameInv, Zenon DEF IInv

\* Authorize whose write fails: the journal may hold a vote never signed.
LEMMA PoisonInv ==
    ASSUME IInv, NEW v \in Validators, NEW header \in Headers,
           PoisonGuard(v, header), UNCHANGED <<service, chain, network, cast>>
    PROVE  IInv'
<1>1. /\ UNCHANGED <<chain, votes, cast, flight, commits>>
      /\ UNCHANGED <<up, pool, imports, proposals>>
  BY Zenon DEF service, network
<1>2. TypeOK'
  <2>1. faults' \in 0 .. MaxFaults
    BY ServiceAssumption DEF IInv, TypeOK, PoisonGuard, Fault, ServiceAssumption
  <2>2. poisoned' \in [Validators -> BOOLEAN] /\ torn' \in [Validators -> BOOLEAN]
    BY Zenon DEF IInv, TypeOK, PoisonGuard
  <2>3. journal' \in [Validators -> Headers]
    BY Zenon DEF IInv, TypeOK, PoisonGuard
  <2> QED
    BY <1>1, <2>1, <2>2, <2>3, Zenon DEF IInv, TypeOK
<1>3. JournalCoversVotes'
  <2>1. \A x \in Headers : Len(x) \in Nat
    BY DEF Headers
  <2>2. CASE journal' = journal
    BY <2>2, <1>1, Zenon DEF IInv, JournalCoversVotes
  <2>3. CASE journal' = [journal EXCEPT ![v] = header]
    <3>1. Len(header) > Len(journal[v]) \/ header = journal[v]
      BY Zenon DEF PoisonGuard, Authorizes
    <3> QED
      BY <3>1, <2>1, <2>3, <1>1 DEF IInv, TypeOK, JournalCoversVotes
  <2> QED
    BY <2>2, <2>3, Zenon DEF PoisonGuard
<1>4. PoolBuilds'
  BY <1>1, Zenon DEF IInv, PoolBuilds
<1> QED
  BY <1>1, <1>2, <1>3, <1>4, FrameInv, Zenon DEF IInv

\* Propose up to the unlock.
LEMMA StartProposeInv ==
    ASSUME IInv, NEW v \in Validators, StartPropose(v)
    PROVE  IInv'
<1> DEFINE header == Append(chain[v], Pending(v))
<1>1. Pending(v) \in Blocks /\ chain[v] \in Headers
  BY Zenon DEF IInv, TypeOK, Pending, Blocks, Headers
<1>2. /\ header \in Headers /\ Len(header) = Len(chain[v]) + 1 /\ Len(header) > 0
      /\ Parent(header) = chain[v] /\ Block(header) = Pending(v)
  BY <1>1, NextHeader DEF Headers
<1>3. Builds(chain[v], Pending(v))
  BY Zenon DEF StartPropose, PendingBuilds
<1> HIDE DEF header
<1>4. CASE /\ PoisonGuard(v, header)
           /\ UNCHANGED <<service, chain, network, cast>>
  BY <1>2, <1>4, PoisonInv, Zenon
<1>5. CASE /\ Guarded => Authorizes(v, header)
           /\ IF Guarded THEN RecordIntent(v, header) ELSE UNCHANGED guard
           /\ SignVote(v, header)
           /\ flight' = [flight EXCEPT ![v] = [header |-> header, votes |-> {v}]]
           /\ proposals' = proposals \cup {header}
           /\ UNCHANGED <<up, pool, imports, chain, commits, faults>>
  <2>1. /\ UNCHANGED <<poisoned, torn>>
        /\ \/ Guarded /\ Authorizes(v, header) /\ journal' = [journal EXCEPT ![v] = header]
           \/ ~Guarded /\ journal' = journal
    BY <1>5, Zenon DEF RecordIntent, guard
  <2>2. /\ JournalCoversVotes' /\ Remembered' /\ VotesWereCast'
        /\ (Protected => VoteOnce)'
        /\ votes' \in [Validators -> SUBSET Headers]
        /\ cast' \in [Validators -> SUBSET Headers]
        /\ \A w \in Validators : cast[w] \subseteq cast'[w]
        /\ header \in cast'[v]
    BY <2>1, <1>2, <1>5, SigningInv, Zenon
  <2>3. TypeOK'
    <3>1. journal' \in [Validators -> Headers]
      BY <2>1, <1>2, Zenon DEF IInv, TypeOK
    <3>2. flight' \in [Validators -> [header : Headers, votes : SUBSET Validators]]
      BY <1>2, <1>5, Zenon DEF IInv, TypeOK
    <3> QED
      BY <3>1, <3>2, <2>1, <2>2, <1>2, <1>5, Zenon DEF IInv, TypeOK
  <2>4. FlightInv'
    <3>1. ASSUME NEW q \in Validators
          PROVE  /\ \A w \in flight'[q].votes \ Faulty : flight'[q].header \in cast'[w]
                 /\ flight'[q] # None =>
                      /\ Len(flight'[q].header) > 0
                      /\ Builds(Parent(flight'[q].header), Block(flight'[q].header))
      <4>1. CASE q = v
        <5>1. flight'[q] = [header |-> header, votes |-> {v}]
          BY <4>1, <1>5, Zenon DEF IInv, TypeOK
        <5> QED
          BY <5>1, <2>2, <1>2, <1>3
      <4>2. CASE q # v
        <5>1. flight'[q] = flight[q] /\ flight[q].votes \subseteq Validators
          BY <4>2, <1>5, Zenon DEF IInv, TypeOK
        <5> QED
          BY <5>1, <2>2, Zenon DEF IInv, FlightInv
      <4> QED
        BY <4>1, <4>2, Zenon
    <3> QED
      BY <3>1, Zenon DEF FlightInv
  <2>5. \A x : Certified(x) => Certified(x)'
    BY <2>2, CertifiedStays, Zenon
  <2>6. CommitsCertified' /\ ChainCertified'
    BY <1>5, <2>5, Zenon DEF IInv, CommitsCertified, ChainCertified
  <2>7. ChainIsValid' /\ PoolBuilds'
    BY <1>5, Zenon DEF IInv, ChainIsValid, PoolBuilds
  <2> QED
    BY <2>2, <2>3, <2>4, <2>6, <2>7, Zenon DEF IInv
<1> QED
  BY <1>4, <1>5, Zenon DEF StartPropose, header

\* handleProposalLocked.
LEMMA HandleProposalInv ==
    ASSUME IInv, NEW v \in Validators, NEW header \in proposals,
           HandleProposal(v, header)
    PROVE  IInv'
<1> DEFINE p == Proposer(Len(header), 0)
<1>1. header \in Headers /\ Len(header) = Len(chain[v]) + 1
  BY Zenon DEF IInv, TypeOK, HandleProposal, IsNext
<1>2. CASE /\ PoisonGuard(v, header)
           /\ UNCHANGED <<service, chain, network, cast>>
  BY <1>1, <1>2, PoisonInv, Zenon
<1> HIDE DEF p
<1>3. CASE /\ SignVote(v, header)
           /\ IF Guarded /\ header \notin votes[v]
              THEN RecordIntent(v, header) ELSE UNCHANGED guard
           /\ \/ /\ flight[p].header = header
                 /\ flight' = [flight EXCEPT ![p] = [header |-> header,
                                                     votes |-> @.votes \cup {v}]]
              \/ UNCHANGED flight
           /\ UNCHANGED <<up, pool, imports, chain, network, faults>>
  <2>1. /\ UNCHANGED <<poisoned, torn>>
        /\ \/ Guarded /\ Authorizes(v, header) /\ journal' = [journal EXCEPT ![v] = header]
           \/ Guarded /\ header \in votes[v] /\ journal' = journal
           \/ ~Guarded /\ journal' = journal
    BY <1>3, Zenon DEF RecordIntent, guard, SignVote, MayVote
  <2>2. /\ JournalCoversVotes' /\ Remembered' /\ VotesWereCast'
        /\ (Protected => VoteOnce)'
        /\ votes' \in [Validators -> SUBSET Headers]
        /\ cast' \in [Validators -> SUBSET Headers]
        /\ \A w \in Validators : cast[w] \subseteq cast'[w]
        /\ header \in cast'[v]
    BY <2>1, <1>1, <1>3, SigningInv, Zenon
  <2>3. UNCHANGED <<proposals, commits>>
    BY <1>3, Zenon DEF network
  <2>4. TypeOK'
    <3>1. journal' \in [Validators -> Headers]
      BY <2>1, <1>1, Zenon DEF IInv, TypeOK
    <3>2. flight' \in [Validators -> [header : Headers, votes : SUBSET Validators]]
      <4>1. flight \in [Validators -> [header : Headers, votes : SUBSET Validators]]
        BY Zenon DEF IInv, TypeOK
      <4>2. CASE p \in Validators
        <5>1. [header |-> header, votes |-> flight[p].votes \cup {v}]
                \in [header : Headers, votes : SUBSET Validators]
          BY <4>1, <4>2, <1>1, Zenon
        <5> QED
          BY <5>1, <4>1, <1>3, Zenon
      <4>3. CASE p \notin Validators
        BY <4>1, <4>3, <1>3, Zenon
      <4> QED
        BY <4>2, <4>3, Zenon
    <3> QED
      BY <3>1, <3>2, <2>1, <2>2, <2>3, <1>3, Zenon DEF IInv, TypeOK
  <2>5. FlightInv'
    <3>1. ASSUME NEW q \in Validators
          PROVE  /\ \A w \in flight'[q].votes \ Faulty : flight'[q].header \in cast'[w]
                 /\ flight'[q] # None =>
                      /\ Len(flight'[q].header) > 0
                      /\ Builds(Parent(flight'[q].header), Block(flight'[q].header))
      <4>1. CASE flight'[q] = flight[q]
        <5>1. flight[q].votes \subseteq Validators
          BY Zenon DEF IInv, TypeOK
        <5> QED
          BY <5>1, <4>1, <2>2, Zenon DEF IInv, FlightInv
      <4>2. CASE flight'[q] # flight[q]
        <5>1. /\ flight[q].header = header /\ flight'[q].header = header
              /\ flight'[q].votes = flight[q].votes \cup {v}
              /\ flight[q].votes \subseteq Validators
          BY <4>2, <1>3 DEF IInv, TypeOK
        <5>2. flight[q] # None
          <6>1. Len(header) > 0
            BY <1>1 DEF IInv, TypeOK, Headers
          <6> QED
            BY <5>1, <6>1 DEF None
        <5> QED
          BY <5>1, <5>2, <2>2, Zenon DEF IInv, FlightInv
      <4> QED
        BY <4>1, <4>2, Zenon
    <3> QED
      BY <3>1, Zenon DEF FlightInv
  <2>6. \A x : Certified(x) => Certified(x)'
    BY <2>2, CertifiedStays, Zenon
  <2>7. CommitsCertified' /\ ChainCertified'
    BY <1>3, <2>3, <2>6, Zenon DEF IInv, CommitsCertified, ChainCertified
  <2>8. ChainIsValid' /\ PoolBuilds'
    BY <1>3, Zenon DEF IInv, ChainIsValid, PoolBuilds
  <2> QED
    BY <2>2, <2>4, <2>5, <2>7, <2>8, Zenon DEF IInv
<1> QED
  BY <1>2, <1>3, Zenon DEF HandleProposal, p

\* The rest of Propose: a quorum of the collected votes is a certificate.
LEMMA FinishProposeInv ==
    ASSUME IInv, NEW v \in Validators, FinishPropose(v)
    PROVE  IInv'
<1> DEFINE f == flight[v]
<1>1. /\ f # None /\ f \in [header : Headers, votes : SUBSET Validators]
      /\ flight' = [flight EXCEPT ![v] = None]
      /\ UNCHANGED <<up, guard, proposals, cast, faults>>
  BY Zenon DEF IInv, TypeOK, FinishPropose
<1>2. UNCHANGED <<journal, poisoned, torn>>
  BY <1>1, Zenon DEF guard
<1>3. flight' \in [Validators -> [header : Headers, votes : SUBSET Validators]]
  <2>1. None \in [header : Headers, votes : SUBSET Validators]
    BY DEF None, Headers
  <2> QED
    BY <2>1, <1>1, Zenon DEF IInv, TypeOK
<1>4. FlightInv'
  <2>1. ASSUME NEW q \in Validators
        PROVE  /\ \A w \in flight'[q].votes \ Faulty : flight'[q].header \in cast[w]
               /\ flight'[q] # None =>
                    /\ Len(flight'[q].header) > 0
                    /\ Builds(Parent(flight'[q].header), Block(flight'[q].header))
    <3>1. CASE q = v
      <4>1. flight'[q] = None
        BY <3>1, <1>1, Zenon DEF IInv, TypeOK
      <4> QED
        BY <4>1 DEF None
    <3>2. CASE q # v
      <4>1. flight'[q] = flight[q]
        BY <3>2, <1>1, Zenon DEF IInv, TypeOK
      <4> QED
        BY <4>1, Zenon DEF IInv, FlightInv
    <3> QED
      BY <3>1, <3>2, Zenon
  <2> QED
    BY <2>1, <1>1, Zenon DEF FlightInv
<1>5. JournalCoversVotes' /\ (Protected => VoteOnce)'
  BY <1>1, <1>2, Zenon DEF IInv, JournalCoversVotes, Protected, VoteOnce
<1>6. \A x : Certified(x) => Certified(x)'
  BY <1>1, CertifiedStays, Zenon
<1>7. CASE IsQuorum(f.votes) /\ Parent(f.header) = chain[v]
  <2>1. CommitHeader(v, f.header) /\ commits' = commits \cup {f.header}
    BY <1>7, Zenon DEF FinishPropose
  <2>2. Certified(f.header)
    BY <1>1, <1>7, Zenon DEF IInv, FlightInv, Certified
  <2>3. Len(f.header) > 0 /\ Builds(chain[v], Block(f.header))
    BY <1>1, <1>7, Zenon DEF IInv, FlightInv
  <2>4. /\ chain' \in [Validators -> Headers]
        /\ pool' \in [Validators -> SUBSET Txs]
        /\ imports' \in [Validators -> [Outbound -> Nat]]
        /\ votes' \in [Validators -> SUBSET Headers]
        /\ Remembered' /\ VotesWereCast'
        /\ ChainCertified' /\ ChainIsValid' /\ PoolBuilds'
    BY <2>1, <2>2, <2>3, <1>1, <1>7, CommitInv, Zenon
  <2>5. TypeOK'
    BY <2>1, <2>4, <1>1, <1>2, <1>3, Zenon DEF IInv, TypeOK
  <2>6. CommitsCertified'
    BY <2>1, <2>2, <1>6, Zenon DEF IInv, CommitsCertified
  <2> QED
    BY <2>4, <2>5, <2>6, <1>4, <1>5, Zenon DEF IInv
<1>8. CASE ~(IsQuorum(f.votes) /\ Parent(f.header) = chain[v])
  <2>1. UNCHANGED <<chain, pool, imports, votes, commits>>
    BY <1>8, Zenon DEF FinishPropose
  <2>2. TypeOK'
    BY <2>1, <1>1, <1>2, <1>3, Zenon DEF IInv, TypeOK
  <2>3. Remembered' /\ VotesWereCast'
    BY <2>1, <1>1, Zenon DEF IInv, Remembered, VotesWereCast
  <2>4. CommitsCertified' /\ ChainCertified'
    BY <2>1, <1>6, Zenon DEF IInv, CommitsCertified, ChainCertified
  <2>5. ChainIsValid' /\ PoolBuilds'
    BY <2>1, Zenon DEF IInv, ChainIsValid, PoolBuilds
  <2> QED
    BY <2>2, <2>3, <2>4, <2>5, <1>4, <1>5, Zenon DEF IInv
<1> QED
  BY <1>7, <1>8, Zenon

\* handleCommitLocked.
LEMMA HandleCommitInv ==
    ASSUME IInv, NEW v \in Validators, NEW header \in commits,
           HandleCommit(v, header)
    PROVE  IInv'
<1>1. header \in Headers /\ Certified(header)
  BY Zenon DEF IInv, TypeOK, CommitsCertified
<1>2. /\ Len(header) > 0 /\ Parent(header) = chain[v]
      /\ Builds(chain[v], Block(header))
  BY DEF IInv, TypeOK, Headers, HandleCommit, IsNext
<1>3. /\ CommitHeader(v, header)
      /\ UNCHANGED <<up, flight, cast, faults>>
      /\ UNCHANGED <<journal, poisoned, torn, proposals, commits>>
  BY Zenon DEF HandleCommit, guard, network
<1>4. /\ chain' \in [Validators -> Headers]
      /\ pool' \in [Validators -> SUBSET Txs]
      /\ imports' \in [Validators -> [Outbound -> Nat]]
      /\ votes' \in [Validators -> SUBSET Headers]
      /\ Remembered' /\ VotesWereCast'
      /\ ChainCertified' /\ ChainIsValid' /\ PoolBuilds'
  BY <1>1, <1>2, <1>3, CommitInv, Zenon
<1>5. TypeOK'
  BY <1>3, <1>4, Zenon DEF IInv, TypeOK
<1>6. JournalCoversVotes' /\ (Protected => VoteOnce)' /\ FlightInv'
  BY <1>3, Zenon DEF IInv, JournalCoversVotes, Protected, VoteOnce, FlightInv
<1>7. CommitsCertified'
  <2>1. \A x : Certified(x) => Certified(x)'
    BY <1>3, CertifiedStays, Zenon
  <2> QED
    BY <2>1, <1>3, Zenon DEF IInv, CommitsCertified
<1> QED
  BY <1>4, <1>5, <1>6, <1>7, Zenon DEF IInv

\* A crash loses what is in memory.
LEMMA CrashInv ==
    ASSUME IInv, NEW v \in Validators, Crash(v)
    PROVE  IInv'
<1>1. /\ UNCHANGED <<chain, journal, torn, cast>> /\ UNCHANGED <<proposals, commits>>
      /\ pool' = [pool EXCEPT ![v] = {}]
      /\ imports' = [imports EXCEPT ![v] = [r \in Outbound |-> 0]]
      /\ votes' = [votes EXCEPT ![v] = {}]
      /\ flight' = [flight EXCEPT ![v] = None]
      /\ faults < MaxFaults /\ faults' = faults + 1
  BY Zenon DEF Crash, Fault, network
<1>2. TypeOK'
  <2>1. up' \in [Validators -> BOOLEAN] /\ poisoned' \in [Validators -> BOOLEAN]
    BY Zenon DEF IInv, TypeOK, Crash
  <2>2. flight' \in [Validators -> [header : Headers, votes : SUBSET Validators]]
    <3>1. None \in [header : Headers, votes : SUBSET Validators]
      BY DEF None, Headers
    <3> QED
      BY <3>1, <1>1, Zenon DEF IInv, TypeOK
  <2>3. imports' \in [Validators -> [Outbound -> Nat]]
    <3>1. [r \in Outbound |-> 0] \in [Outbound -> Nat]
      BY Zenon
    <3> QED
      BY <3>1, <1>1, Zenon DEF IInv, TypeOK
  <2>4. pool' \in [Validators -> SUBSET Txs] /\ votes' \in [Validators -> SUBSET Headers]
    BY <1>1, Zenon DEF IInv, TypeOK
  <2>5. faults' \in 0 .. MaxFaults
    BY <1>1, ServiceAssumption DEF IInv, TypeOK, ServiceAssumption
  <2> QED
    BY <2>1, <2>2, <2>3, <2>4, <2>5, <1>1, Zenon DEF IInv, TypeOK
<1>3. JournalCoversVotes' /\ (Protected => VoteOnce)'
  BY <1>1, Zenon DEF IInv, JournalCoversVotes, Protected, VoteOnce
<1>4. Remembered'
  BY <1>1 DEF IInv, TypeOK, Remembered
<1>5. VotesWereCast'
  BY <1>1, Zenon DEF IInv, TypeOK, VotesWereCast
<1>6. FlightInv'
  <2>1. ASSUME NEW q \in Validators
        PROVE  /\ \A w \in flight'[q].votes \ Faulty : flight'[q].header \in cast[w]
               /\ flight'[q] # None =>
                    /\ Len(flight'[q].header) > 0
                    /\ Builds(Parent(flight'[q].header), Block(flight'[q].header))
    <3>1. CASE q = v
      <4>1. flight'[q] = None
        BY <3>1, <1>1, Zenon DEF IInv, TypeOK
      <4> QED
        BY <4>1 DEF None
    <3>2. CASE q # v
      <4>1. flight'[q] = flight[q]
        BY <3>2, <1>1, Zenon DEF IInv, TypeOK
      <4> QED
        BY <4>1, Zenon DEF IInv, FlightInv
    <3> QED
      BY <3>1, <3>2, Zenon
  <2> QED
    BY <2>1, <1>1, Zenon DEF FlightInv
<1>7. CommitsCertified' /\ ChainCertified'
  <2>1. \A x : Certified(x) => Certified(x)'
    BY <1>1, CertifiedStays, Zenon
  <2> QED
    BY <2>1, <1>1, Zenon DEF IInv, CommitsCertified, ChainCertified
<1>8. ChainIsValid'
  BY <1>1, Zenon DEF IInv, ChainIsValid
<1>9. PoolBuilds'
  <2>1. ASSUME NEW w \in Validators
        PROVE  Builds(chain[w], [txs |-> pool'[w], imports |-> {}])
    <3>1. CASE w # v
      BY <3>1, <1>1, Zenon DEF IInv, TypeOK, PoolBuilds
    <3>2. CASE w = v
      BY <3>2, <1>1, Zenon DEF IInv, TypeOK, Builds
    <3> QED
      BY <3>1, <3>2, Zenon
  <2> QED
    BY <2>1, <1>1, Zenon DEF PoolBuilds
<1> QED
  BY <1>2, <1>3, <1>4, <1>5, <1>6, <1>7, <1>8, <1>9, Zenon DEF IInv

\* A restart changes nothing that the invariant is about.
LEMMA RestartInv ==
    ASSUME IInv, NEW v \in Validators, Restart(v)
    PROVE  IInv'
<1>1. /\ UNCHANGED <<chain, votes, cast, flight, commits>>
      /\ UNCHANGED <<journal, poisoned, torn, pool, imports, proposals, faults>>
  BY Zenon DEF Restart, guard, network
<1>2. up' \in [Validators -> BOOLEAN]
  BY Zenon DEF IInv, TypeOK, Restart
<1>3. TypeOK'
  BY <1>1, <1>2, Zenon DEF IInv, TypeOK
<1>4. JournalCoversVotes' /\ PoolBuilds'
  BY <1>1, Zenon DEF IInv, JournalCoversVotes, PoolBuilds
<1> QED
  BY <1>1, <1>3, <1>4, FrameInv, Zenon DEF IInv

\* A faulty proposal is only a message.
LEMMA FaultyProposeInv ==
    ASSUME IInv, NEW v \in Validators, NEW b \in Blocks, FaultyPropose(v, b)
    PROVE  IInv'
<1>1. /\ UNCHANGED <<chain, votes, cast, flight, commits>>
      /\ UNCHANGED <<up, pool, imports, journal, poisoned, torn>>
      /\ proposals' = proposals \cup {Append(chain[v], b)}
      /\ faults < MaxFaults /\ faults' = faults + 1
  BY Zenon DEF FaultyPropose, Fault, service, guard
<1>2. Append(chain[v], b) \in Headers
  BY NextHeader, Zenon DEF IInv, TypeOK, Headers
<1>3. faults' \in 0 .. MaxFaults
  BY <1>1, ServiceAssumption DEF IInv, TypeOK, ServiceAssumption
<1>4. TypeOK'
  BY <1>1, <1>2, <1>3, Zenon DEF IInv, TypeOK
<1>5. JournalCoversVotes' /\ PoolBuilds'
  BY <1>1, Zenon DEF IInv, JournalCoversVotes, PoolBuilds
<1> QED
  BY <1>1, <1>4, <1>5, FrameInv, Zenon DEF IInv

\* A faulty proposer's certificate needs the votes of the others too.
LEMMA FaultyCommitInv ==
    ASSUME IInv, NEW header \in proposals, FaultyCommit(header)
    PROVE  IInv'
<1>1. /\ UNCHANGED <<chain, votes, cast, flight>>
      /\ UNCHANGED <<up, pool, imports, journal, poisoned, torn, proposals, faults>>
      /\ commits' = commits \cup {header}
      /\ IsQuorum(Voters(header))
  BY Zenon DEF FaultyCommit, service, guard
<1>2. Voters(header) \in SUBSET Validators
  BY ServiceAssumption, Zenon DEF Voters, ServiceAssumption
<1>3. Certified(header)
  BY <1>1, <1>2, Zenon DEF Certified, Voters
<1>4. \A x : Certified(x) => Certified(x)'
  BY <1>1, CertifiedStays, Zenon
<1>5. TypeOK'
  BY <1>1, Zenon DEF IInv, TypeOK
<1>6. CommitsCertified' /\ ChainCertified'
  BY <1>1, <1>3, <1>4, Zenon DEF IInv, CommitsCertified, ChainCertified
<1>7. JournalCoversVotes' /\ Remembered' /\ VotesWereCast' /\ (Protected => VoteOnce)'
  BY <1>1, Zenon DEF IInv, JournalCoversVotes, Remembered, VotesWereCast, Protected, VoteOnce
<1>8. FlightInv' /\ ChainIsValid' /\ PoolBuilds'
  BY <1>1, Zenon DEF IInv, FlightInv, ChainIsValid, PoolBuilds
<1> QED
  BY <1>5, <1>6, <1>7, <1>8, Zenon DEF IInv

\* A faulty vote is counted, but is no evidence about the others.
LEMMA FaultyVoteInv ==
    ASSUME IInv, NEW v \in Validators, NEW w \in Faulty, FaultyVote(w, v)
    PROVE  IInv'
<1>1. /\ UNCHANGED <<chain, votes, cast>> /\ flight[v] # None
      /\ UNCHANGED <<up, pool, imports, journal, poisoned, torn, proposals, commits, faults>>
      /\ flight' = [flight EXCEPT ![v] = [header |-> flight[v].header,
                                          votes |-> flight[v].votes \cup {w}]]
  BY Zenon DEF FaultyVote, guard, network
<1>2. /\ flight \in [Validators -> [header : Headers, votes : SUBSET Validators]]
      /\ w \in Validators
  BY ServiceAssumption, Zenon DEF IInv, TypeOK, ServiceAssumption
<1>3. TypeOK'
  <2>1. [header |-> flight[v].header, votes |-> flight[v].votes \cup {w}]
          \in [header : Headers, votes : SUBSET Validators]
    BY <1>2, Zenon
  <2>2. flight' \in [Validators -> [header : Headers, votes : SUBSET Validators]]
    BY <2>1, <1>1, <1>2, Zenon
  <2> QED
    BY <2>2, <1>1, Zenon DEF IInv, TypeOK
<1>4. FlightInv'
  <2>1. ASSUME NEW q \in Validators
        PROVE  /\ flight'[q].header = flight[q].header
               /\ flight'[q].votes \ Faulty = flight[q].votes \ Faulty
               /\ flight'[q] # None => flight[q] # None
    BY <1>1, <1>2, Zenon
  <2> QED
    BY <2>1, <1>1, Zenon DEF IInv, FlightInv
<1>5. JournalCoversVotes' /\ Remembered' /\ VotesWereCast' /\ (Protected => VoteOnce)'
  BY <1>1, Zenon DEF IInv, JournalCoversVotes, Remembered, VotesWereCast, Protected, VoteOnce
<1>6. CommitsCertified' /\ ChainCertified'
  <2>1. \A x : Certified(x) => Certified(x)'
    BY <1>1, CertifiedStays, Zenon
  <2> QED
    BY <2>1, <1>1, Zenon DEF IInv, CommitsCertified, ChainCertified
<1>7. ChainIsValid' /\ PoolBuilds'
  BY <1>1, Zenon DEF IInv, ChainIsValid, PoolBuilds
<1> QED
  BY <1>3, <1>4, <1>5, <1>6, <1>7, Zenon DEF IInv

\* Every step keeps the invariant.
LEMMA NextInv == IInv /\ [Next]_vars => IInv'
<1> SUFFICES ASSUME IInv, [Next]_vars PROVE IInv'
  BY Zenon
<1>1. ASSUME Next PROVE IInv'
  <2>1. PICK v \in Validators :
          \/ \E t \in Txs : Submit(v, t)
          \/ \E r \in Outbound : QueueReceiptImport(v, r)
          \/ StartPropose(v)
          \/ \E header \in proposals : HandleProposal(v, header)
          \/ FinishPropose(v)
          \/ \E header \in commits : HandleCommit(v, header)
          \/ Crash(v)
          \/ Restart(v)
          \/ \E b \in Blocks : FaultyPropose(v, b)
          \/ \E header \in proposals : FaultyCommit(header)
          \/ \E w \in Faulty : FaultyVote(w, v)
    BY <1>1, Zenon DEF Next
  <2> QED
    BY <2>1, SubmitInv, QueueInv, StartProposeInv, HandleProposalInv,
       FinishProposeInv, HandleCommitInv, CrashInv, RestartInv,
       FaultyProposeInv, FaultyCommitInv, FaultyVoteInv, Zenon
<1>2. ASSUME UNCHANGED vars PROVE IInv'
  <2>1. /\ UNCHANGED <<chain, votes, cast, flight, commits>>
        /\ UNCHANGED <<up, journal, poisoned, torn, pool, imports, proposals, faults>>
    BY <1>2, Zenon DEF vars, service, guard, network
  <2>2. TypeOK'
    BY <2>1, Zenon DEF IInv, TypeOK
  <2>3. JournalCoversVotes' /\ PoolBuilds'
    BY <2>1, Zenon DEF IInv, JournalCoversVotes, PoolBuilds
  <2> QED
    BY <2>1, <2>2, <2>3, FrameInv, Zenon DEF IInv
<1> QED
  BY <1>1, <1>2, Zenon

-----------------------------------------------------------------------------
(* Theorems.                                                               *)

\* The invariant holds in every reachable state.
THEOREM Invariance == Spec => []IInv
  BY InitInv, NextInv, PTL DEF Spec

\* The variables of the service keep their types, for any validator set.
THEOREM TypeCorrect == Spec => []TypeOK
<1>1. IInv => TypeOK
  BY Zenon DEF IInv
<1> QED
  BY <1>1, Invariance, PTL

\* NewProtectedService: the journal on disk covers every vote ever signed.
THEOREM JournalCoversVotesHolds == Spec => []JournalCoversVotes
<1>1. IInv => JournalCoversVotes
  BY Zenon DEF IInv
<1> QED
  BY <1>1, Invariance, PTL

\* A validator with a signing guard, or one that never crashes, votes for at
\* most one header per height.
THEOREM VoteOnceHolds == Spec => [](Protected => VoteOnce)
<1>1. IInv => (Protected => VoteOnce)
  BY Zenon DEF IInv
<1> QED
  BY <1>1, Invariance, PTL

\* The faulty validators hold at most a third of the power.
Tolerable == 3 * PowerOf(Faulty) <= TotalPower

\* Two certified headers of one height are the same header: two quorums share
\* more power than the faulty have, so a validator that votes once is in both.
LEMMA CertifiedOnce ==
    ASSUME VoteOnce, Tolerable,
           NEW x, NEW y, Certified(x), Certified(y), Len(x) = Len(y)
    PROVE  x = y
<1>1. PICK Q \in SUBSET Validators : IsQuorum(Q) /\ \A w \in Q \ Faulty : x \in cast[w]
  BY Zenon DEF Certified
<1>2. PICK R \in SUBSET Validators : IsQuorum(R) /\ \A w \in R \ Faulty : y \in cast[w]
  BY Zenon DEF Certified
<1>3. 3 * PowerOf(Q \cap R) > TotalPower
  BY <1>1, <1>2, QuorumOverlap, Zenon
<1>4. PICK w \in Q \cap R : w \notin Faulty
  <2>1. SUFFICES ASSUME Q \cap R \subseteq Faulty PROVE FALSE
    BY Zenon
  <2>2. Faulty \subseteq Validators
    BY ServiceAssumption, Zenon DEF ServiceAssumption
  <2>3. Units(Q \cap R) \subseteq Units(Faulty)
    BY <2>1, Zenon DEF Units
  <2>4. IsFiniteSet(Units(Faulty)) /\ PowerOf(Faulty) \in Nat /\ PowerOf(Q \cap R) \in Nat
    BY <2>2, UnitsOfPower, Zenon
  <2>5. PowerOf(Q \cap R) <= PowerOf(Faulty)
    BY <2>3, <2>4, FS_Subset, Zenon DEF PowerOf
  <2>6. TotalPower \in Nat
    BY UnitsOfPower, Zenon DEF TotalPower
  <2> QED
    BY <2>4, <2>5, <2>6, <1>3 DEF Tolerable
<1> QED
  BY <1>1, <1>2, <1>4, Zenon DEF VoteOnce

\* The committed chain of one validator is a prefix of that of any other, for
\* any validator set, any distribution of power and faulty validators with up
\* to a third of it.
THEOREM AgreementHolds == Spec => [](Protected /\ Tolerable => Agreement)
<1>1. IInv => (Protected /\ Tolerable => Agreement)
  <2> SUFFICES ASSUME IInv, Protected, Tolerable PROVE Agreement
    BY Zenon
  <2>1. ASSUME NEW v \in Validators, NEW w \in Validators,
               Len(chain[v]) <= Len(chain[w])
        PROVE  IsPrefixOf(chain[v], chain[w])
    <3> DEFINE n == Len(chain[v])
    <3>1. /\ chain[v] \in Headers /\ chain[w] \in Headers
          /\ n \in Nat /\ Len(chain[w]) \in Nat
      BY DEF IInv, TypeOK, Headers
    <3>2. CASE n = 0
      BY <3>1, <3>2, <2>1 DEF IsPrefixOf, Headers
    <3>3. CASE n > 0
      <4>1. n \in 1 .. Len(chain[v]) /\ n \in 1 .. Len(chain[w])
        BY <3>1, <3>3, <2>1
      <4>2. Certified(SubSeq(chain[v], 1, n)) /\ Certified(SubSeq(chain[w], 1, n))
        BY <4>1, Zenon DEF IInv, ChainCertified
      <4>3. SubSeq(chain[v], 1, n) = chain[v]
        BY <3>1, SubSeqFull, Zenon DEF Headers
      <4>4. Len(SubSeq(chain[w], 1, n)) = n
        BY <3>1, <4>1 DEF Headers
      <4>5. chain[v] = SubSeq(chain[w], 1, n)
        BY <4>2, <4>3, <4>4, CertifiedOnce, Zenon DEF IInv
      <4> QED
        BY <4>5, <2>1, Zenon DEF IsPrefixOf
    <3> QED
      BY <3>1, <3>2, <3>3
  <2>2. \A v, w \in Validators :
          Len(chain[v]) <= Len(chain[w]) \/ Len(chain[w]) <= Len(chain[v])
    BY DEF IInv, TypeOK, Headers
  <2> QED
    BY <2>1, <2>2, Zenon DEF Agreement
<1> QED
  BY <1>1, Invariance, PTL

\* Committed chains consume each object once and import each receipt once.
THEOREM ChainIsValidHolds == Spec => []ChainIsValid
<1>1. IInv => ChainIsValid
  BY Zenon DEF IInv
<1> QED
  BY <1>1, Invariance, PTL

\* The transactions of a pool always build.
THEOREM PoolBuildsHolds == Spec => []PoolBuilds
<1>1. IInv => PoolBuilds
  BY Zenon DEF IInv
<1> QED
  BY <1>1, Invariance, PTL
=============================================================================
