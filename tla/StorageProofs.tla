--------------------------- MODULE StorageProofs ---------------------------
(***************************************************************************)
(* What survives in files: the store of a shard (module WorldStateDisk)    *)
(* and the directory and anchor of an observer (module ObserverSession).   *)
(* Each part is about one module and uses nothing of the other.            *)
(***************************************************************************)
EXTENDS WorldStateDisk, ObserverSession, TLAPS, WellFoundedInduction

-----------------------------------------------------------------------------
(* Module WorldStateDisk.                                                  *)
(* What module WorldStateDisk promises, for every set of objects and       *)
(* deltas and for every number of records and faults: the files always     *)
(* open, a power loss never shows, and the store implements DurableStore.  *)
(*                                                                         *)
(* The argument.  All files a power loss may leave, any checkpoint with    *)
(* any log, replay to one and the same state, and no log reaches beyond    *)
(* it.  That is why a new checkpoint of this state makes every log         *)
(* obsolete, and why the log may be cut once no older checkpoint is left.  *)

-----------------------------------------------------------------------------
(* Replay is a recursion over the log; what it computes is shown by        *)
(* induction, and induction follows from the least counterexample.         *)

\* A set that holds 0, and n + 1 with every n, holds every natural number.
LEMMA SetInduction ==
    ASSUME NEW S, 0 \in S, \A n \in Nat : n \in S => n + 1 \in S
    PROVE  Nat \subseteq S
<1> DEFINE T == Nat \ S
           R == {ss \in Nat \X Nat : ss[1] < ss[2]}
<1> SUFFICES ASSUME T # {} PROVE FALSE
  BY Zenon
<1>1. IsWellFoundedOn(R, Nat)
  BY NatLessThanWellFounded, Zenon DEF OpToRel
<1>2. PICK x \in T : \A y \in T : ~(<<y, x>> \in R)
  <2>1. T \subseteq Nat
    BY Zenon
  <2> HIDE DEF T, R
  <2> QED BY <1>1, <2>1, WFMin, Zenon
<1>3. x \in Nat /\ x # 0 /\ x \notin S
  BY Zenon
<1>4. x - 1 \in Nat /\ x - 1 < x /\ (x - 1) + 1 = x
  BY <1>3
<1>5. x - 1 \in T
  BY <1>3, <1>4, Zenon
<1>6. <<x - 1, x>> \in R
  BY <1>3, <1>4, Zenon
<1> QED BY <1>2, <1>5, <1>6, Zenon

\* f lists the states of a replay of n items of log w on checkpoint c.
IsReplay(f, c, w, n) ==
    f = [i \in 0 .. n |-> IF i = 0 THEN Loaded(c) ELSE ReplayRecord(f[i - 1], w[i])]

\* Replay is defined for every log and every length.
LEMMA ReplayExists ==
    ASSUME NEW c, NEW w
    PROVE  \A n \in Nat : \E f : IsReplay(f, c, w, n)
<1> DEFINE S == {n \in Nat : \E f : IsReplay(f, c, w, n)}
<1>1. 0 \in S
  <2> DEFINE g == [i \in 0 .. 0 |-> Loaded(c)]
  <2>1. IsReplay(g, c, w, 0)
    BY DEF IsReplay
  <2> QED BY <2>1, Zenon
<1>2. ASSUME NEW n \in Nat, n \in S PROVE n + 1 \in S
  <2>1. PICK f : IsReplay(f, c, w, n)
    BY <1>2, Zenon
  <2> DEFINE g == [i \in 0 .. (n + 1) |-> IF i <= n THEN f[i] ELSE ReplayRecord(f[n], w[n + 1])]
             h == [i \in 0 .. (n + 1) |-> IF i = 0 THEN Loaded(c) ELSE ReplayRecord(g[i - 1], w[i])]
  <2>2. ASSUME NEW i \in 0 .. (n + 1) PROVE g[i] = h[i]
    <3>1. CASE i = 0
      <4>1. f[0] = Loaded(c)
        BY <2>1 DEF IsReplay
      <4> QED BY <3>1, <4>1
    <3>2. CASE i # 0 /\ i <= n
      <4>1. f[i] = ReplayRecord(f[i - 1], w[i])
        BY <2>1, <3>2 DEF IsReplay
      <4>2. g[i - 1] = f[i - 1]
        BY <3>2
      <4> QED BY <3>2, <4>1, <4>2, Zenon
    <3>3. CASE i = n + 1
      <4>1. g[i - 1] = f[n]
        BY <3>3
      <4>2. g[i] = ReplayRecord(f[n], w[n + 1])
        BY <3>3
      <4> QED BY <3>3, <4>1, <4>2
    <3> QED BY <3>1, <3>2, <3>3
  <2>3. g = h
    BY <2>2, Zenon
  <2> HIDE DEF g
  <2>4. IsReplay(g, c, w, n + 1)
    BY <2>3, Zenon DEF IsReplay
  <2>5. \E f1 : IsReplay(f1, c, w, n + 1)
    BY <2>4, Zenon
  <2> QED BY <2>5
<1> HIDE DEF S
<1>3. Nat \subseteq S
  BY <1>1, <1>2, SetInduction, Zenon
<1> QED BY <1>3, Zenon DEF S

\* Two replays of the same checkpoint over logs that agree are the same.
LEMMA ReplaySame ==
    ASSUME NEW c, NEW w, NEW v, NEW n \in Nat, NEW m \in Nat, NEW k \in Nat,
           k <= n, k <= m,
           \A i \in 1 .. k : w[i] = v[i],
           NEW f, IsReplay(f, c, w, n),
           NEW g, IsReplay(g, c, v, m)
    PROVE  f[k] = g[k]
<1> DEFINE S == {i \in Nat : i <= k => f[i] = g[i]}
<1>1. 0 \in S
  BY DEF IsReplay
<1>2. ASSUME NEW i \in Nat, i \in S PROVE i + 1 \in S
  <2> SUFFICES ASSUME i + 1 <= k PROVE f[i + 1] = g[i + 1]
    OBVIOUS
  <2>0. i + 1 \in 0 .. n /\ i + 1 \in 0 .. m /\ i + 1 # 0 /\ (i + 1) - 1 = i /\ i + 1 \in 1 .. k
    OBVIOUS
  <2>1. f[i + 1] = ReplayRecord(f[i], w[i + 1])
    BY <2>0, Zenon DEF IsReplay
  <2>2. g[i + 1] = ReplayRecord(g[i], v[i + 1])
    BY <2>0, Zenon DEF IsReplay
  <2>3. f[i] = g[i]
    BY <1>2
  <2>4. w[i + 1] = v[i + 1]
    OBVIOUS
  <2> QED BY <2>1, <2>2, <2>3, <2>4, Zenon
<1> HIDE DEF S
<1>3. Nat \subseteq S
  BY <1>1, <1>2, SetInduction, Zenon
<1>4. k \in S
  BY <1>3, Zenon
<1> QED BY <1>4 DEF S

\* What ReplayPrefix reads off is the last state of such a replay.
LEMMA ReplayChosen ==
    ASSUME NEW c, NEW w, NEW n \in Nat
    PROVE  \E f : IsReplay(f, c, w, n) /\ ReplayPrefix(c, w, n) = f[n]
<1> DEFINE step == CHOOSE f : IsReplay(f, c, w, n)
<1>1. IsReplay(step, c, w, n)
  BY ReplayExists, Zenon
<1>2. ReplayPrefix(c, w, n) = step[n]
  BY Zenon DEF ReplayPrefix, IsReplay
<1> QED BY <1>1, <1>2, Zenon

\* The recursion as equations: nothing read yet, and one item more.
LEMMA ReplayEquations ==
    ASSUME NEW c, NEW w
    PROVE  /\ ReplayPrefix(c, w, 0) = Loaded(c)
           /\ \A n \in Nat : ReplayPrefix(c, w, n + 1) = ReplayRecord(ReplayPrefix(c, w, n), w[n + 1])
<1>1. ReplayPrefix(c, w, 0) = Loaded(c)
  <2>1. PICK f : IsReplay(f, c, w, 0) /\ ReplayPrefix(c, w, 0) = f[0]
    BY ReplayChosen, Zenon
  <2> QED BY <2>1 DEF IsReplay
<1>2. ASSUME NEW n \in Nat
      PROVE  ReplayPrefix(c, w, n + 1) = ReplayRecord(ReplayPrefix(c, w, n), w[n + 1])
  <2>1. PICK f : IsReplay(f, c, w, n) /\ ReplayPrefix(c, w, n) = f[n]
    BY ReplayChosen, Zenon
  <2>2. n + 1 \in Nat
    OBVIOUS
  <2>3. PICK g : IsReplay(g, c, w, n + 1) /\ ReplayPrefix(c, w, n + 1) = g[n + 1]
    BY ReplayChosen, <2>2, Zenon
  <2>4. f[n] = g[n]
    BY <2>1, <2>3, <2>2, ReplaySame
  <2>5. g[n + 1] = ReplayRecord(g[n], w[n + 1])
    BY <2>3 DEF IsReplay
  <2> QED BY <2>1, <2>3, <2>4, <2>5, Zenon
<1> QED BY <1>1, <1>2, Zenon

\* Replay reads no further than it is told to.
LEMMA ReplayAgrees ==
    ASSUME NEW c, NEW w, NEW v, NEW n \in Nat, \A i \in 1 .. n : w[i] = v[i]
    PROVE  ReplayPrefix(c, w, n) = ReplayPrefix(c, v, n)
<1>1. PICK f : IsReplay(f, c, w, n) /\ ReplayPrefix(c, w, n) = f[n]
  BY ReplayChosen, Zenon
<1>2. PICK g : IsReplay(g, c, v, n) /\ ReplayPrefix(c, v, n) = g[n]
  BY ReplayChosen, Zenon
<1>3. f[n] = g[n]
  BY <1>1, <1>2, ReplaySame
<1> QED BY <1>1, <1>2, <1>3, Zenon

\* A checkpoint that covers every record is what replay ends with.
LEMMA ReplayCovered ==
    ASSUME NEW c, NEW w, NEW n \in Nat, c.seq \in Nat,
           \A i \in 1 .. n : w[i].seq \in Nat /\ w[i].seq <= c.seq
    PROVE  ReplayPrefix(c, w, n) = Loaded(c)
<1> DEFINE S == {i \in Nat : i <= n => ReplayPrefix(c, w, i) = Loaded(c)}
<1>1. 0 \in S
  BY ReplayEquations, Zenon
<1>2. ASSUME NEW i \in Nat, i \in S PROVE i + 1 \in S
  <2> SUFFICES ASSUME i + 1 <= n PROVE ReplayPrefix(c, w, i + 1) = Loaded(c)
    OBVIOUS
  <2>1. ReplayPrefix(c, w, i) = Loaded(c)
    BY <1>2
  <2>2. ReplayPrefix(c, w, i + 1) = ReplayRecord(Loaded(c), w[i + 1])
    BY <2>1, ReplayEquations, Zenon
  <2>3. w[i + 1].seq \in Nat /\ w[i + 1].seq <= c.seq
    OBVIOUS
  <2>4. Loaded(c).seq = c.seq
    BY Zenon DEF Loaded
  <2>5. ReplayRecord(Loaded(c), w[i + 1]) = Loaded(c)
    BY <2>3, <2>4 DEF ReplayRecord
  <2> QED BY <2>2, <2>5, Zenon
<1> HIDE DEF S
<1>3. n \in S
  BY <1>1, <1>2, SetInduction, Zenon
<1> QED BY <1>3 DEF S

-----------------------------------------------------------------------------
(* Logs, and the state that checkpoints and logs agree on.                 *)

Items == {Torn} \cup {Record(k, d) : k \in 1 .. MaxSeq, d \in Deltas}

\* No item is a fragment.
Intact(w) == \A i \in 1 .. Len(w) : w[i] # Torn

\* The logs Apply writes: a fragment comes last.
Logs == {w \in Seq(Items) : \A i \in 1 .. Len(w) : w[i] = Torn => i = Len(w)}

\* Every checkpoint of cs with every log of ws replays to object set D and
\* sequence number N, and no log holds a later record.
Agree(cs, ws, D, N) ==
    \A c \in cs, w \in ws :
        /\ ReplayPrefix(c, w, Complete(w)) = [ok |-> TRUE, objs |-> D, seq |-> N]
        /\ \A i \in 1 .. Complete(w) : w[i].seq <= N

FileInv ==
    /\ wal \in Logs /\ lostWal \subseteq Logs
    /\ ckpt \in Checkpoints /\ renamed \in Checkpoints
    /\ objs \subseteq Objects /\ seq \in 0 .. MaxSeq
    /\ failed \in BOOLEAN /\ faults \in 0 .. MaxFaults
    /\ pc \in {"down", "idle", "syncDir", "truncate", "syncWAL"}
    /\ failed => pc = "idle"
    /\ pc # "down" /\ ~failed => Intact(wal)
    /\ pc = "syncDir" => renamed = [seq |-> seq, objs |-> objs]
    /\ pc \in {"truncate", "syncWAL"} => ckpt = [seq |-> seq, objs |-> objs] /\ renamed = ckpt

\* D and N are what the next open finds; the running store has them too.
AgreeInv(D, N) ==
    /\ D \subseteq Objects /\ N \in 0 .. MaxSeq
    /\ Agree({ckpt, renamed}, {wal} \cup lostWal, D, N)
    /\ pc # "down" /\ ~failed => objs = D /\ seq = N

IInv == FileInv /\ \E D \in SUBSET Objects, N \in 0 .. MaxSeq : AgreeInv(D, N)

\* Items are records of a Nat; a record is never taken for a fragment.
LEMMA ItemFacts ==
    /\ Torn.seq = 0 /\ Torn \in Items
    /\ \A it \in Items : it.seq \in Nat
    /\ \A k \in 1 .. MaxSeq, d \in Deltas :
          Record(k, d) \in Items /\ Record(k, d).seq = k /\ Record(k, d).delta = d /\ Record(k, d) # Torn
<1>1. Torn.seq = 0 /\ Torn \in Items
  BY DEF Items, Torn
<1>2. ASSUME NEW k \in 1 .. MaxSeq, NEW d \in Deltas
      PROVE  /\ Record(k, d) \in Items /\ Record(k, d).seq = k /\ Record(k, d).delta = d
             /\ k \in Nat /\ k # 0
  BY DiskAssumption DEF Items, Record, DiskAssumption
<1>3. \A k \in 1 .. MaxSeq, d \in Deltas : Record(k, d) # Torn
  BY <1>1, <1>2
<1>4. ASSUME NEW it \in Items PROVE it.seq \in Nat
  <2>1. CASE it = Torn
    BY <1>1, <2>1
  <2>2. CASE \E k \in 1 .. MaxSeq, d \in Deltas : it = Record(k, d)
    BY <1>2, <2>2
  <2> QED BY <2>1, <2>2 DEF Items
<1> QED BY <1>1, <1>2, <1>3, <1>4, Zenon

\* Where replay stops in such a log.
LEMMA CompleteOf ==
    ASSUME NEW w \in Logs
    PROVE  /\ Complete(w) \in 0 .. Len(w)
           /\ Len(w) \in Nat
           /\ Intact(w) => Complete(w) = Len(w)
           /\ ~Intact(w) => Len(w) > 0 /\ w[Len(w)] = Torn /\ Complete(w) = Len(w) - 1
           /\ \A i \in 1 .. Complete(w) : w[i] # Torn
<1> DEFINE P(n) == /\ \A i \in 1 .. n : w[i] # Torn
                   /\ n < Len(w) => w[n + 1] = Torn
<1>1. w \in Seq(Items) /\ Len(w) \in Nat /\ \A i \in 1 .. Len(w) : w[i] = Torn => i = Len(w)
  BY DEF Logs
<1>2. \E n \in 0 .. Len(w) : P(n)
  <2>1. CASE Intact(w)
    <3>1. P(Len(w)) /\ Len(w) \in 0 .. Len(w)
      BY <1>1, <2>1 DEF Intact
    <3> QED BY <3>1, Zenon
  <2>2. CASE ~Intact(w)
    <3>1. Len(w) \in 1 .. Len(w) /\ w[Len(w)] = Torn
      BY <1>1, <2>2, Zenon DEF Intact
    <3>2. P(Len(w) - 1) /\ Len(w) - 1 \in 0 .. Len(w)
      BY <1>1, <3>1
    <3> QED BY <3>2, Zenon
  <2> QED BY <2>1, <2>2, Zenon
<1>3. Complete(w) \in 0 .. Len(w) /\ P(Complete(w))
  <2>1. Complete(w) = CHOOSE n \in 0 .. Len(w) : P(n)
    BY Zenon DEF Complete
  <2> HIDE DEF P
  <2> QED BY <1>2, <2>1, Zenon
<1>4. Intact(w) => Complete(w) = Len(w)
  BY <1>1, <1>3 DEF Intact
<1>5. ~Intact(w) => Len(w) > 0 /\ w[Len(w)] = Torn /\ Complete(w) = Len(w) - 1
  <2> SUFFICES ASSUME ~Intact(w) PROVE Len(w) > 0 /\ w[Len(w)] = Torn /\ Complete(w) = Len(w) - 1
    BY Zenon
  <2>1. Len(w) > 0 /\ w[Len(w)] = Torn
    BY <1>1 DEF Intact
  <2>2. Complete(w) # Len(w)
    BY <1>1, <1>3, <2>1
  <2>3. w[Complete(w) + 1] = Torn /\ Complete(w) + 1 \in 1 .. Len(w)
    BY <1>1, <1>3, <2>2
  <2> QED BY <1>1, <1>3, <2>1, <2>3
<1> QED BY <1>1, <1>3, <1>4, <1>5, Zenon

\* Fewer files agree on the same state.
LEMMA AgreeFewer ==
    ASSUME NEW cs, NEW ws, NEW D, NEW N, Agree(cs, ws, D, N),
           NEW cs1 \in SUBSET cs, NEW ws1 \in SUBSET ws
    PROVE  Agree(cs1, ws1, D, N)
BY Zenon DEF Agree

\* More logs or more checkpoints that each agree, agree together.
LEMMA AgreeJoin ==
    ASSUME NEW cs, NEW ws, NEW cs1, NEW ws1, NEW D, NEW N
    PROVE  /\ Agree(cs, ws, D, N) /\ Agree(cs, ws1, D, N) => Agree(cs, ws \cup ws1, D, N)
           /\ Agree(cs, ws, D, N) /\ Agree(cs1, ws, D, N) => Agree(cs \cup cs1, ws, D, N)
BY Zenon DEF Agree

\* Apply: a complete record at the end of an intact log is replayed last.
LEMMA AgreeAppend ==
    ASSUME NEW cs, NEW w \in Logs, Intact(w), NEW D, NEW N \in Nat, N < MaxSeq,
           NEW d \in Deltas, Valid(D, d), Agree(cs, {w}, D, N)
    PROVE  LET v == Append(w, Record(N + 1, d))
           IN  v \in Logs /\ Intact(v) /\ Agree(cs, {v}, Result(D, d), N + 1)
<1> DEFINE r == Record(N + 1, d)
           v == Append(w, r)
<1>1. w \in Seq(Items) /\ Len(w) \in Nat /\ Complete(w) = Len(w)
  BY CompleteOf, Zenon DEF Logs
<1>2. N + 1 \in 1 .. MaxSeq
  BY DiskAssumption DEF DiskAssumption
<1>3. r \in Items /\ r.seq = N + 1 /\ r.delta = d /\ r # Torn
  BY <1>2, ItemFacts, Zenon
<1> HIDE DEF r
<1>4. v \in Seq(Items) /\ Len(v) = Len(w) + 1 /\ v[Len(w) + 1] = r /\ \A i \in 1 .. Len(w) : v[i] = w[i]
  BY <1>1, <1>3
<1> HIDE DEF v
<1>5. Intact(v)
  BY <1>1, <1>3, <1>4 DEF Intact
<1>6. v \in Logs
  BY <1>4, <1>5, Zenon DEF Logs, Intact
<1>7. Complete(v) = Len(w) + 1
  BY <1>4, <1>5, <1>6, CompleteOf, Zenon
<1>8. ASSUME NEW c \in cs
      PROVE  /\ ReplayPrefix(c, v, Complete(v)) = [ok |-> TRUE, objs |-> Result(D, d), seq |-> N + 1]
             /\ \A i \in 1 .. Complete(v) : v[i].seq <= N + 1
  <2> DEFINE st == [ok |-> TRUE, objs |-> D, seq |-> N]
  <2>1. ReplayPrefix(c, w, Len(w)) = st /\ \A i \in 1 .. Len(w) : w[i].seq <= N
    BY <1>1, Zenon DEF Agree
  <2>2. ReplayPrefix(c, v, Len(w)) = st
    BY <1>1, <1>4, <2>1, ReplayAgrees, Zenon
  <2>3. ReplayPrefix(c, v, Len(w) + 1) = ReplayRecord(st, r)
    BY <1>1, <1>4, <2>2, ReplayEquations, Zenon
  <2>4. ReplayRecord(st, r) = [ok |-> TRUE, objs |-> Result(D, d), seq |-> N + 1]
    BY <1>3 DEF ReplayRecord
  <2>5. ASSUME NEW i \in 1 .. (Len(w) + 1) PROVE v[i].seq <= N + 1
    <3>1. CASE i = Len(w) + 1
      BY <1>3, <1>4, <3>1
    <3>2. CASE i \in 1 .. Len(w)
      <4>1. w[i] \in Items
        BY <1>1, <3>2
      <4>2. w[i].seq \in Nat
        BY <4>1, ItemFacts, Zenon
      <4> QED BY <1>4, <2>1, <3>2, <4>2
    <3> QED BY <1>1, <3>1, <3>2
  <2> QED BY <1>7, <2>3, <2>4, <2>5, Zenon
<1>9. Agree(cs, {v}, Result(D, d), N + 1)
  BY <1>8, Zenon DEF Agree
<1> QED BY <1>5, <1>6, <1>9, Zenon DEF v, r

\* Apply interrupted: replay stops before the fragment.
LEMMA AgreeTorn ==
    ASSUME NEW cs, NEW w \in Logs, Intact(w), NEW D, NEW N, Agree(cs, {w}, D, N)
    PROVE  Append(w, Torn) \in Logs /\ Agree(cs, {Append(w, Torn)}, D, N)
<1> DEFINE v == Append(w, Torn)
<1>1. w \in Seq(Items) /\ Len(w) \in Nat /\ Complete(w) = Len(w)
  BY CompleteOf, Zenon DEF Logs
<1>2. v \in Seq(Items) /\ Len(v) = Len(w) + 1 /\ v[Len(w) + 1] = Torn /\ \A i \in 1 .. Len(w) : v[i] = w[i]
  BY <1>1, ItemFacts
<1> HIDE DEF v
<1>3. v \in Logs
  BY <1>1, <1>2 DEF Logs, Intact
<1>4. ~Intact(v)
  BY <1>1, <1>2 DEF Intact
<1>5. Complete(v) = Len(w)
  BY <1>1, <1>2, <1>3, <1>4, CompleteOf
<1>6. ASSUME NEW c \in cs PROVE ReplayPrefix(c, v, Len(w)) = ReplayPrefix(c, w, Len(w))
  BY <1>1, <1>2, ReplayAgrees, Zenon
<1>7. Agree(cs, {v}, D, N)
  BY <1>1, <1>2, <1>5, <1>6, Zenon DEF Agree
<1> QED BY <1>3, <1>7, Zenon DEF v

\* OpenDisk: cutting the fragment off changes nothing that is replayed.
LEMMA AgreeTruncated ==
    ASSUME NEW cs, NEW w \in Logs, NEW D, NEW N, Agree(cs, {w}, D, N)
    PROVE  Truncated(w) \in Logs /\ Intact(Truncated(w)) /\ Agree(cs, {Truncated(w)}, D, N)
<1> DEFINE n == Complete(w)
           v == Truncated(w)
<1>1. w \in Seq(Items) /\ Len(w) \in Nat /\ n \in 0 .. Len(w) /\ \A i \in 1 .. n : w[i] # Torn
  BY CompleteOf, Zenon DEF Logs
<1> HIDE DEF n
<1>2. v = SubSeq(w, 1, n)
  BY Zenon DEF Truncated, n
<1> HIDE DEF v
<1>3. v \in Seq(Items) /\ Len(v) = n /\ \A i \in 1 .. n : v[i] = w[i]
  BY <1>1, <1>2
<1>4. Intact(v) /\ v \in Logs
  BY <1>1, <1>3, Zenon DEF Intact, Logs
<1>5. Complete(v) = n
  BY <1>3, <1>4, CompleteOf, Zenon
<1>6. ASSUME NEW c \in cs PROVE ReplayPrefix(c, v, n) = ReplayPrefix(c, w, n)
  BY <1>1, <1>3, ReplayAgrees
<1>7. Agree(cs, {v}, D, N)
  BY <1>1, <1>3, <1>5, <1>6, Zenon DEF Agree, n
<1> QED BY <1>4, <1>7, Zenon DEF v

\* Checkpoint: the checkpoint of the agreed state needs none of the records.
LEMMA AgreeCheckpoint ==
    ASSUME NEW cs, cs # {}, NEW ws \in SUBSET Logs, NEW D, NEW N \in Nat, Agree(cs, ws, D, N)
    PROVE  Agree({[seq |-> N, objs |-> D]}, ws, D, N)
<1> DEFINE c == [seq |-> N, objs |-> D]
<1>1. Loaded(c) = [ok |-> TRUE, objs |-> D, seq |-> N] /\ c.seq = N
  BY Zenon DEF Loaded
<1> HIDE DEF c
<1>2. ASSUME NEW w \in ws
      PROVE  /\ ReplayPrefix(c, w, Complete(w)) = [ok |-> TRUE, objs |-> D, seq |-> N]
             /\ \A i \in 1 .. Complete(w) : w[i].seq <= N
  <2>1. \A i \in 1 .. Complete(w) : w[i].seq <= N
    BY Zenon DEF Agree
  <2>2. w \in Logs
    BY Zenon
  <2>3. w \in Seq(Items) /\ Complete(w) \in 0 .. Len(w) /\ Len(w) \in Nat
    BY <2>2, CompleteOf, Zenon DEF Logs
  <2>4. \A i \in 1 .. Complete(w) : w[i] \in Items
    BY <2>3
  <2>5. \A i \in 1 .. Complete(w) : w[i].seq \in Nat
    BY <2>4, ItemFacts, Zenon
  <2>6. Complete(w) \in Nat
    BY <2>3
  <2>7. ReplayPrefix(c, w, Complete(w)) = Loaded(c)
    BY <1>1, <2>1, <2>5, <2>6, ReplayCovered, Zenon
  <2> QED BY <1>1, <2>1, <2>7, Zenon
<1> QED BY <1>2, Zenon DEF Agree, c

\* Checkpoint, the log cut: nothing is left to replay.
LEMMA AgreeEmpty ==
    ASSUME NEW D, NEW N
    PROVE  <<>> \in Logs /\ Intact(<<>>) /\ Agree({[seq |-> N, objs |-> D]}, {<<>>}, D, N)
<1>1. <<>> \in Logs /\ Intact(<<>>)
  BY DEF Logs, Intact
<1>2. Complete(<<>>) = 0
  BY <1>1, CompleteOf, Zenon
<1>3. \A c : ReplayPrefix(c, <<>>, 0) = Loaded(c)
  BY ReplayEquations, Zenon
<1>4. Loaded([seq |-> N, objs |-> D]) = [ok |-> TRUE, objs |-> D, seq |-> N]
  BY Zenon DEF Loaded
<1> QED BY <1>1, <1>2, <1>3, <1>4 DEF Agree

-----------------------------------------------------------------------------
(* Every step keeps the invariant.                                         *)

\* Lost: some of the files are left, and they agreed before.
LEMMA LostStep ==
    ASSUME FileInv, NEW D \in SUBSET Objects, NEW N \in 0 .. MaxSeq, NEW w \in Logs,
           Agree({ckpt, renamed}, {w} \cup lostWal, D, N),
           faults' \in 0 .. MaxFaults, Lost(w)
    PROVE  FileInv' /\ AgreeInv(D, N)'
<1>1. /\ pc' = "down" /\ failed' = FALSE /\ wal' \in {w} \cup lostWal /\ lostWal' = {}
      /\ ckpt' \in {ckpt, renamed} /\ renamed' = ckpt' /\ objs' = objs /\ seq' = seq
  BY Zenon DEF Lost
<1>2. FileInv'
  BY <1>1, Zenon DEF FileInv
<1>3. {ckpt', renamed'} \in SUBSET {ckpt, renamed} /\ {wal'} \cup lostWal' \in SUBSET ({w} \cup lostWal)
  BY <1>1, Zenon
<1>4. Agree({ckpt', renamed'}, {wal'} \cup lostWal', D, N)
  BY <1>3, AgreeFewer, Zenon
<1> QED BY <1>1, <1>2, <1>4, Zenon DEF AgreeInv

\* OpenDisk shows the agreed state and keeps the uncut log as one that may
\* come back.
LEMMA OpenStep ==
    ASSUME FileInv, NEW D \in SUBSET Objects, NEW N \in 0 .. MaxSeq, AgreeInv(D, N), Open
    PROVE  FileInv' /\ AgreeInv(D, N)'
<1> DEFINE cs == {ckpt, renamed}
<1>1. /\ pc = "down" /\ pc' = "idle" /\ wal' = Truncated(wal)
      /\ lostWal' \in SUBSET ({wal} \cup lostWal)
      /\ objs' = Recovered.objs /\ seq' = Recovered.seq
      /\ failed' = failed /\ ckpt' = ckpt /\ renamed' = renamed /\ faults' = faults
  BY Zenon DEF Open
<1>2. Agree(cs, {wal} \cup lostWal, D, N)
  BY Zenon DEF AgreeInv
<1>3. Agree(cs, {wal}, D, N) /\ Agree(cs, lostWal', D, N)
  BY <1>1, <1>2, AgreeFewer, Zenon
<1>4. wal \in Logs
  BY Zenon DEF FileInv
<1>5. Truncated(wal) \in Logs /\ Intact(Truncated(wal)) /\ Agree(cs, {Truncated(wal)}, D, N)
  BY <1>3, <1>4, AgreeTruncated, Zenon
<1>6. Agree(cs, {wal'} \cup lostWal', D, N)
  BY <1>1, <1>3, <1>5, AgreeJoin, Zenon
<1>7. Recovered = [ok |-> TRUE, objs |-> D, seq |-> N]
  BY <1>2, Zenon DEF Agree, Recovered
<1>8. objs' = D /\ seq' = N
  BY <1>1, <1>7, Zenon
<1>9. FileInv'
  BY <1>1, <1>5, <1>8, Zenon DEF FileInv
<1> QED BY <1>1, <1>6, <1>8, <1>9, Zenon DEF AgreeInv

\* Apply: the agreed state moves on with the record, or stays.
LEMMA ApplyStep ==
    ASSUME FileInv, NEW D \in SUBSET Objects, NEW N \in 0 .. MaxSeq, AgreeInv(D, N),
           NEW d \in Deltas, Apply(d)
    PROVE  /\ FileInv'
           /\ Valid(objs, d) /\ objs = D
           /\ \/ /\ AgreeInv(Result(D, d), N + 1)'
                 /\ \/ pc' # "down" /\ ~failed' /\ objs' = Result(D, d)
                    \/ (pc' = "down" \/ failed') /\ objs' = objs
              \/ AgreeInv(D, N)' /\ (pc' = "down" \/ failed') /\ objs' = objs
<1> DEFINE cs == {ckpt, renamed}
           v == Append(wal, Record(seq + 1, d))
<1>1. pc = "idle" /\ ~failed /\ seq < MaxSeq /\ Valid(objs, d)
  BY Zenon DEF Apply
<1>2. objs = D /\ seq = N /\ Agree(cs, {wal} \cup lostWal, D, N) /\ Intact(wal) /\ N \in Nat
  BY <1>1 DEF AgreeInv, FileInv
<1>3. wal \in Logs /\ lostWal \in SUBSET Logs
  BY Zenon DEF FileInv
<1>4. Agree(cs, {wal}, D, N) /\ Agree(cs, lostWal, D, N)
  BY <1>2, AgreeFewer
<1>5. v \in Logs /\ Intact(v) /\ Agree(cs, {v}, Result(D, d), N + 1)
  BY <1>1, <1>2, <1>3, <1>4, AgreeAppend, Zenon
<1>6. Append(wal, Torn) \in Logs /\ Agree(cs, {Append(wal, Torn)}, D, N)
  BY <1>2, <1>3, <1>4, AgreeTorn, Zenon
<1>7. Result(D, d) \in SUBSET Objects /\ N + 1 \in 0 .. MaxSeq
  BY <1>1, <1>2, DiskAssumption DEF Result, DiskAssumption
<1> HIDE DEF v
<1>8. CASE /\ wal' = v /\ lostWal' = {}
           /\ objs' = Result(objs, d) /\ seq' = seq + 1
           /\ UNCHANGED <<pc, failed, ckpt, renamed, faults>>
  <2>1. pc' = pc /\ failed' = failed /\ ckpt' = ckpt /\ renamed' = renamed /\ faults' = faults
    BY <1>8, Zenon
  <2>2. {wal'} \cup lostWal' = {v} /\ objs' = Result(D, d) /\ seq' = N + 1
    BY <1>2, <1>8, Zenon
  <2>3. FileInv'
    BY <1>1, <1>5, <1>7, <1>8, <2>1, <2>2, Zenon DEF FileInv
  <2>4. AgreeInv(Result(D, d), N + 1)'
    BY <1>5, <1>7, <2>1, <2>2, Zenon DEF AgreeInv
  <2> QED BY <1>1, <1>2, <2>1, <2>2, <2>3, <2>4, Zenon
<1>9. ASSUME Fault, NEW w \in {wal, Append(wal, Torn), v},
             \/ Lost(w)
             \/ /\ wal' = w
                /\ lostWal' = IF w = v THEN {} ELSE lostWal
                /\ failed' = TRUE
                /\ UNCHANGED <<pc, objs, seq, ckpt, renamed>>
      PROVE  /\ FileInv'
             /\ AgreeInv(Result(D, d), N + 1)' \/ AgreeInv(D, N)'
             /\ (pc' = "down" \/ failed') /\ objs' = objs
  <2>1. faults' \in 0 .. MaxFaults
    BY <1>9, DiskAssumption DEF Fault, FileInv, DiskAssumption
  <2>2. w \in Logs
    BY <1>3, <1>5, <1>6, Zenon
  <2>3. CASE Lost(w) /\ w # v
    <3>1. Agree(cs, {w}, D, N)
      BY <1>4, <1>6, <2>3, Zenon
    <3>2. Agree(cs, {w} \cup lostWal, D, N)
      BY <3>1, <1>4, AgreeJoin, Zenon
    <3>3. FileInv' /\ AgreeInv(D, N)'
      BY <2>1, <2>2, <2>3, <3>2, LostStep, Zenon
    <3> QED BY <2>3, <3>3, Zenon DEF Lost
  <2>4. CASE Lost(w) /\ w = v
    <3>1. /\ pc' = "down" /\ failed' = FALSE /\ wal' \in {w} \cup lostWal /\ lostWal' = {}
          /\ ckpt' \in {ckpt, renamed} /\ renamed' = ckpt' /\ objs' = objs /\ seq' = seq
      BY <2>4, Zenon DEF Lost
    <3>2. FileInv'
      BY <2>1, <2>2, <1>3, <3>1, Zenon DEF FileInv
    <3>3. {ckpt', renamed'} \in SUBSET cs
      BY <3>1, Zenon
    <3>4. CASE wal' = v
      <4>1. {wal'} \cup lostWal' \in SUBSET {v}
        BY <3>1, <3>4, Zenon
      <4>2. Agree({ckpt', renamed'}, {wal'} \cup lostWal', Result(D, d), N + 1)
        BY <1>5, <3>3, <4>1, AgreeFewer, Zenon
      <4> QED BY <1>7, <3>1, <3>2, <4>2, Zenon DEF AgreeInv
    <3>5. CASE wal' \in lostWal
      <4>1. {wal'} \cup lostWal' \in SUBSET lostWal
        BY <3>1, <3>5, Zenon
      <4>2. Agree({ckpt', renamed'}, {wal'} \cup lostWal', D, N)
        BY <1>4, <3>3, <4>1, AgreeFewer, Zenon
      <4> QED BY <3>1, <3>2, <4>2, Zenon DEF AgreeInv
    <3> QED BY <2>4, <3>1, <3>4, <3>5, Zenon
  <2>5. CASE /\ wal' = w
             /\ lostWal' = IF w = v THEN {} ELSE lostWal
             /\ failed' = TRUE
             /\ UNCHANGED <<pc, objs, seq, ckpt, renamed>>
    <3>1. pc' = pc /\ objs' = objs /\ seq' = seq /\ ckpt' = ckpt /\ renamed' = renamed
      BY <2>5, Zenon
    <3>2. FileInv'
      BY <1>1, <1>3, <2>1, <2>2, <2>5, <3>1, Zenon DEF FileInv
    <3>3. CASE w = v
      <4>1. {wal'} \cup lostWal' = {v}
        BY <2>5, <3>3, Zenon
      <4>2. AgreeInv(Result(D, d), N + 1)'
        BY <1>5, <1>7, <2>5, <3>1, <4>1, Zenon DEF AgreeInv
      <4> QED BY <2>5, <3>1, <3>2, <4>2, Zenon
    <3>4. CASE w # v
      <4>1. Agree(cs, {w}, D, N)
        BY <1>4, <1>6, <3>4, Zenon
      <4>2. {wal'} \cup lostWal' = {w} \cup lostWal
        BY <2>5, <3>4, Zenon
      <4>3. Agree(cs, {w} \cup lostWal, D, N)
        BY <4>1, <1>4, AgreeJoin, Zenon
      <4>4. AgreeInv(D, N)'
        BY <2>5, <3>1, <4>2, <4>3, Zenon DEF AgreeInv
      <4> QED BY <2>5, <3>1, <3>2, <4>4, Zenon
    <3> QED BY <3>3, <3>4, Zenon
  <2> QED BY <1>9, <2>3, <2>4, <2>5, Zenon
<1>10. \/ /\ wal' = v /\ lostWal' = {}
          /\ objs' = Result(objs, d) /\ seq' = seq + 1
          /\ UNCHANGED <<pc, failed, ckpt, renamed, faults>>
       \/ /\ Fault
          /\ \E w \in {wal, Append(wal, Torn), v} :
                \/ Lost(w)
                \/ /\ wal' = w
                   /\ lostWal' = IF w = v THEN {} ELSE lostWal
                   /\ failed' = TRUE
                   /\ UNCHANGED <<pc, objs, seq, ckpt, renamed>>
  BY Zenon DEF Apply, v
<1> QED BY <1>1, <1>2, <1>8, <1>9, <1>10, Zenon

\* Checkpoint up to the rename: the new file covers every log.
LEMMA WriteCheckpointStep ==
    ASSUME FileInv, NEW D \in SUBSET Objects, NEW N \in 0 .. MaxSeq, AgreeInv(D, N), WriteCheckpoint
    PROVE  FileInv' /\ AgreeInv(D, N)'
<1> DEFINE ws == {wal} \cup lostWal
           new == [seq |-> seq, objs |-> objs]
<1>1. /\ pc = "idle" /\ ~failed /\ pc' = "syncDir" /\ renamed' = new
      /\ objs' = objs /\ seq' = seq /\ failed' = failed /\ wal' = wal
      /\ lostWal' = lostWal /\ ckpt' = ckpt /\ faults' = faults
  BY Zenon DEF WriteCheckpoint
<1>2. objs = D /\ seq = N /\ Agree({ckpt, renamed}, ws, D, N)
  BY <1>1, Zenon DEF AgreeInv
<1>3. ws \in SUBSET Logs /\ N \in Nat
  BY DEF FileInv
<1>4. Agree({new}, ws, D, N)
  BY <1>2, <1>3, AgreeCheckpoint, Zenon
<1>5. Agree({ckpt}, ws, D, N)
  BY <1>2, AgreeFewer
<1>6. Agree({ckpt} \cup {new}, ws, D, N)
  BY <1>4, <1>5, AgreeJoin, Zenon
<1>7. new \in Checkpoints
  BY Zenon DEF FileInv, Checkpoints
<1> HIDE DEF new
<1>8. {ckpt', renamed'} = {ckpt} \cup {new}
  BY <1>1, Zenon
<1>9. AgreeInv(D, N)'
  BY <1>1, <1>2, <1>6, <1>8, Zenon DEF AgreeInv
<1>10. FileInv'
  BY <1>1, <1>7, Zenon DEF FileInv, new
<1> QED BY <1>9, <1>10, Zenon

\* Checkpoint: the directory is synced, or not.
LEMMA SyncDirStep ==
    ASSUME FileInv, NEW D \in SUBSET Objects, NEW N \in 0 .. MaxSeq, AgreeInv(D, N), SyncDir
    PROVE  FileInv' /\ AgreeInv(D, N)'
<1>1. /\ pc = "syncDir" /\ pc' \in {"truncate", "idle"}
      /\ objs' = objs /\ seq' = seq /\ failed' = failed /\ wal' = wal
      /\ lostWal' = lostWal /\ renamed' = renamed
      /\ ckpt' \in {ckpt, renamed} /\ (pc' = "truncate" => ckpt' = renamed)
  BY Zenon DEF SyncDir
<1>2. faults' \in 0 .. MaxFaults
  BY DiskAssumption DEF SyncDir, Fault, FileInv, DiskAssumption
<1>3. FileInv'
  BY <1>1, <1>2, Zenon DEF FileInv
<1>4. {ckpt', renamed'} \in SUBSET {ckpt, renamed}
  BY <1>1, Zenon
<1>5. Agree({ckpt', renamed'}, {wal} \cup lostWal, D, N)
  BY <1>4, AgreeFewer, Zenon DEF AgreeInv
<1>6. AgreeInv(D, N)'
  BY <1>1, <1>5, Zenon DEF AgreeInv
<1> QED BY <1>3, <1>6, Zenon

\* Checkpoint: the log is cut after the new checkpoint is the only one.
LEMMA TruncateWALStep ==
    ASSUME FileInv, NEW D \in SUBSET Objects, NEW N \in 0 .. MaxSeq, AgreeInv(D, N), TruncateWAL
    PROVE  FileInv' /\ AgreeInv(D, N)'
<1> DEFINE ws == {wal} \cup lostWal
<1>1. /\ pc = "truncate" /\ pc' \in {"syncWAL", "idle"}
      /\ objs' = objs /\ seq' = seq /\ failed' = failed
      /\ ckpt' = ckpt /\ renamed' = renamed
      /\ wal' \in {wal, <<>>} /\ {wal'} \cup lostWal' \in SUBSET ({<<>>} \cup ws)
      /\ lostWal' \in SUBSET ws
  BY Zenon DEF TruncateWAL
<1>2. faults' \in 0 .. MaxFaults
  BY DiskAssumption DEF TruncateWAL, Fault, FileInv, DiskAssumption
<1>3. ~failed /\ ckpt = [seq |-> seq, objs |-> objs] /\ renamed = ckpt
  BY <1>1, Zenon DEF FileInv
<1>4. objs = D /\ seq = N /\ Agree({ckpt, renamed}, ws, D, N)
  BY <1>1, <1>3, Zenon DEF AgreeInv
<1>5. {ckpt, renamed} = {[seq |-> N, objs |-> D]}
  BY <1>3, <1>4, Zenon
<1>6. <<>> \in Logs /\ Intact(<<>>) /\ Agree({ckpt, renamed}, {<<>>}, D, N)
  BY <1>5, AgreeEmpty, Zenon
<1>7. Agree({ckpt, renamed}, {<<>>} \cup ws, D, N)
  BY <1>4, <1>6, AgreeJoin, Zenon
<1>8. Agree({ckpt, renamed}, {wal'} \cup lostWal', D, N)
  BY <1>1, <1>7, AgreeFewer, Zenon
<1>9. FileInv'
  BY <1>1, <1>2, <1>6, Zenon DEF FileInv
<1>10. AgreeInv(D, N)'
  BY <1>1, <1>4, <1>8, Zenon DEF AgreeInv
<1> QED BY <1>9, <1>10, Zenon

\* Checkpoint: the cut is synced, or not.
LEMMA SyncWALStep ==
    ASSUME FileInv, NEW D \in SUBSET Objects, NEW N \in 0 .. MaxSeq, AgreeInv(D, N), SyncWAL
    PROVE  FileInv' /\ AgreeInv(D, N)'
<1>1. /\ pc = "syncWAL" /\ pc' = "idle"
      /\ objs' = objs /\ seq' = seq /\ failed' = failed /\ wal' = wal
      /\ ckpt' = ckpt /\ renamed' = renamed /\ lostWal' \in SUBSET lostWal
  BY Zenon DEF SyncWAL
<1>2. faults' \in 0 .. MaxFaults
  BY DiskAssumption DEF SyncWAL, Fault, FileInv, DiskAssumption
<1>3. FileInv'
  BY <1>1, <1>2, Zenon DEF FileInv
<1>4. {wal'} \cup lostWal' \in SUBSET ({wal} \cup lostWal)
  BY <1>1, Zenon
<1>5. Agree({ckpt, renamed}, {wal'} \cup lostWal', D, N)
  BY <1>4, AgreeFewer, Zenon DEF AgreeInv
<1>6. AgreeInv(D, N)'
  BY <1>1, <1>5, Zenon DEF AgreeInv
<1> QED BY <1>3, <1>6, Zenon

\* Closing the store keeps both directories reading the same state.
LEMMA CloseStep ==
    ASSUME FileInv, NEW D \in SUBSET Objects, NEW N \in 0 .. MaxSeq, AgreeInv(D, N), Close
    PROVE  FileInv' /\ AgreeInv(D, N)'
<1>1. /\ pc = "idle" /\ pc' = "down" /\ failed' = FALSE
      /\ objs' = objs /\ seq' = seq /\ wal' = wal
      /\ ckpt' = ckpt /\ renamed' = renamed /\ lostWal' \in SUBSET lostWal
  BY Zenon DEF Close
<1>2. faults' \in 0 .. MaxFaults
  BY DiskAssumption DEF Close, Fault, FileInv, DiskAssumption
<1>3. FileInv'
  BY <1>1, <1>2, Zenon DEF FileInv
<1>4. {wal'} \cup lostWal' \in SUBSET ({wal} \cup lostWal)
  BY <1>1, Zenon
<1>5. Agree({ckpt, renamed}, {wal'} \cup lostWal', D, N)
  BY <1>4, AgreeFewer, Zenon DEF AgreeInv
<1>6. AgreeInv(D, N)'
  BY <1>1, <1>5, Zenon DEF AgreeInv
<1> QED BY <1>3, <1>6, Zenon

\* A crash, which may lose what was not synced, keeps the invariant.
LEMMA CrashStep ==
    ASSUME FileInv, NEW D \in SUBSET Objects, NEW N \in 0 .. MaxSeq, AgreeInv(D, N), Crash
    PROVE  FileInv' /\ AgreeInv(D, N)'
<1>1. faults' \in 0 .. MaxFaults
  BY DiskAssumption DEF Crash, Fault, FileInv, DiskAssumption
<1>2. wal \in Logs /\ Lost(wal) /\ Agree({ckpt, renamed}, {wal} \cup lostWal, D, N)
  BY Zenon DEF FileInv, Crash, AgreeInv
<1> QED BY <1>1, <1>2, LostStep, Zenon

\* Every step but Apply keeps the state the files agree on.
LEMMA QuietStep ==
    ASSUME FileInv, NEW D \in SUBSET Objects, NEW N \in 0 .. MaxSeq, AgreeInv(D, N),
           Open \/ WriteCheckpoint \/ SyncDir \/ TruncateWAL \/ SyncWAL \/ Crash \/ Close
    PROVE  FileInv' /\ AgreeInv(D, N)'
BY OpenStep, WriteCheckpointStep, SyncDirStep, TruncateWALStep, SyncWALStep, CrashStep, CloseStep, Zenon

\* A new directory: nothing, and every file says so.
LEMMA IInvInit == Init => IInv
<1> SUFFICES ASSUME Init PROVE IInv
  BY Zenon
<1>1. /\ pc = "down" /\ objs = {} /\ seq = 0 /\ failed = FALSE /\ wal = <<>> /\ lostWal = {}
      /\ ckpt = [seq |-> 0, objs |-> {}] /\ renamed = ckpt /\ faults = 0
  BY Zenon DEF Init, Empty
<1>2. <<>> \in Logs /\ Intact(<<>>) /\ Agree({[seq |-> 0, objs |-> {}]}, {<<>>}, {}, 0)
  BY AgreeEmpty, Zenon
<1>3. [seq |-> 0, objs |-> {}] \in Checkpoints /\ 0 \in 0 .. MaxSeq /\ 0 \in 0 .. MaxFaults
  BY DiskAssumption DEF Checkpoints, DiskAssumption
<1>4. FileInv
  BY <1>1, <1>2, <1>3, Zenon DEF FileInv
<1>5. {ckpt, renamed} = {[seq |-> 0, objs |-> {}]} /\ {wal} \cup lostWal = {<<>>}
  BY <1>1, Zenon
<1>6. AgreeInv({}, 0)
  BY <1>1, <1>2, <1>3, <1>5, Zenon DEF AgreeInv
<1> QED BY <1>3, <1>4, <1>6, Zenon DEF IInv

\* Every step of the disk keeps the inductive invariant.
LEMMA IInvStep == IInv /\ [Next]_vars => IInv'
<1> SUFFICES ASSUME IInv, [Next]_vars PROVE IInv'
  BY Zenon
<1>1. PICK D \in SUBSET Objects, N \in 0 .. MaxSeq : AgreeInv(D, N)
  BY Zenon DEF IInv
<1>2. FileInv
  BY Zenon DEF IInv
<1>3. CASE Open \/ WriteCheckpoint \/ SyncDir \/ TruncateWAL \/ SyncWAL \/ Crash \/ Close
  BY <1>1, <1>2, <1>3, QuietStep, Zenon DEF IInv
<1>4. ASSUME NEW d \in Deltas, Apply(d) PROVE IInv'
  <2>1. FileInv' /\ (AgreeInv(Result(D, d), N + 1)' \/ AgreeInv(D, N)')
    BY <1>1, <1>2, <1>4, ApplyStep, Zenon
  <2>2. AgreeInv(Result(D, d), N + 1)' => Result(D, d) \in SUBSET Objects /\ N + 1 \in 0 .. MaxSeq
    BY Zenon DEF AgreeInv
  <2> QED BY <2>1, <2>2, Zenon DEF IInv
<1>5. CASE UNCHANGED vars
  <2>1. /\ pc' = pc /\ objs' = objs /\ seq' = seq /\ failed' = failed /\ wal' = wal
        /\ lostWal' = lostWal /\ ckpt' = ckpt /\ renamed' = renamed /\ faults' = faults
    BY <1>5, Zenon DEF vars
  <2>2. FileInv' /\ AgreeInv(D, N)'
    BY <1>1, <1>2, <2>1, Zenon DEF FileInv, AgreeInv
  <2> QED BY <2>2, Zenon DEF IInv
<1> QED BY <1>3, <1>4, <1>5, Zenon DEF Next

\* The inductive invariant: whatever failed, every checkpoint and every log
\* a power loss may leave replay to one state, the one the store shows.
THEOREM FilesAgree == Spec => []IInv
<1>1. Init => IInv
  BY IInvInit, Zenon
<1>2. IInv /\ [Next]_vars => IInv'
  BY IInvStep, Zenon
<1> QED BY <1>1, <1>2, PTL DEF Spec

-----------------------------------------------------------------------------
(* The properties.                                                         *)

\* The store's fields keep their types, and a log holds at most one
\* fragment, at its end: Apply never writes behind one.
THEOREM DiskTypeHolds == Spec => []TypeOK
<1>1. IInv => TypeOK
  <2> SUFFICES ASSUME IInv PROVE TypeOK
    BY Zenon
  <2>1. FileInv
    BY Zenon DEF IInv
  <2>2. ASSUME NEW w \in {wal} \cup lostWal, NEW i \in 1 .. Len(w)
        PROVE  \/ w[i] = Torn /\ i = Len(w)
               \/ w[i].seq \in 1 .. MaxSeq /\ w[i].delta \in Deltas
    <3>1. w \in Seq(Items) /\ (w[i] = Torn => i = Len(w))
      BY <2>1, Zenon DEF FileInv, Logs
    <3>2. w[i] \in Items
      BY <3>1
    <3>3. CASE w[i] = Torn
      BY <3>1, <3>3, Zenon
    <3>4. CASE \E k \in 1 .. MaxSeq, d \in Deltas : w[i] = Record(k, d)
      BY <3>4, ItemFacts
    <3> QED BY <3>2, <3>3, <3>4 DEF Items
  <2> QED BY <2>1, <2>2, Zenon DEF TypeOK, FileInv
<1> QED BY <1>1, FilesAgree, PTL

\* OpenDisk accepts the files that any crash, failed write or power loss
\* left behind, the windows inside Checkpoint included.
THEOREM AlwaysReadableHolds == Spec => []AlwaysReadable
<1>1. IInv => AlwaysReadable
  <2> SUFFICES ASSUME IInv PROVE Readable
    BY Zenon DEF AlwaysReadable
  <2>1. PICK D \in SUBSET Objects, N \in 0 .. MaxSeq : AgreeInv(D, N)
    BY Zenon DEF IInv
  <2>2. Recovered = [ok |-> TRUE, objs |-> D, seq |-> N]
    BY <2>1, Zenon DEF AgreeInv, Agree, Recovered
  <2>3. wal \in Logs
    BY Zenon DEF IInv, FileInv
  <2>4. Complete(wal) >= Len(wal) - 1
    BY <2>3, CompleteOf
  <2> QED BY <2>2, <2>4, Zenon DEF Readable
<1> QED BY <1>1, FilesAgree, PTL

\* Which of its outcomes a power loss has, old file or new one, cannot be
\* seen in what OpenDisk loads.
THEOREM LossIsInvisibleHolds == Spec => []LossIsInvisible
<1>1. IInv => LossIsInvisible
  <2> SUFFICES ASSUME IInv PROVE LossIsInvisible
    BY Zenon
  <2>1. PICK D \in SUBSET Objects, N \in 0 .. MaxSeq : AgreeInv(D, N)
    BY Zenon DEF IInv
  <2>2. \A c \in {ckpt, renamed}, w \in {wal} \cup lostWal :
           ReplayPrefix(c, w, Complete(w)) = [ok |-> TRUE, objs |-> D, seq |-> N]
    BY <2>1, Zenon DEF AgreeInv, Agree
  <2>3. \A c \in {ckpt, renamed}, w \in {wal} \cup lostWal : ReplayPrefix(c, w, Complete(w)).objs = D
    BY <2>2
  <2> QED BY <2>3, Zenon DEF LossIsInvisible, Recovered
<1> QED BY <1>1, FilesAgree, PTL

-----------------------------------------------------------------------------
(* Disk implements DurableStore.                                           *)

\* What the next open finds is the agreed state, before and after a step.
LEMMA DurableIs ==
    ASSUME NEW D, NEW N
    PROVE  /\ AgreeInv(D, N) => Recovered.objs = D
           /\ AgreeInv(D, N)' => Recovered.objs' = D
<1> DEFINE st == [ok |-> TRUE, objs |-> D, seq |-> N]
<1>1. AgreeInv(D, N) => Recovered = st
  BY Zenon DEF AgreeInv, Agree, Recovered
<1>2. AgreeInv(D, N)' => Recovered' = st
  BY Zenon DEF AgreeInv, Agree, Recovered
<1> QED BY <1>1, <1>2

\* Every step of the store is a step of DurableStore, or changes nothing
\* that DurableStore shows.
LEMMA StoreStep == IInv /\ [Next]_vars => [Store!SNext]_Store!svars
<1> SUFFICES ASSUME IInv, [Next]_vars PROVE [Store!SNext]_Store!svars
  BY Zenon
<1> DEFINE usable == pc # "down" /\ ~failed
<1>1. PICK D \in SUBSET Objects, N \in 0 .. MaxSeq : AgreeInv(D, N)
  BY Zenon DEF IInv
<1>2. FileInv /\ Recovered.objs = D /\ (usable => objs = D)
  BY <1>1, DurableIs, Zenon DEF IInv, AgreeInv
<1>3. CASE Open
  <2>1. FileInv' /\ AgreeInv(D, N)'
    BY <1>1, <1>2, <1>3, QuietStep, Zenon
  <2>2. Recovered.objs' = D
    BY <2>1, DurableIs, Zenon
  <2>3. ~usable /\ pc' # "down" /\ failed' = failed /\ ~failed /\ objs' = D
    BY <1>2, <1>3, Zenon DEF Open, FileInv
  <2>4. Store!SOpen
    BY <1>2, <2>2, <2>3, Zenon DEF Store!SOpen
  <2> QED BY <2>4, Zenon DEF Store!SNext
<1>4. CASE WriteCheckpoint \/ SyncDir \/ TruncateWAL \/ SyncWAL
  <2>1. FileInv' /\ AgreeInv(D, N)'
    BY <1>1, <1>2, <1>4, QuietStep, Zenon
  <2>2. Recovered.objs' = D
    BY <2>1, DurableIs, Zenon
  <2>3. pc # "down" /\ pc' # "down" /\ failed' = failed /\ objs' = objs
    BY <1>4, Zenon DEF WriteCheckpoint, SyncDir, TruncateWAL, SyncWAL
  <2> QED BY <1>2, <2>2, <2>3, Zenon DEF Store!svars
<1>5. CASE Crash \/ Close
  <2>1. FileInv' /\ AgreeInv(D, N)'
    BY <1>1, <1>2, <1>5, QuietStep, Zenon
  <2>2. Recovered.objs' = D
    BY <2>1, DurableIs, Zenon
  <2>3. pc' = "down" /\ objs' = objs
    BY <1>5, Zenon DEF Crash, Close, Lost
  <2>4. CASE usable
    <3>1. Store!SStop
      BY <1>2, <2>2, <2>3, <2>4, Zenon DEF Store!SStop
    <3> QED BY <3>1, Zenon DEF Store!SNext
  <2>5. CASE ~usable
    BY <1>2, <2>2, <2>3, <2>5, Zenon DEF Store!svars
  <2> QED BY <2>4, <2>5, Zenon
<1>6. ASSUME NEW d \in Deltas, Apply(d) PROVE Store!SNext
  <2>0. usable
    BY <1>6, Zenon DEF Apply
  <2>1. /\ Valid(objs, d) /\ objs = D
        /\ \/ /\ AgreeInv(Result(D, d), N + 1)'
              /\ \/ pc' # "down" /\ ~failed' /\ objs' = Result(D, d)
                 \/ (pc' = "down" \/ failed') /\ objs' = objs
           \/ AgreeInv(D, N)' /\ (pc' = "down" \/ failed') /\ objs' = objs
    BY <1>1, <1>2, <1>6, ApplyStep, Zenon
  <2>2. CASE AgreeInv(Result(D, d), N + 1)' /\ pc' # "down" /\ ~failed' /\ objs' = Result(D, d)
    <3>1. Recovered.objs' = Result(D, d)
      BY <2>2, DurableIs, Zenon
    <3>2. Store!SApply
      BY <2>0, <2>1, <2>2, <3>1, Zenon DEF Store!SApply
    <3> QED BY <3>2, Zenon DEF Store!SNext
  <2>3. CASE AgreeInv(Result(D, d), N + 1)' /\ (pc' = "down" \/ failed') /\ objs' = objs
    <3>1. Recovered.objs' = Result(D, d)
      BY <2>3, DurableIs, Zenon
    <3>2. Store!SStop
      BY <2>0, <2>1, <2>3, <3>1, Zenon DEF Store!SStop
    <3> QED BY <3>2, Zenon DEF Store!SNext
  <2>4. CASE AgreeInv(D, N)' /\ (pc' = "down" \/ failed') /\ objs' = objs
    <3>1. Recovered.objs' = D
      BY <2>4, DurableIs, Zenon
    <3>2. Store!SStop
      BY <1>2, <2>0, <2>1, <2>4, <3>1, Zenon DEF Store!SStop
    <3> QED BY <3>2, Zenon DEF Store!SNext
  <2> QED BY <2>1, <2>2, <2>3, <2>4, Zenon
<1>7. CASE UNCHANGED vars
  <2>1. /\ pc' = pc /\ objs' = objs /\ failed' = failed /\ wal' = wal /\ renamed' = renamed
    BY <1>7, Zenon DEF vars
  <2>2. Recovered' = Recovered
    BY <2>1, Zenon DEF Recovered
  <2> QED BY <2>1, <2>2, Zenon DEF Store!svars
<1> QED BY <1>3, <1>4, <1>5, <1>6, <1>7, Zenon DEF Next

\* Disk implements DurableStore: an acknowledged delta survives every
\* failure of Apply, Checkpoint, Close and the power, and an unacknowledged
\* one is there completely or not at all.
THEOREM DiskIsDurable == Spec => DurableStoreSpec
<1>1. Init => Store!SInit
  <2> SUFFICES ASSUME Init PROVE Store!SInit
    BY Zenon
  <2>1. pc = "down" /\ objs = {} /\ wal = <<>> /\ renamed = [seq |-> 0, objs |-> {}]
    BY Zenon DEF Init, Empty
  <2>2. <<>> \in Logs /\ Agree({[seq |-> 0, objs |-> {}]}, {<<>>}, {}, 0)
    BY AgreeEmpty, Zenon
  <2>3. Recovered = [ok |-> TRUE, objs |-> {}, seq |-> 0]
    BY <2>1, <2>2, Zenon DEF Recovered, Agree
  <2>4. Recovered.objs = {}
    BY <2>3, Zenon
  <2> QED BY <2>1, <2>4, Zenon DEF Store!SInit
<1>2. IInv /\ [Next]_vars => [Store!SNext]_Store!svars
  BY StoreStep, Zenon
<1> QED BY <1>1, <1>2, FilesAgree, PTL DEF Spec, DurableStoreSpec, Store!SSpec

-----------------------------------------------------------------------------
(* Module ObserverSession.                                                 *)
(* Proofs about ObserverSession for any number of shards, blocks, restored *)
(* directories and anchor records.                                         *)

-----------------------------------------------------------------------------
(* The inductive invariant.                                                *)

Points == [height : Nat, hash : {"none", "certified"}]
Files == [records : Seq(Points), torn : BOOLEAN]
Histories == {None} \cup [absent : {FALSE}, records : Nat]
Dirs == [seeded : SUBSET ObserverShards, state : Nat, journal : Nat,
         history : Histories, marker : BOOLEAN]

\* The steps before the anchor is open, those at which it is open and no write
\* of it has failed, and among these the ones of a runtime that has served.
Starting == {"seed", "history", "anchor"}
Opened == {"replay", "mark", "anchored", "serving", "journaled", "recorded", "applied"}
Running == {"serving", "journaled", "recorded", "applied"}

\* A store that has been opened, and what stands for it before that.
OpenStores == [tip : Points, count : Nat, poisoned : BOOLEAN]
Stores == OpenStores \cup [poisoned : {FALSE}]
Sessions == [step : Starting \cup Opened \cup {"failed"}, existing : BOOLEAN,
             trusted : Nat, height : Nat, store : Stores]

TypeInv ==
    /\ dir \in Dirs /\ copy \in Dirs
    /\ anchor = NoAnchor \/ anchor \in Files
    /\ obs = Stopped \/ obs \in Sessions
    /\ served \in Nat /\ sealed \subseteq Nat

\* The last height in the external anchor file.
LastAnchored == IF anchor = NoAnchor \/ anchor.records = <<>> THEN 0
                ELSE anchor.records[Len(anchor.records)].height

\* What was served is anchored, and what was sealed was served.
ServedInv == served <= LastAnchored /\ \A h \in sealed : h <= served

\* The store in memory is at the end of the file as long as no write failed.
AnchorInv ==
    obs.step \in Opened =>
      /\ anchor # NoAnchor
      /\ obs.store \in OpenStores /\ ~obs.store.poisoned
      /\ obs.store.tip.height = LastAnchored

\* A first session has no checkpoint to honour and stays at genesis until it
\* serves, with an anchor it has created itself.
FirstInv ==
    /\ obs.step \in Starting \cup {"replay", "mark"} => obs.height = 0
    /\ obs.step \in Starting \cup {"mark"} /\ ~obs.existing => obs.trusted = 0
    /\ obs.step \in {"seed", "mark"} => ~obs.existing
    /\ obs.step = "history" => obs.existing
    /\ obs.step \in {"anchor", "mark"} /\ ~obs.existing => dir.state = 0
    /\ obs.step = "mark" => LastAnchored = 0

\* A later session has replayed the history up to the operator's checkpoint and
\* the anchored block; from then on the runtime, the anchor and what was served
\* are at the same block, and so are the shards outside a commit.
LaterInv ==
    /\ obs.step = "anchored" =>
         /\ obs.height >= obs.trusted /\ obs.height >= LastAnchored
         /\ dir.state = obs.height
    /\ obs.step \in Running =>
         /\ obs.height >= obs.trusted
         /\ obs.height = served /\ obs.height = LastAnchored
         /\ dir.state = IF obs.step = "applied" THEN obs.height + 1 ELSE obs.height

ObserverInv == TypeInv /\ ServedInv /\ AnchorInv /\ FirstInv /\ LaterInv

-----------------------------------------------------------------------------
(* The files.                                                              *)

\* No file is not a file.
LEMMA NoFile == NoAnchor \notin Files
BY Zenon DEF NoAnchor, Files

\* Stopped is not a session, and it is at no step of one.
LEMMA StoppedStep == Stopped \notin Sessions /\ Stopped.step = "stopped"
BY Zenon DEF Stopped, Sessions, Starting, Opened

\* An empty directory is a directory.
LEMMA EmptyDirType == EmptyDir \in Dirs
BY Zenon DEF EmptyDir, Dirs, Histories

\* A record appended to the file is its last one.
LEMMA AppendedLast ==
    ASSUME NEW file \in Files, NEW cp \in Points, NEW torn \in BOOLEAN
    PROVE  LET next == AnchorFile(Append(file.records, cp), torn)
           IN  /\ next \in Files /\ next # NoAnchor /\ next.records # <<>>
               /\ next.records[Len(next.records)] = cp
<1>1. file.records \in Seq(Points)
  BY Zenon DEF Files
<1>2. /\ Append(file.records, cp) \in Seq(Points)
      /\ Append(file.records, cp) # <<>>
      /\ Append(file.records, cp)[Len(Append(file.records, cp))] = cp
  BY <1>1
<1>3. AnchorFile(Append(file.records, cp), torn) \in Files
  BY <1>2, Zenon DEF AnchorFile, Files
<1> QED
  BY <1>2, <1>3, NoFile, Zenon DEF AnchorFile

\* A file that is opened or created gives a store at its end.
LEMMA OpenedStore ==
    ASSUME NEW file \in Files
    PROVE  /\ OpenFinalityAnchorStore(file) \in OpenStores
           /\ ~OpenFinalityAnchorStore(file).poisoned
           /\ OpenFinalityAnchorStore(file).tip.height =
                IF file.records = <<>> THEN 0 ELSE file.records[Len(file.records)].height
<1>1. file.records \in Seq(Points) /\ Len(file.records) \in Nat
  BY DEF Files
<1>2. file.records # <<>> => file.records[Len(file.records)] \in Points
  BY <1>1
<1>3. NoCheckpoint \in Points /\ NoCheckpoint.height = 0
  BY Zenon DEF NoCheckpoint, Points
<1> QED
  BY <1>1, <1>2, <1>3, Zenon DEF OpenFinalityAnchorStore, OpenStores

-----------------------------------------------------------------------------
(* The invariant holds initially and every step keeps it.                  *)

\* Before the first session.
LEMMA ObserverInitial == ObserverInit => ObserverInv
<1> SUFFICES ASSUME ObserverInit PROVE ObserverInv
  BY Zenon
<1>1. LastAnchored = 0
  BY Zenon DEF ObserverInit, LastAnchored
<1>2. TypeInv /\ ServedInv
  BY <1>1, EmptyDirType DEF ObserverInit, TypeInv, ServedInv
<1>3. AnchorInv /\ FirstInv /\ LaterInv
  BY StoppedStep, Zenon DEF ObserverInit, AnchorInv, FirstInv, LaterInv, Starting, Opened, Running
<1> QED
  BY <1>2, <1>3, Zenon DEF ObserverInv

\* A step that leaves the anchor file and what was served alone, and the shards
\* too, keeps the invariant when it moves to a session that satisfies it.
LEMMA SessionStep ==
    ASSUME ObserverInv, UNCHANGED <<anchor, served, sealed>>, dir' \in Dirs, copy' \in Dirs,
           obs' = Stopped \/ obs' \in Sessions,
           AnchorInv', FirstInv', LaterInv'
    PROVE  ObserverInv'
<1>1. LastAnchored' = LastAnchored
  BY Zenon DEF LastAnchored
<1> QED
  BY <1>1, Zenon DEF ObserverInv, TypeInv, ServedInv

\* OpenObserver: a first session takes no checkpoint.
LEMMA OpenObserverInv ==
    ASSUME ObserverInv, NEW trusted \in 0..MaxSessionHeight, OpenObserver(trusted)
    PROVE  ObserverInv'
<1>1. obs' = [step |-> IF dir.marker THEN "history" ELSE "seed",
               existing |-> dir.marker, trusted |-> trusted,
               height   |-> 0, store |-> [poisoned |-> FALSE]]
  BY Zenon DEF OpenObserver
<1>2. dir.marker \in BOOLEAN
  BY Zenon DEF ObserverInv, TypeInv, Dirs
<1>3. obs' \in Sessions
  BY <1>1, <1>2 DEF Sessions, Starting, Stores
<1>4. trusted > 0 => dir.marker
  BY Zenon DEF OpenObserver
<1>5. AnchorInv' /\ FirstInv' /\ LaterInv'
  BY <1>1, <1>2, <1>4 DEF AnchorInv, FirstInv, LaterInv, Starting, Opened, Running
<1> QED
  BY <1>3, <1>5, SessionStep, Zenon DEF OpenObserver, ObserverInv, TypeInv

\* SeedStates.
LEMMA SeedStatesInv ==
    ASSUME ObserverInv, NEW s \in ObserverShards, SeedStates(s)
    PROVE  ObserverInv'
<1>1. dir' \in Dirs /\ dir'.state = dir.state
  BY Zenon DEF SeedStates, ObserverInv, TypeInv, Dirs
<1>2. UNCHANGED <<anchor, obs, copy, served, sealed>>
  BY Zenon DEF SeedStates
<1>3. AnchorInv' /\ FirstInv' /\ LaterInv'
  BY <1>1, <1>2, Zenon DEF ObserverInv, AnchorInv, FirstInv, LaterInv, LastAnchored
<1> QED
  BY <1>1, <1>2, <1>3, SessionStep, Zenon DEF ObserverInv, TypeInv

\* Another step of the session, with the same session otherwise.
LEMMA NextStep ==
    ASSUME NEW session \in Sessions, NEW step \in Starting \cup Opened \cup {"failed"}
    PROVE  LET next == [session EXCEPT !.step = step]
           IN  /\ next \in Sessions /\ next.step = step
               /\ next.existing = session.existing /\ next.trusted = session.trusted
               /\ next.height = session.height /\ next.store = session.store
BY Zenon DEF Sessions

\* CreateHistory: a first session finds the shards at genesis.
LEMMA CreateHistoryInv ==
    ASSUME ObserverInv, CreateHistory
    PROVE  ObserverInv'
<1>1. /\ obs.step = "seed" /\ dir.state = 0 /\ obs' = [obs EXCEPT !.step = "anchor"]
      /\ dir' = [dir EXCEPT !.history = History(0)]
      /\ UNCHANGED <<anchor, copy, served, sealed>>
  BY Zenon DEF CreateHistory, AtGenesis
<1>2. dir' \in Dirs /\ dir'.state = 0
  BY <1>1, Zenon DEF ObserverInv, TypeInv, Dirs, Histories, History
<1>3. obs \in Sessions
  BY <1>1, StoppedStep, Zenon DEF ObserverInv, TypeInv
<1>4. /\ obs' \in Sessions /\ obs'.step = "anchor" /\ obs'.existing = obs.existing
      /\ obs'.trusted = obs.trusted /\ obs'.height = obs.height
  BY <1>1, <1>3, NextStep, Zenon DEF Starting
<1>5. AnchorInv' /\ FirstInv' /\ LaterInv'
  BY <1>1, <1>2, <1>4, Zenon DEF ObserverInv, AnchorInv, FirstInv, LaterInv, Starting, Opened, Running
<1> QED
  BY <1>1, <1>2, <1>4, <1>5, SessionStep, Zenon DEF ObserverInv, TypeInv

\* OpenHistory, in a later session.
LEMMA OpenHistoryInv ==
    ASSUME ObserverInv, OpenHistory
    PROVE  ObserverInv'
<1>1. /\ obs.step = "history" /\ obs' = [obs EXCEPT !.step = "anchor"]
      /\ UNCHANGED <<dir, anchor, copy, served, sealed>>
  BY Zenon DEF OpenHistory
<1>2. obs \in Sessions
  BY <1>1, StoppedStep, Zenon DEF ObserverInv, TypeInv
<1>3. /\ obs' \in Sessions /\ obs'.step = "anchor" /\ obs'.existing = obs.existing
      /\ obs'.trusted = obs.trusted /\ obs'.height = obs.height
  BY <1>1, <1>2, NextStep, Zenon DEF Starting
<1>4. AnchorInv' /\ FirstInv' /\ LaterInv'
  BY <1>1, <1>3, Zenon DEF ObserverInv, AnchorInv, FirstInv, LaterInv, Starting, Opened, Running
<1> QED
  BY <1>1, <1>3, <1>4, SessionStep, Zenon DEF ObserverInv, TypeInv

\* OpenAnchor: the anchor is created only when there is none, and so nothing
\* was served.
LEMMA OpenAnchorInv ==
    ASSUME ObserverInv, OpenAnchor
    PROVE  ObserverInv'
<1>1. /\ obs.step = "anchor" /\ CanOpenAnchor(anchor, ~obs.existing)
      /\ anchor' = OpenedFile(anchor, ~obs.existing)
      /\ obs' = [obs EXCEPT !.step = IF obs.existing THEN "replay" ELSE "mark",
                            !.store = OpenFinalityAnchorStore(anchor')]
      /\ UNCHANGED <<dir, copy, served, sealed>>
  BY Zenon DEF OpenAnchor
<1>2. obs \in Sessions /\ obs.existing \in BOOLEAN
  BY <1>1, StoppedStep, Zenon DEF ObserverInv, TypeInv, Sessions
<1>3. anchor' \in Files /\ anchor' # NoAnchor /\ LastAnchored' = LastAnchored
  <2>1. CASE obs.existing
    BY <1>1, <2>1, NoFile, Zenon DEF ObserverInv, TypeInv, CanOpenAnchor, OpenedFile, LastAnchored
  <2>2. CASE ~obs.existing
    <3>1. anchor = NoAnchor /\ anchor' = AnchorFile(<<>>, FALSE)
      BY <1>1, <2>2, Zenon DEF CanOpenAnchor, OpenedFile
    <3>2. AnchorFile(<<>>, FALSE) \in Files /\ AnchorFile(<<>>, FALSE).records = <<>>
      BY DEF AnchorFile, Files
    <3> QED
      BY <3>1, <3>2, NoFile, Zenon DEF LastAnchored
  <2> QED
    BY <1>2, <2>1, <2>2, Zenon
<1>4. ~obs.existing => LastAnchored = 0
  BY <1>1, Zenon DEF CanOpenAnchor, LastAnchored
<1>5. /\ OpenFinalityAnchorStore(anchor') \in OpenStores
      /\ ~OpenFinalityAnchorStore(anchor').poisoned
      /\ OpenFinalityAnchorStore(anchor').tip.height = LastAnchored'
  BY <1>3, OpenedStore, Zenon DEF LastAnchored
<1>6. /\ obs' \in Sessions /\ obs'.step = IF obs.existing THEN "replay" ELSE "mark"
      /\ obs'.existing = obs.existing /\ obs'.trusted = obs.trusted
      /\ obs'.height = obs.height /\ obs'.store = OpenFinalityAnchorStore(anchor')
  <2> DEFINE opened == OpenFinalityAnchorStore(anchor')
             step == IF obs.existing THEN "replay" ELSE "mark"
  <2>1. opened \in Stores /\ step \in Opened
    BY <1>5, Zenon DEF Stores, Opened
  <2>2. obs' = [obs EXCEPT !.step = step, !.store = opened]
    BY <1>1, Zenon
  <2> HIDE DEF opened, step
  <2>3. /\ obs' \in Sessions /\ obs'.step = step /\ obs'.existing = obs.existing
        /\ obs'.trusted = obs.trusted /\ obs'.height = obs.height /\ obs'.store = opened
    BY <1>2, <2>1, <2>2, Zenon DEF Sessions
  <2> QED
    BY <2>3, Zenon DEF opened, step
<1>7. TypeInv' /\ ServedInv'
  BY <1>1, <1>3, <1>6, Zenon DEF ObserverInv, TypeInv, ServedInv
<1>8. AnchorInv' /\ FirstInv' /\ LaterInv'
  BY <1>1, <1>2, <1>3, <1>4, <1>5, <1>6
  DEF ObserverInv, AnchorInv, FirstInv, LaterInv, Starting, Opened, Running
<1> QED
  BY <1>7, <1>8, Zenon DEF ObserverInv

\* RecoverCertifiedHistory: the replayed history reaches the checkpoints.
LEMMA RecoverCertifiedHistoryInv ==
    ASSUME ObserverInv, RecoverCertifiedHistory
    PROVE  ObserverInv'
<1>1. /\ obs.step = "replay" /\ Replays
      /\ dir' = [dir EXCEPT !.state = dir.journal]
      /\ obs' = [obs EXCEPT !.step = "anchored", !.height = dir.journal]
      /\ UNCHANGED <<anchor, copy, served, sealed>>
  BY Zenon DEF RecoverCertifiedHistory
<1>2. obs \in Sessions /\ dir \in Dirs /\ dir.journal \in Nat
  BY <1>1, StoppedStep, Zenon DEF ObserverInv, TypeInv, Dirs
<1>3. dir' \in Dirs /\ dir'.state = dir.journal
  BY <1>1, <1>2, Zenon DEF Dirs
<1>4. /\ obs' \in Sessions /\ obs'.step = "anchored" /\ obs'.trusted = obs.trusted
      /\ obs'.height = dir.journal /\ obs'.store = obs.store
  BY <1>1, <1>2, Zenon DEF Sessions, Opened
<1>5. /\ obs.store.tip.height = LastAnchored /\ obs.store \in OpenStores
      /\ anchor # NoAnchor /\ ~obs.store.poisoned
  BY <1>1, Zenon DEF ObserverInv, AnchorInv, Opened
<1>6. obs.trusted \in Nat /\ obs.store.tip.height \in Nat
  BY <1>2, <1>5, Zenon DEF Sessions, OpenStores, Points
<1>7. obs.trusted <= dir.journal /\ obs.store.tip.height <= dir.journal
  <2>1. \A h \in {obs.trusted, obs.store.tip.height} \ {0} : h <= dir.journal
    BY <1>1, Zenon DEF Replays, Required
  <2> QED
    BY <1>2, <1>6, <2>1
<1>8. LastAnchored' = LastAnchored
  BY <1>1, Zenon DEF LastAnchored
<1>9. AnchorInv' /\ FirstInv' /\ LaterInv'
  BY <1>1, <1>3, <1>4, <1>5, <1>6, <1>7, <1>8, Zenon
  DEF AnchorInv, FirstInv, LaterInv, Starting, Opened, Running
<1> QED
  BY <1>1, <1>3, <1>4, <1>9, SessionStep, Zenon DEF ObserverInv, TypeInv

\* WriteMarker: a first session serves genesis.
LEMMA WriteMarkerInv ==
    ASSUME ObserverInv, WriteMarker
    PROVE  ObserverInv'
<1>1. /\ obs.step = "mark" /\ obs' = [obs EXCEPT !.step = "serving"]
      /\ dir' = [dir EXCEPT !.marker = TRUE]
      /\ UNCHANGED <<anchor, copy, served, sealed>>
  BY Zenon DEF WriteMarker
<1>2. obs \in Sessions
  BY <1>1, StoppedStep, Zenon DEF ObserverInv, TypeInv
<1>3. dir' \in Dirs /\ dir'.state = dir.state
  BY <1>1, Zenon DEF ObserverInv, TypeInv, Dirs
<1>4. /\ obs' \in Sessions /\ obs'.step = "serving" /\ obs'.existing = obs.existing
      /\ obs'.trusted = obs.trusted /\ obs'.height = obs.height /\ obs'.store = obs.store
  BY <1>1, <1>2, NextStep, Zenon DEF Opened
<1>5. /\ obs.height = 0 /\ obs.trusted = 0 /\ dir.state = 0 /\ LastAnchored = 0
      /\ served = 0
  BY <1>1 DEF ObserverInv, TypeInv, FirstInv, ServedInv, Starting
<1>6. LastAnchored' = LastAnchored
  BY <1>1, Zenon DEF LastAnchored
<1>7. AnchorInv' /\ FirstInv' /\ LaterInv'
  BY <1>1, <1>3, <1>4, <1>5, <1>6
  DEF ObserverInv, AnchorInv, FirstInv, LaterInv, Starting, Opened, Running
<1> QED
  BY <1>1, <1>3, <1>4, <1>7, SessionStep, Zenon DEF ObserverInv, TypeInv

\* A step of a commit before the anchor: only the directory and the step change.
LEMMA CommitStep ==
    ASSUME ObserverInv, obs.step \in Running, NEW step \in Running,
           obs' = [obs EXCEPT !.step = step], dir' \in Dirs,
           dir'.state = IF step = "applied" THEN obs.height + 1 ELSE obs.height,
           UNCHANGED <<anchor, copy, served, sealed>>
    PROVE  ObserverInv'
<1>1. obs \in Sessions
  BY StoppedStep, Zenon DEF ObserverInv, TypeInv, Running
<1>2. /\ obs' \in Sessions /\ obs'.step = step /\ obs'.existing = obs.existing
      /\ obs'.trusted = obs.trusted /\ obs'.height = obs.height /\ obs'.store = obs.store
  BY <1>1, NextStep, Zenon DEF Opened, Running
<1>3. LastAnchored' = LastAnchored
  BY Zenon DEF LastAnchored
<1>4. AnchorInv' /\ FirstInv' /\ LaterInv'
  BY <1>2, <1>3, Zenon DEF ObserverInv, AnchorInv, FirstInv, LaterInv, Starting, Opened, Running
<1> QED
  BY <1>2, <1>4, SessionStep, Zenon DEF ObserverInv, TypeInv

\* The writes of Commit before the anchor's.
LEMMA CommitInv ==
    ASSUME ObserverInv, CommitJournal \/ CommitHistory \/ CommitShards
    PROVE  ObserverInv'
<1>1. ASSUME obs.step \in Running
      PROVE  /\ obs \in Sessions /\ obs.height \in Nat /\ dir \in Dirs
             /\ obs.step # "applied" => dir.state = obs.height
  BY <1>1, StoppedStep, Zenon DEF ObserverInv, TypeInv, LaterInv, Sessions, Running
<1>2. CASE CommitJournal
  <2>1. /\ obs.step = "serving" /\ dir' = [dir EXCEPT !.journal = obs.height + 1]
        /\ obs' = [obs EXCEPT !.step = "journaled"] /\ UNCHANGED <<anchor, copy, served, sealed>>
    BY <1>2, Zenon DEF CommitJournal
  <2>2. dir' \in Dirs /\ dir'.state = obs.height
    BY <1>1, <2>1 DEF Dirs, Running
  <2> QED
    BY <2>1, <2>2, CommitStep, Zenon DEF Running
<1>3. CASE CommitHistory
  <2>1. /\ obs.step = "journaled" /\ dir' = [dir EXCEPT !.history = History(obs.height + 1)]
        /\ obs' = [obs EXCEPT !.step = "recorded"] /\ UNCHANGED <<anchor, copy, served, sealed>>
    BY <1>3, Zenon DEF CommitHistory
  <2>2. dir' \in Dirs /\ dir'.state = obs.height
    <3>1. History(obs.height + 1) \in Histories
      BY <1>1, <2>1 DEF Running, Histories, History
    <3> QED
      BY <1>1, <2>1, <3>1, Zenon DEF Dirs, Running
  <2> QED
    BY <2>1, <2>2, CommitStep, Zenon DEF Running
<1>4. CASE CommitShards
  <2>1. /\ obs.step = "recorded" /\ dir' = [dir EXCEPT !.state = obs.height + 1]
        /\ obs' = [obs EXCEPT !.step = "applied"] /\ UNCHANGED <<anchor, copy, served, sealed>>
    BY <1>4, Zenon DEF CommitShards
  <2>2. dir' \in Dirs /\ dir'.state = obs.height + 1
    BY <1>1, <2>1 DEF Dirs, Running
  <2> QED
    BY <2>1, <2>2, CommitStep, Zenon DEF Running
<1> QED
  BY <1>2, <1>3, <1>4, Zenon

\* What advance may return on a healthy store: success leaves the file, and the
\* store, at the checkpoint; a failure leaves the file at the checkpoint or at
\* the record before it, which is not higher.
LEMMA AdvanceResult ==
    ASSUME NEW store \in OpenStores, NEW file \in Files, NEW cp \in Points,
           NEW result \in advance(store, file, cp), ~store.poisoned
    PROVE  /\ result.ok \in BOOLEAN /\ result.file \in Files /\ result.store \in OpenStores
           /\ result.ok =>
                /\ ~result.store.poisoned /\ result.store.tip.height = cp.height
                /\ cp.height >= store.tip.height
                /\ \/ result.file = file /\ cp.height = store.tip.height
                   \/ /\ result.file.records # <<>>
                      /\ result.file.records[Len(result.file.records)] = cp
           /\ ~result.ok =>
                \/ result.file.records = file.records
                \/ /\ cp.height >= store.tip.height /\ result.file.records # <<>>
                   /\ result.file.records[Len(result.file.records)] = cp
<1> DEFINE written == AnchorFile(Append(file.records, cp), FALSE)
           poisoned == [store EXCEPT !.poisoned = TRUE]
           moved == [store EXCEPT !.tip = cp, !.count = @ + 1]
           torn == AnchorFile(file.records, TRUE)
           Outcome(s, f, ok) == [store |-> s, file |-> f, ok |-> ok]
<1>1. /\ written \in Files /\ written.records # <<>>
      /\ written.records[Len(written.records)] = cp
  BY AppendedLast, Zenon
<1>2. poisoned \in OpenStores
  BY Zenon DEF OpenStores
<1>3. moved \in OpenStores /\ moved.poisoned = store.poisoned /\ moved.tip = cp
  <2> DEFINE tipped == [store EXCEPT !.tip = cp]
  <2>1. tipped \in OpenStores /\ tipped.poisoned = store.poisoned /\ tipped.tip = cp
    BY Zenon DEF OpenStores
  <2>2. moved = [tipped EXCEPT !.count = @ + 1]
    BY Zenon DEF OpenStores
  <2> HIDE DEF tipped, moved
  <2>3. moved \in OpenStores /\ moved.poisoned = tipped.poisoned /\ moved.tip = tipped.tip
    BY <2>1, <2>2 DEF OpenStores
  <2> QED
    BY <2>1, <2>3, Zenon
<1>4. torn \in Files /\ torn.records = file.records
  BY Zenon DEF AnchorFile, Files
<1>5. store.tip.height \in Nat /\ cp.height \in Nat
  BY Zenon DEF OpenStores, Points
<1>6. \/ result = Outcome(store, file, FALSE)
      \/ /\ ~Regresses(store, cp) /\ cp.height = store.tip.height
         /\ result = Outcome(store, file, TRUE)
      \/ /\ ~Regresses(store, cp)
         /\ result \in {Outcome(moved, written, TRUE), Outcome(poisoned, written, FALSE),
                        Outcome(poisoned, file, FALSE), Outcome(poisoned, torn, FALSE)}
  BY Zenon DEF advance
<1>7. ~Regresses(store, cp) => cp.height >= store.tip.height
  BY <1>5 DEF Regresses
<1> HIDE DEF written, poisoned, moved, torn
<1>8. CASE result = Outcome(store, file, FALSE)
  BY <1>8, Zenon
<1>9. CASE ~Regresses(store, cp) /\ cp.height = store.tip.height /\ result = Outcome(store, file, TRUE)
  <2>1. result.ok = TRUE /\ result.file = file /\ result.store = store
    BY <1>9, Zenon
  <2> QED
    BY <1>5, <1>9, <2>1
<1>10. CASE ~Regresses(store, cp) /\ result = Outcome(moved, written, TRUE)
  <2>1. result.ok = TRUE /\ result.file = written /\ result.store = moved
    BY <1>10, Zenon
  <2>2. ~result.store.poisoned /\ result.store \in OpenStores
    BY <1>3, <2>1, Zenon
  <2> QED
    BY <1>1, <1>3, <1>7, <1>10, <2>1, <2>2, Zenon
<1>11. CASE ~Regresses(store, cp) /\ result = Outcome(poisoned, written, FALSE)
  <2>1. result.ok = FALSE /\ result.file = written /\ result.store = poisoned
    BY <1>11, Zenon
  <2> QED
    BY <1>1, <1>2, <1>7, <1>11, <2>1, Zenon
<1>12. CASE result \in {Outcome(poisoned, file, FALSE), Outcome(poisoned, torn, FALSE)}
  <2>1. result.ok = FALSE /\ result.file \in {file, torn} /\ result.store = poisoned
    BY <1>12
  <2> QED
    BY <1>2, <1>4, <2>1, Zenon
<1> QED
  BY <1>6, <1>8, <1>9, <1>10, <1>11, <1>12, Zenon

\* The anchor advanced at the end of a recovery or of a commit: what is served
\* is recorded first, and a failure serves nothing.
LEMMA AdvanceInv ==
    ASSUME ObserverInv, obs.step \in {"anchored", "applied"}, NEW next \in Sessions,
           next.trusted = obs.trusted, next.height \in Nat \ {0} \/ next.height = obs.height,
           next.height >= obs.trusted, dir.state = next.height,
           AdvanceAnchor(next), UNCHANGED <<dir, copy, sealed>>
    PROVE  ObserverInv'
<1> DEFINE cp == Checkpoint(next.height)
<1>1. /\ obs \in Sessions /\ obs.store \in OpenStores /\ ~obs.store.poisoned
      /\ obs.store.tip.height = LastAnchored /\ anchor # NoAnchor /\ anchor \in Files
      /\ next.height \in Nat /\ served \in Nat /\ LastAnchored \in Nat
  BY StoppedStep, Zenon DEF ObserverInv, TypeInv, AnchorInv, Opened, OpenStores, Points, Sessions
<1>2. cp \in Points /\ cp.height = next.height
  BY <1>1, Zenon DEF Checkpoint, Points
<1>3. PICK result \in advance(obs.store, anchor, cp) :
        /\ anchor' = result.file
        /\ obs' = IF result.ok
                   THEN [next EXCEPT !.store = result.store, !.step = "serving"]
                   ELSE [obs EXCEPT !.store = result.store, !.step = "failed"]
        /\ served' = IF result.ok /\ next.height > served THEN next.height ELSE served
  BY Zenon DEF AdvanceAnchor
<1> HIDE DEF cp
<1>4. /\ result.ok \in BOOLEAN /\ result.file \in Files /\ result.store \in OpenStores
      /\ result.ok =>
           /\ ~result.store.poisoned /\ result.store.tip.height = cp.height
           /\ cp.height >= obs.store.tip.height
           /\ \/ result.file = anchor /\ cp.height = obs.store.tip.height
              \/ /\ result.file.records # <<>>
                 /\ result.file.records[Len(result.file.records)] = cp
      /\ ~result.ok =>
           \/ result.file.records = anchor.records
           \/ /\ cp.height >= obs.store.tip.height /\ result.file.records # <<>>
              /\ result.file.records[Len(result.file.records)] = cp
  BY <1>1, <1>2, AdvanceResult, Zenon
<1>5. anchor' \in Files /\ anchor' # NoAnchor
  BY <1>3, <1>4, NoFile, Zenon
<1>6. LastAnchored' >= LastAnchored /\ LastAnchored' \in Nat
  BY <1>1, <1>2, <1>3, <1>4, <1>5 DEF LastAnchored
<1>7. result.ok => LastAnchored' = next.height /\ served' = next.height
  BY <1>1, <1>2, <1>3, <1>4, <1>5 DEF LastAnchored, ObserverInv, ServedInv
<1>8. CASE result.ok
  <2>1. /\ obs' \in Sessions /\ obs'.step = "serving" /\ obs'.height = next.height
        /\ obs'.trusted = obs.trusted /\ obs'.store = result.store
    BY <1>1, <1>3, <1>4, <1>8, Zenon DEF Sessions, Stores, Opened
  <2>2. TypeInv'
    BY <1>1, <1>5, <1>7, <1>8, <2>1, Zenon DEF ObserverInv, TypeInv
  <2>3. ServedInv'
    <3>1. served <= served' /\ served' = LastAnchored' /\ served' \in Nat
      BY <1>1, <1>6, <1>7, <1>8 DEF ObserverInv, ServedInv
    <3>2. \A h \in sealed : h \in Nat /\ h <= served
      BY Zenon DEF ObserverInv, TypeInv, ServedInv
    <3> QED
      BY <1>1, <3>1, <3>2 DEF ServedInv
  <2>4. AnchorInv' /\ FirstInv' /\ LaterInv'
    BY <1>1, <1>2, <1>4, <1>5, <1>7, <1>8, <2>1, Zenon
    DEF AnchorInv, FirstInv, LaterInv, Starting, Opened, Running
  <2> QED
    BY <2>2, <2>3, <2>4, Zenon DEF ObserverInv
<1>9. CASE ~result.ok
  <2>1. obs' \in Sessions /\ obs'.step = "failed"
    BY <1>1, <1>3, <1>4, <1>9, Zenon DEF Sessions, Stores
  <2>2. served' = served
    BY <1>3, <1>9, Zenon
  <2>3. TypeInv' /\ ServedInv'
    BY <1>1, <1>5, <1>6, <2>1, <2>2 DEF ObserverInv, TypeInv, ServedInv
  <2>4. AnchorInv' /\ FirstInv' /\ LaterInv'
    BY <2>1, Zenon DEF AnchorInv, FirstInv, LaterInv, Starting, Opened, Running
  <2> QED
    BY <2>3, <2>4, Zenon DEF ObserverInv
<1> QED
  BY <1>4, <1>8, <1>9, Zenon

\* The anchor at the end of a recovery.
LEMMA RecoverAnchorInv ==
    ASSUME ObserverInv, RecoverAnchor
    PROVE  ObserverInv'
<1>1. obs.step = "anchored" /\ AdvanceAnchor(obs) /\ UNCHANGED <<dir, copy, sealed>>
  BY Zenon DEF RecoverAnchor
<1>2. obs \in Sessions
  BY <1>1, StoppedStep, Zenon DEF ObserverInv, TypeInv
<1>3. obs.height >= obs.trusted /\ dir.state = obs.height
  BY <1>1, Zenon DEF ObserverInv, LaterInv
<1> QED
  BY <1>1, <1>2, <1>3, AdvanceInv, Zenon

\* The anchor at the end of a commit, which publishes the new height.
LEMMA CommitAnchorInv ==
    ASSUME ObserverInv, CommitAnchor
    PROVE  ObserverInv'
<1> DEFINE next == [obs EXCEPT !.height = @ + 1]
<1>1. obs.step = "applied" /\ AdvanceAnchor(next) /\ UNCHANGED <<dir, copy, sealed>>
  BY Zenon DEF CommitAnchor
<1>2. obs \in Sessions /\ obs.height \in Nat /\ obs.trusted \in Nat
  BY <1>1, StoppedStep, Zenon DEF ObserverInv, TypeInv, Sessions
<1>3. next \in Sessions /\ next.height = obs.height + 1 /\ next.trusted = obs.trusted
  BY <1>2 DEF Sessions
<1>4. obs.height >= obs.trusted /\ dir.state = obs.height + 1
  BY <1>1, Zenon DEF ObserverInv, LaterInv, Running
<1> HIDE DEF next
<1>5. next.height >= obs.trusted /\ dir.state = next.height /\ next.height \in Nat \ {0}
  BY <1>2, <1>3, <1>4
<1> QED
  BY <1>1, <1>3, <1>5, AdvanceInv, Zenon

\* SealTip: the sealed tip was served.
LEMMA SealTipInv ==
    ASSUME ObserverInv, SealTip
    PROVE  ObserverInv'
<1>1. /\ obs.step = "serving" /\ sealed' = sealed \cup {obs.height}
      /\ UNCHANGED <<dir, anchor, obs, copy, served>>
  BY Zenon DEF SealTip
<1>2. obs.height = served
  BY <1>1, Zenon DEF ObserverInv, LaterInv, Running
<1>3. TypeInv' /\ ServedInv'
  <2>1. LastAnchored' = LastAnchored
    BY <1>1, Zenon DEF LastAnchored
  <2>2. served \in Nat /\ served <= LastAnchored /\ \A h \in sealed : h <= served
    BY Zenon DEF ObserverInv, TypeInv, ServedInv
  <2>3. \A h \in sealed' : h <= served
    BY <1>1, <1>2, <2>2
  <2>4. ServedInv'
    BY <1>1, <2>1, <2>2, <2>3, Zenon DEF ServedInv
  <2> QED
    BY <1>1, <1>2, <2>2, <2>4, Zenon DEF ObserverInv, TypeInv
<1>4. AnchorInv' /\ FirstInv' /\ LaterInv'
  BY <1>1, Zenon DEF ObserverInv, AnchorInv, FirstInv, LaterInv, LastAnchored
<1> QED
  BY <1>3, <1>4, Zenon DEF ObserverInv

\* A stopped observer knows nothing; its directory may be replaced.
LEMMA StoppedInv ==
    ASSUME ObserverInv, obs' = Stopped, dir' \in Dirs, copy' \in Dirs,
           UNCHANGED <<anchor, served, sealed>>
    PROVE  ObserverInv'
<1>1. AnchorInv' /\ FirstInv' /\ LaterInv'
  BY StoppedStep, Zenon DEF AnchorInv, FirstInv, LaterInv, Starting, Opened, Running
<1> QED
  BY <1>1, SessionStep, Zenon

\* Every step, also one that changes nothing, keeps the invariant.
LEMMA ObserverStep == ObserverInv /\ [ObserverNext]_observerVars => ObserverInv'
<1> SUFFICES ASSUME ObserverInv, [ObserverNext]_observerVars PROVE ObserverInv'
  BY Zenon
<1>1. dir \in Dirs /\ copy \in Dirs
  BY Zenon DEF ObserverInv, TypeInv
<1>2. CASE StopObserver
  BY <1>1, <1>2, StoppedInv, Zenon DEF StopObserver
<1>3. CASE CopyDir
  BY <1>1, <1>3, StoppedInv, Zenon DEF CopyDir
<1>4. CASE \E d \in {copy, EmptyDir} : RestoreDir(d)
  BY <1>1, <1>4, StoppedInv, EmptyDirType, Zenon DEF RestoreDir
<1>5. CASE UNCHANGED observerVars
  <2>1. AnchorInv' /\ FirstInv' /\ LaterInv'
    BY <1>5, Zenon DEF observerVars, ObserverInv, AnchorInv, FirstInv, LaterInv, LastAnchored
  <2> QED
    BY <1>1, <1>5, <2>1, SessionStep, Zenon DEF observerVars, ObserverInv, TypeInv
<1> QED
  BY <1>2, <1>3, <1>4, <1>5, OpenObserverInv, SeedStatesInv, CreateHistoryInv, OpenHistoryInv,
     OpenAnchorInv, RecoverCertifiedHistoryInv, RecoverAnchorInv, WriteMarkerInv, CommitInv,
     CommitAnchorInv, SealTipInv, Zenon
  DEF ObserverNext

\* The invariant holds in every reachable state.
THEOREM ObserverInvariance == ObserverSpec => []ObserverInv
BY ObserverInitial, ObserverStep, PTL DEF ObserverSpec

-----------------------------------------------------------------------------
(* The property.                                                           *)

\* An observer that serves is at least at the operator's checkpoint, at the
\* anchored block and at every block it ever served or sealed, and its shards
\* are at the block it serves, whatever directory it was started on and
\* wherever an earlier session stopped (OpenObserver, RecoverCertifiedHistory,
\* FinalityAnchorStore.advance).
THEOREM NeverServesOlderHolds == ObserverSpec => []NeverServesOlder
<1>1. ObserverInv => NeverServesOlder
  <2> SUFFICES ASSUME ObserverInv, obs.step = "serving"
               PROVE  /\ obs.height >= obs.trusted /\ obs.height >= served
                      /\ obs.height >= obs.store.tip.height /\ dir.state = obs.height
                      /\ \A h \in sealed : h <= obs.height
    BY Zenon DEF NeverServesOlder
  <2>1. /\ obs.height >= obs.trusted /\ obs.height = served /\ obs.height = LastAnchored
        /\ dir.state = obs.height
    BY Zenon DEF ObserverInv, LaterInv, Running
  <2>2. obs.store.tip.height = LastAnchored
    BY Zenon DEF ObserverInv, AnchorInv, Opened
  <2> QED
    BY <2>1, <2>2, Zenon DEF ObserverInv, TypeInv, ServedInv
<1> QED
  BY <1>1, ObserverInvariance, PTL
=============================================================================
