---------------------------- MODULE RecordProofs ----------------------------
(***************************************************************************)
(* Lemmas about what the state of a v1 node is made of: lists, voting      *)
(* power and quorums (ConsensusState) and the log of consensus actions     *)
(* (ConsensusLog).  LedgerProofs and HandlerProofs rest on them.           *)
(***************************************************************************)
EXTENDS ConsensusState, WellFoundedInduction, TLAPS

-----------------------------------------------------------------------------
(* Induction follows from the least counterexample.                        *)

(* A set that holds 0, and n + 1 with every n, holds every number.         *)
LEMMA SetInduction ==
    ASSUME NEW S, 0 \in S, \A n \in Nat : n \in S => n + 1 \in S
    PROVE  Nat \subseteq S
<1> DEFINE T == Nat \ S
           R == {ss \in Nat \X Nat : ss[1] < ss[2]}
<1> SUFFICES ASSUME T # {} PROVE FALSE
  BY Zenon
<1>1. IsWellFoundedOn(R, Nat)
  BY NatLessThanWellFounded, Zenon DEF OpToRel
<1>2. PICK x \in T : \A y \in T : ~(<<y, x>> \in R)
  <2>1. T \subseteq Nat
    BY Zenon
  <2> HIDE DEF T, R
  <2> QED BY <1>1, <2>1, WFMin, Zenon
<1>3. x \in Nat /\ x # 0 /\ x \notin S
  BY Zenon
<1>4. x - 1 \in Nat /\ x - 1 < x /\ (x - 1) + 1 = x
  BY <1>3
<1>5. x - 1 \in T
  BY <1>3, <1>4, Zenon
<1>6. <<x - 1, x>> \in R
  BY <1>3, <1>4, Zenon
<1> QED BY <1>2, <1>5, <1>6, Zenon

-----------------------------------------------------------------------------
(* Sequences.                                                              *)

IsSeq(s) == s \in Seq(Elements(s))

(* A sequence over some set is one over its elements.                      *)
LEMMA SeqOver ==
    ASSUME NEW X, NEW s \in Seq(X)
    PROVE  IsSeq(s) /\ Elements(s) \subseteq X /\ Len(s) \in Nat
<1>1. Len(s) \in Nat /\ s = [i \in 1..Len(s) |-> s[i]]
  OBVIOUS
<1>2. s \in [1..Len(s) -> Elements(s)]
  BY <1>1, Zenon DEF Elements
<1>3. s \in Seq(Elements(s))
  BY <1>1, <1>2
<1>4. Elements(s) \subseteq X
  BY DEF Elements
<1> QED BY <1>1, <1>3, <1>4, Zenon DEF IsSeq

(* The empty sequence has no elements.                                     *)
LEMMA EmptyFacts == IsSeq(<< >>) /\ Elements(<< >>) = {} /\ Len(<< >>) = 0
BY DEF IsSeq, Elements

(* Appending adds one element at the end.                                  *)
LEMMA AppendFacts ==
    ASSUME NEW s, IsSeq(s), NEW e
    PROVE  /\ IsSeq(Append(s, e)) /\ Len(s) \in Nat /\ Len(Append(s, e)) = Len(s) + 1
           /\ Append(s, e)[Len(s) + 1] = e
           /\ \A i \in 1..Len(s) : Append(s, e)[i] = s[i]
           /\ Elements(Append(s, e)) = Elements(s) \cup {e}
<1> DEFINE X == Elements(s) \cup {e}
           t == Append(s, e)
<1>1. s \in Seq(X) /\ e \in X /\ Len(s) \in Nat
  BY DEF IsSeq
<1> HIDE DEF X
<1>2. /\ t \in Seq(X) /\ Len(t) = Len(s) + 1 /\ t[Len(s) + 1] = e
      /\ \A i \in 1..Len(s) : t[i] = s[i]
  BY <1>1
<1> HIDE DEF t
<1>3. Elements(t) = Elements(s) \cup {e}
  BY <1>1, <1>2 DEF Elements
<1>4. IsSeq(t)
  BY <1>2, SeqOver, Zenon
<1> QED BY <1>1, <1>2, <1>3, <1>4, Zenon DEF t

(* kept lists what Only has collected after each element.                  *)
IsKept(kept, s, S, n) ==
    kept = [i \in 0..n |-> IF i = 0 THEN << >>
                           ELSE IF s[i] \in S THEN Append(kept[i - 1], s[i]) ELSE kept[i - 1]]

(* There is a function that satisfies the equations of Only.               *)
LEMMA KeptExists ==
    ASSUME NEW s, NEW S
    PROVE  \A n \in Nat : \E kept : IsKept(kept, s, S, n)
<1> DEFINE All == {n \in Nat : \E kept : IsKept(kept, s, S, n)}
           Next1(f, i) == IF s[i] \in S THEN Append(f[i - 1], s[i]) ELSE f[i - 1]
<1>1. 0 \in All
  <2> DEFINE g == [i \in 0..0 |-> << >>]
  <2>1. IsKept(g, s, S, 0)
    BY DEF IsKept
  <2> QED BY <2>1, Zenon
<1>2. ASSUME NEW n \in Nat, n \in All PROVE n + 1 \in All
  <2>1. PICK f : IsKept(f, s, S, n)
    BY <1>2, Zenon
  <2> DEFINE g == [i \in 0..(n + 1) |-> IF i <= n THEN f[i] ELSE Next1(f, n + 1)]
             h == [i \in 0..(n + 1) |-> IF i = 0 THEN << >> ELSE Next1(g, i)]
  <2>2. ASSUME NEW i \in 0..(n + 1) PROVE g[i] = h[i]
    <3>1. CASE i = 0
      <4>1. f[0] = << >>
        BY <2>1 DEF IsKept
      <4> QED BY <3>1, <4>1
    <3>2. CASE i # 0 /\ i <= n
      <4>0. i \in 0..n
        BY <3>2
      <4>1. f[i] = Next1(f, i)
        BY <2>1, <3>2, <4>0, Zenon DEF IsKept
      <4>2. g[i - 1] = f[i - 1]
        BY <3>2
      <4> QED BY <3>2, <4>1, <4>2, Zenon
    <3>3. CASE i = n + 1
      <4>1. g[i - 1] = f[n] /\ (n + 1) - 1 = n
        BY <3>3
      <4>2. g[i] = Next1(f, n + 1)
        BY <3>3
      <4> QED BY <3>3, <4>1, <4>2
    <3> QED BY <3>1, <3>2, <3>3
  <2>3. g = h
    BY <2>2, Zenon
  <2> HIDE DEF g
  <2>4. IsKept(g, s, S, n + 1)
    BY <2>3, Zenon DEF IsKept
  <2>5. \E kept : IsKept(kept, s, S, n + 1)
    BY <2>4, Zenon
  <2> QED BY <2>5
<1> HIDE DEF All
<1>3. Nat \subseteq All
  BY <1>1, <1>2, SetInduction, Zenon
<1> QED BY <1>3, Zenon DEF All

(* Only is the last value of a function that satisfies its equations.      *)
LEMMA OnlyChosen ==
    ASSUME NEW s, NEW S, Len(s) \in Nat
    PROVE  \E kept : IsKept(kept, s, S, Len(s)) /\ Only(s, S) = kept[Len(s)]
<1> DEFINE kept == CHOOSE f : IsKept(f, s, S, Len(s))
<1>1. IsKept(kept, s, S, Len(s))
  BY KeptExists, Zenon
<1>2. Only(s, S) = kept[Len(s)]
  BY Zenon DEF Only, IsKept
<1> QED BY <1>1, <1>2, Zenon

(* Only keeps exactly the elements that are in the set.                    *)
LEMMA OnlyFacts ==
    ASSUME NEW s, IsSeq(s), NEW S
    PROVE  IsSeq(Only(s, S)) /\ Elements(Only(s, S)) = Elements(s) \cap S
<1>0. Len(s) \in Nat
  BY DEF IsSeq
<1>1. PICK kept : IsKept(kept, s, S, Len(s)) /\ Only(s, S) = kept[Len(s)]
  BY <1>0, OnlyChosen, Zenon
<1> DEFINE P(n) == IsSeq(kept[n]) /\ Elements(kept[n]) = {s[i] : i \in 1..n} \cap S
           All == {n \in Nat : n <= Len(s) => P(n)}
<1>2. 0 \in All
  <2>1. kept[0] = << >>
    BY <1>0, <1>1 DEF IsKept
  <2>2. {s[i] : i \in 1..0} = {}
    OBVIOUS
  <2> QED BY <2>1, <2>2, EmptyFacts, Zenon
<1>3. ASSUME NEW n \in Nat, n \in All PROVE n + 1 \in All
  <2> SUFFICES ASSUME n + 1 <= Len(s) PROVE P(n + 1)
    OBVIOUS
  <2>1. P(n)
    BY <1>0, <1>3
  <2>2. kept[n + 1] = IF s[n + 1] \in S THEN Append(kept[n], s[n + 1]) ELSE kept[n]
    <3>1. n + 1 \in 0..Len(s) /\ n + 1 # 0 /\ (n + 1) - 1 = n
      BY <1>0
    <3> QED BY <1>1, <3>1, Zenon DEF IsKept
  <2>3. {s[i] : i \in 1..(n + 1)} = {s[i] : i \in 1..n} \cup {s[n + 1]}
    <3>1. 1..(n + 1) = (1..n) \cup {n + 1}
      OBVIOUS
    <3> QED BY <3>1, Zenon
  <2>4. CASE s[n + 1] \in S
    <3>1. IsSeq(Append(kept[n], s[n + 1])) /\ Elements(Append(kept[n], s[n + 1])) = Elements(kept[n]) \cup {s[n + 1]}
      BY <2>1, AppendFacts, Zenon
    <3> QED BY <2>1, <2>2, <2>3, <2>4, <3>1, Zenon
  <2>5. CASE s[n + 1] \notin S
    BY <2>1, <2>2, <2>3, <2>5, Zenon
  <2> QED BY <2>4, <2>5, Zenon
<1> HIDE DEF All
<1>4. Len(s) \in All
  BY <1>0, <1>2, <1>3, SetInduction, Zenon
<1>5. P(Len(s))
  BY <1>0, <1>4 DEF All
<1> QED BY <1>1, <1>5, Zenon DEF Elements

-----------------------------------------------------------------------------
(* Only, one element at a time.                                            *)

(* Two functions that satisfy the equations of Only on the same elements.  *)
LEMMA KeptSame ==
    ASSUME NEW s, NEW S, NEW t, NEW T, NEW k \in Nat, NEW l \in Nat, NEW f, NEW g,
           IsKept(f, s, S, k), IsKept(g, t, T, l), NEW n \in Nat, n <= k, n <= l,
           \A i \in 1..n : s[i] = t[i] /\ (s[i] \in S <=> t[i] \in T)
    PROVE  f[n] = g[n]
<1> DEFINE All == {i \in Nat : i <= n => f[i] = g[i]}
<1>1. 0 \in All
  BY DEF IsKept
<1>2. ASSUME NEW i \in Nat, i \in All PROVE i + 1 \in All
  <2> SUFFICES ASSUME i + 1 <= n PROVE f[i + 1] = g[i + 1]
    OBVIOUS
  <2>1. /\ i + 1 \in 0..k /\ i + 1 \in 0..l /\ i + 1 \in 1..n /\ i + 1 # 0
        /\ (i + 1) - 1 = i /\ f[i] = g[i]
    BY <1>2
  <2>2. f[i + 1] = IF s[i + 1] \in S THEN Append(f[i], s[i + 1]) ELSE f[i]
    BY <2>1, Zenon DEF IsKept
  <2>3. g[i + 1] = IF t[i + 1] \in T THEN Append(g[i], t[i + 1]) ELSE g[i]
    BY <2>1, Zenon DEF IsKept
  <2> QED BY <2>1, <2>2, <2>3, Zenon
<1> HIDE DEF All
<1>3. Nat \subseteq All
  BY <1>1, <1>2, SetInduction, Zenon
<1> QED BY <1>3 DEF All

(* Only looks at the elements of the sequence.                             *)
LEMMA OnlySame ==
    ASSUME NEW s, IsSeq(s), NEW S, NEW T, Elements(s) \cap S = Elements(s) \cap T
    PROVE  Only(s, S) = Only(s, T)
<1>1. Len(s) \in Nat
  BY DEF IsSeq
<1>2. PICK f : IsKept(f, s, S, Len(s)) /\ Only(s, S) = f[Len(s)]
  BY <1>1, OnlyChosen, Zenon
<1>3. PICK g : IsKept(g, s, T, Len(s)) /\ Only(s, T) = g[Len(s)]
  BY <1>1, OnlyChosen, Zenon
<1>4. \A i \in 1..Len(s) : s[i] = s[i] /\ (s[i] \in S <=> s[i] \in T)
  BY Zenon DEF Elements
<1> DEFINE n == Len(s)
<1>5. n \in Nat /\ n <= n /\ IsKept(f, s, S, n) /\ IsKept(g, s, T, n)
  BY <1>1, <1>2, <1>3
<1>6. \A i \in 1..n : s[i] = s[i] /\ (s[i] \in S <=> s[i] \in T)
  BY <1>4, Zenon
<1>7. Only(s, S) = f[n] /\ Only(s, T) = g[n]
  BY <1>2, <1>3, Zenon
<1> HIDE DEF n
<1>8. f[n] = g[n]
  BY <1>5, <1>6, KeptSame
<1> QED BY <1>7, <1>8, Zenon

(* Only of a longer sequence.                                              *)
LEMMA OnlyAppend ==
    ASSUME NEW s, IsSeq(s), NEW e, NEW S
    PROVE  Only(Append(s, e), S) = IF e \in S THEN Append(Only(s, S), e) ELSE Only(s, S)
<1> DEFINE t == Append(s, e)
           n == Len(s)
<1>1. /\ n \in Nat /\ Len(t) = n + 1 /\ t[n + 1] = e
      /\ \A i \in 1..n : t[i] = s[i]
  BY AppendFacts
<1>2. PICK f : IsKept(f, s, S, n) /\ Only(s, S) = f[n]
  BY <1>1, OnlyChosen, Zenon
<1> HIDE DEF t, n
<1>a. Len(t) \in Nat
  BY <1>1
<1>b. \E g : IsKept(g, t, S, Len(t)) /\ Only(t, S) = g[Len(t)]
  BY <1>a, OnlyChosen, Zenon
<1>3. PICK g : IsKept(g, t, S, n + 1) /\ Only(t, S) = g[n + 1]
  BY <1>1, <1>b, Zenon
<1>4. f[n] = g[n]
  BY <1>1, <1>2, <1>3, KeptSame
<1>5. n + 1 \in 0..(n + 1) /\ n + 1 # 0 /\ (n + 1) - 1 = n
  BY <1>1
<1>6. g[n + 1] = IF t[n + 1] \in S THEN Append(g[n], t[n + 1]) ELSE g[n]
  BY <1>3, <1>5, Zenon DEF IsKept
<1> QED BY <1>1, <1>2, <1>3, <1>4, <1>6, Zenon DEF t

(* Only keeps a sequence whose elements all are in the set.                *)
LEMMA OnlyAll ==
    ASSUME NEW X, NEW s \in Seq(X)
    PROVE  Only(s, X) = s
<1> DEFINE N == Len(s)
           P(i) == SubSeq(s, 1, i)
           All == {i \in Nat : i <= N => Only(P(i), X) = P(i)}
<1>1. N \in Nat
  OBVIOUS
<1>2. 0 \in All
  <2>1. P(0) = << >> /\ Len(<< >>) = 0 /\ 0 \in Nat
    OBVIOUS
  <2>2. PICK kept : IsKept(kept, << >>, X, 0) /\ Only(<< >>, X) = kept[0]
    BY <2>1, OnlyChosen, Zenon
  <2>3. kept[0] = << >>
    BY <2>2 DEF IsKept
  <2>4. Only(P(0), X) = P(0)
    BY <2>1, <2>2, <2>3, Zenon
  <2> QED BY <2>4, Zenon
<1>3. ASSUME NEW i \in Nat, i \in All PROVE i + 1 \in All
  <2> SUFFICES ASSUME i + 1 <= N PROVE Only(P(i + 1), X) = P(i + 1)
    OBVIOUS
  <2>1. i <= N /\ i + 1 \in 1..N /\ s[i + 1] \in X
    BY <1>1
  <2>2. P(i + 1) = Append(P(i), s[i + 1]) /\ P(i) \in Seq(X)
    BY <1>1, <2>1
  <2>3. IsSeq(P(i)) /\ Only(P(i), X) = P(i)
    BY <1>3, <2>1, <2>2, SeqOver, Zenon
  <2> HIDE DEF P
  <2>4. Only(Append(P(i), s[i + 1]), X) = Append(Only(P(i), X), s[i + 1])
    BY <2>1, <2>3, OnlyAppend, Zenon
  <2> QED BY <2>2, <2>3, <2>4, Zenon
<1> HIDE DEF All
<1>4. Nat \subseteq All
  BY <1>2, <1>3, SetInduction, Zenon
<1>5. P(N) = s
  OBVIOUS
<1> HIDE DEF P, N
<1> QED BY <1>1, <1>4, <1>5 DEF All

-----------------------------------------------------------------------------
(* Voting power.                                                           *)

IsTotal(sum, vs, n) ==
    sum = [i \in 0..n |-> IF i = 0 THEN 0 ELSE SaturatingAdd(sum[i - 1], Power[vs[i]])]

(* There is a function that satisfies the equations of SumPower.           *)
LEMMA TotalExists ==
    ASSUME NEW vs
    PROVE  \A n \in Nat : \E sum : IsTotal(sum, vs, n)
<1> DEFINE All == {n \in Nat : \E sum : IsTotal(sum, vs, n)}
<1>1. 0 \in All
  <2>1. IsTotal([i \in 0..0 |-> 0], vs, 0)
    BY DEF IsTotal
  <2> QED BY <2>1, Zenon
<1>2. ASSUME NEW n \in Nat, n \in All PROVE n + 1 \in All
  <2>1. PICK sum : IsTotal(sum, vs, n)
    BY <1>2, Zenon
  <2> DEFINE more == [i \in 0..(n + 1) |->
                        IF i = n + 1 THEN SaturatingAdd(sum[n], Power[vs[n + 1]]) ELSE sum[i]]
             equation == [i \in 0..(n + 1) |->
                            IF i = 0 THEN 0 ELSE SaturatingAdd(more[i - 1], Power[vs[i]])]
  <2>2. ASSUME NEW i \in 0..(n + 1) PROVE more[i] = equation[i]
    <3>1. CASE i = n + 1
      <4>1. i - 1 = n /\ i # 0 /\ n # n + 1 /\ n \in 0..(n + 1)
        BY <3>1
      <4>2. more[i - 1] = sum[n]
        BY <4>1, Zenon
      <4> QED BY <3>1, <4>1, <4>2, Zenon
    <3>2. CASE i \in 1..n
      <4>1. i - 1 \in 0..n /\ i \in 0..n /\ i # 0 /\ i # n + 1 /\ i - 1 # n + 1 /\ i - 1 \in 0..(n + 1)
        BY <3>2
      <4>2. sum[i] = SaturatingAdd(sum[i - 1], Power[vs[i]])
        BY <2>1, <4>1, Zenon DEF IsTotal
      <4>3. more[i] = sum[i] /\ more[i - 1] = sum[i - 1]
        BY <4>1, Zenon
      <4> QED BY <4>1, <4>2, <4>3, Zenon
    <3>3. CASE i = 0
      <4>1. sum[0] = 0
        BY <2>1 DEF IsTotal
      <4>2. more[i] = sum[0]
        BY <3>3
      <4> QED BY <3>3, <4>1, <4>2, Zenon
    <3> QED BY <3>1, <3>2, <3>3
  <2>3. more = equation
    BY <2>2, Zenon
  <2>4. IsTotal(more, vs, n + 1)
    BY <2>3, Zenon DEF IsTotal
  <2> QED BY <2>4
<1> HIDE DEF All
<1>3. Nat \subseteq All
  BY <1>1, <1>2, SetInduction, Zenon
<1> QED BY <1>3, Zenon DEF All

(* SumPower is the last value of a function that satisfies its equations.  *)
LEMMA TotalChosen ==
    ASSUME NEW vs, Len(vs) \in Nat
    PROVE  \E sum : IsTotal(sum, vs, Len(vs)) /\ SumPower(vs) = sum[Len(vs)]
<1> DEFINE sum == CHOOSE f : IsTotal(f, vs, Len(vs))
<1>1. IsTotal(sum, vs, Len(vs))
  BY TotalExists, Zenon
<1>2. SumPower(vs) = sum[Len(vs)]
  BY Zenon DEF SumPower, IsTotal
<1> QED BY <1>1, <1>2, Zenon

(* SumPower of a longer list of validators.                                *)
LEMMA SumPowerAppend ==
    ASSUME NEW s, IsSeq(s), NEW e
    PROVE  SumPower(Append(s, e)) = SaturatingAdd(SumPower(s), Power[e])
<1> DEFINE t == Append(s, e)
           n == Len(s)
<1>1. /\ n \in Nat /\ Len(t) = n + 1 /\ t[n + 1] = e
      /\ \A i \in 1..n : t[i] = s[i]
  BY AppendFacts
<1>2. PICK f : IsTotal(f, s, n) /\ SumPower(s) = f[n]
  BY <1>1, TotalChosen, Zenon
<1> HIDE DEF t, n
<1>a. Len(t) \in Nat
  BY <1>1
<1>b. \E g : IsTotal(g, t, Len(t)) /\ SumPower(t) = g[Len(t)]
  BY <1>a, TotalChosen, Zenon
<1>3. PICK g : IsTotal(g, t, n + 1) /\ SumPower(t) = g[n + 1]
  BY <1>1, <1>b, Zenon
<1> DEFINE All == {i \in Nat : i <= n => f[i] = g[i]}
<1>4. 0 \in All
  BY <1>1, <1>2, <1>3 DEF IsTotal
<1>5. ASSUME NEW i \in Nat, i \in All PROVE i + 1 \in All
  <2> SUFFICES ASSUME i + 1 <= n PROVE f[i + 1] = g[i + 1]
    OBVIOUS
  <2>1. /\ i + 1 \in 0..n /\ i + 1 \in 0..(n + 1) /\ i + 1 \in 1..n /\ i + 1 # 0
        /\ (i + 1) - 1 = i /\ f[i] = g[i]
    BY <1>1, <1>5
  <2>2. f[i + 1] = SaturatingAdd(f[i], Power[s[i + 1]])
    BY <1>2, <2>1, Zenon DEF IsTotal
  <2>3. g[i + 1] = SaturatingAdd(g[i], Power[t[i + 1]])
    BY <1>3, <2>1, Zenon DEF IsTotal
  <2> QED BY <1>1, <2>1, <2>2, <2>3, Zenon
<1> HIDE DEF All
<1>6. Nat \subseteq All
  BY <1>4, <1>5, SetInduction, Zenon
<1>7. f[n] = g[n]
  BY <1>1, <1>6 DEF All
<1>8. n + 1 \in 0..(n + 1) /\ n + 1 # 0 /\ (n + 1) - 1 = n
  BY <1>1
<1>9. g[n + 1] = SaturatingAdd(g[n], Power[t[n + 1]])
  BY <1>3, <1>8, Zenon DEF IsTotal
<1> QED BY <1>1, <1>2, <1>3, <1>7, <1>9, Zenon DEF t

(* Without validators there is no power.                                   *)
LEMMA NoPower == SumPower(<< >>) = 0
<1>1. Len(<< >>) = 0
  BY EmptyFacts, Zenon
<1>2. PICK sum : IsTotal(sum, << >>, 0) /\ SumPower(<< >>) = sum[0]
  BY <1>1, TotalChosen, Zenon
<1> QED BY <1>2 DEF IsTotal

(* More voters have at least the power of fewer: SaturatingAdd does not    *)
(* wrap.                                                                   *)
LEMMA PowerMonotone ==
    ASSUME NEW V, NEW W, V \subseteq W
    PROVE  PowerOf(V) \in Nat /\ PowerOf(W) \in Nat /\ PowerOf(V) <= PowerOf(W)
<1> DEFINE N == Len(Validators)
           P(i) == SubSeq(Validators, 1, i)
           All == {i \in Nat : i <= N =>
                     /\ SumPower(Only(P(i), V)) \in 0..MaxUint
                     /\ SumPower(Only(P(i), W)) \in 0..MaxUint
                     /\ SumPower(Only(P(i), V)) <= SumPower(Only(P(i), W))}
<1>1. Validators \in Seq(Nodes) /\ MaxUint \in Nat /\ Power \in [Nodes -> Nat] /\ N \in Nat
  BY LedgerAssumption DEF LedgerAssumption
<1>2. ASSUME NEW i \in Nat, i <= N PROVE IsSeq(P(i)) /\ P(i) \in Seq(Nodes)
  <2>1. P(i) \in Seq(Nodes)
    BY <1>1, <1>2
  <2> QED BY <2>1, SeqOver, Zenon
<1>3. 0 \in All
  <2>1. P(0) = << >>
    BY <1>1
  <2>2. Only(<< >>, V) = << >> /\ Only(<< >>, W) = << >>
    <3>1. Len(<< >>) = 0 /\ 0 \in Nat
      BY EmptyFacts, Zenon
    <3>2. ASSUME NEW S PROVE Only(<< >>, S) = << >>
      <4>1. PICK kept : IsKept(kept, << >>, S, 0) /\ Only(<< >>, S) = kept[0]
        BY <3>1, OnlyChosen, Zenon
      <4> QED BY <4>1 DEF IsKept
    <3> QED BY <3>2, Zenon
  <2>3. 0 \in 0..MaxUint /\ 0 <= 0
    BY <1>1
  <2> QED BY <2>1, <2>2, <2>3, NoPower, Zenon
<1>4. ASSUME NEW i \in Nat, i \in All PROVE i + 1 \in All
  <2> SUFFICES ASSUME i + 1 <= N
               PROVE  /\ SumPower(Only(P(i + 1), V)) \in 0..MaxUint
                      /\ SumPower(Only(P(i + 1), W)) \in 0..MaxUint
                      /\ SumPower(Only(P(i + 1), V)) <= SumPower(Only(P(i + 1), W))
    OBVIOUS
  <2> DEFINE e == Validators[i + 1]
  <2>1. i <= N /\ i + 1 \in 1..N /\ e \in Nodes
    BY <1>1
  <2>2. P(i + 1) = Append(P(i), e)
    BY <1>1, <2>1
  <2>3. IsSeq(P(i))
    BY <1>2, <2>1, Zenon
  <2>4. /\ SumPower(Only(P(i), V)) \in 0..MaxUint /\ SumPower(Only(P(i), W)) \in 0..MaxUint
        /\ SumPower(Only(P(i), V)) <= SumPower(Only(P(i), W))
    BY <1>4, <2>1, Zenon
  <2>a. e \in V => e \in W
    BY Zenon
  <2> HIDE DEF P, N, e
  <2> DEFINE v == SumPower(Only(P(i), V))
             w == SumPower(Only(P(i), W))
  <2>5. /\ SumPower(Only(P(i + 1), V)) = IF e \in V THEN SaturatingAdd(v, Power[e]) ELSE v
        /\ SumPower(Only(P(i + 1), W)) = IF e \in W THEN SaturatingAdd(w, Power[e]) ELSE w
    <3>1. IsSeq(Only(P(i), V)) /\ IsSeq(Only(P(i), W))
      BY <2>3, OnlyFacts, Zenon
    <3>2. ASSUME NEW S PROVE Only(P(i + 1), S) = IF e \in S THEN Append(Only(P(i), S), e)
                                                            ELSE Only(P(i), S)
      <4>1. Only(Append(P(i), e), S) = IF e \in S THEN Append(Only(P(i), S), e) ELSE Only(P(i), S)
        BY <2>3, OnlyAppend
      <4> QED BY <2>2, <4>1, Zenon
    <3>3. /\ SumPower(Append(Only(P(i), V), e)) = SaturatingAdd(v, Power[e])
          /\ SumPower(Append(Only(P(i), W), e)) = SaturatingAdd(w, Power[e])
      BY <3>1, SumPowerAppend, Zenon
    <3> QED BY <3>2, <3>3, Zenon
  <2>6. v \in 0..MaxUint /\ w \in 0..MaxUint /\ v <= w
    BY <2>4, Zenon
  <2> HIDE DEF v, w
  <2> DEFINE k == Power[e]
  <2>7. k \in Nat
    BY <1>1, <2>1, Zenon
  <2> HIDE DEF k
  <2>8. /\ SaturatingAdd(v, k) \in 0..MaxUint /\ SaturatingAdd(w, k) \in 0..MaxUint
        /\ SaturatingAdd(v, k) <= SaturatingAdd(w, k) /\ w <= SaturatingAdd(w, k)
    BY <1>1, <2>6, <2>7 DEF SaturatingAdd, AddFits
  <2> QED BY <2>a, <2>5, <2>6, <2>8 DEF k
<1> HIDE DEF All
<1>5. Nat \subseteq All
  BY <1>3, <1>4, SetInduction, Zenon
<1>6. P(N) = Validators
  BY <1>1
<1>7. N \in Nat /\ N <= N
  BY <1>1
<1> HIDE DEF P, N
<1> QED BY <1>1, <1>5, <1>6, <1>7 DEF All, PowerOf

(* A quorum with more voters is a quorum.                                  *)
LEMMA QuorumGrows ==
    ASSUME NEW V, NEW W, V \subseteq W, PowerOf(V) >= Quorum
    PROVE  PowerOf(W) >= Quorum
<1>1. PowerOf(V) \in Nat /\ PowerOf(W) \in Nat /\ PowerOf(V) <= PowerOf(W)
  BY PowerMonotone, Zenon
<1>2. SumPower(Validators) \in Nat
  <2>1. Validators \in Seq(Nodes)
    BY LedgerAssumption, Zenon DEF LedgerAssumption
  <2>2. IsSeq(Validators) /\ Elements(Validators) \subseteq Nodes
    BY <2>1, SeqOver, Zenon
  <2>3. Only(Validators, Nodes) = Validators
    BY <2>1, <2>2, OnlyAll, Zenon
  <2> QED BY <2>3, PowerMonotone, Zenon DEF PowerOf
<1>3. Quorum \in Int
  BY <1>2 DEF Quorum, quorumVotingPower
<1> QED BY <1>1, <1>3

(* A quorum of the votes S is for that block, in one round.                *)
Backed(block, S) ==
    \E r \in {v.round : v \in S} :
       PowerOf(votersForBlock(S, block.height, r, block)) >= Quorum

(* A vote more takes no quorum away.                                       *)
LEMMA BackedMonotone ==
    ASSUME NEW block, NEW S, NEW T, S \subseteq T, Backed(block, S)
    PROVE  Backed(block, T)
<1>1. PICK r \in {v.round : v \in S} :
         PowerOf(votersForBlock(S, block.height, r, block)) >= Quorum
  BY Zenon DEF Backed
<1>2. r \in {v.round : v \in T}
  BY <1>1, Zenon
<1>3. votersForBlock(S, block.height, r, block) \subseteq votersForBlock(T, block.height, r, block)
  BY Zenon DEF votersForBlock
<1> QED BY <1>1, <1>2, <1>3, QuorumGrows DEF Backed

-----------------------------------------------------------------------------
(* What an action records, and the pending ones of a log.                  *)
ActionFields == {"type", "height", "round", "block", "validator", "status"}

PendingIn(actions) == {a \in Elements(actions) : Pending(a)}

LogOK(actions) ==
    IsSeq(actions) /\ \A a \in Elements(actions) : DOMAIN a = ActionFields /\ a.height \in Nat

(* The action log.                                                         *)

(* A part of a sequence has some of its elements.                          *)
LEMMA SubSeqFacts ==
    ASSUME NEW s, IsSeq(s), NEW m \in Nat \ {0}
    PROVE  IsSeq(SubSeq(s, m, Len(s))) /\ Elements(SubSeq(s, m, Len(s))) \subseteq Elements(s)
<1>1. s \in Seq(Elements(s)) /\ Len(s) \in Nat
  BY DEF IsSeq
<1>2. SubSeq(s, m, Len(s)) \in Seq(Elements(s))
  BY <1>1
<1> QED BY <1>2, SeqOver, Zenon

(* A concatenation has the elements of both.                               *)
LEMMA ConcatFacts ==
    ASSUME NEW s, IsSeq(s), NEW t, IsSeq(t)
    PROVE  IsSeq(s \o t) /\ Elements(s \o t) = Elements(s) \cup Elements(t)
<1> DEFINE X == Elements(s) \cup Elements(t)
<1>1. s \in Seq(Elements(s)) /\ t \in Seq(Elements(t))
  BY Zenon DEF IsSeq
<1>2. s \in Seq(X) /\ t \in Seq(X)
  <2>1. ASSUME NEW Y, NEW u \in Seq(Y), Y \subseteq X PROVE u \in Seq(X)
    BY <2>1
  <2> QED BY <1>1, <2>1, Zenon
<1> HIDE DEF X
<1>3. /\ s \o t \in Seq(X) /\ Len(s) \in Nat /\ Len(t) \in Nat /\ Len(s \o t) = Len(s) + Len(t)
      /\ \A i \in 1..Len(s) : (s \o t)[i] = s[i]
      /\ \A i \in 1..Len(t) : (s \o t)[Len(s) + i] = t[i]
  <2>1. s \o t \in Seq(X) /\ Len(s) \in Nat /\ Len(t) \in Nat
    BY <1>2
  <2>2. Len(s \o t) = Len(s) + Len(t)
    BY <1>2
  <2>3. ASSUME NEW i \in 1..Len(s) PROVE (s \o t)[i] = s[i]
    BY <1>2, <2>1, <2>3
  <2>4. ASSUME NEW i \in 1..Len(t) PROVE (s \o t)[Len(s) + i] = t[i]
    BY <1>2, <2>1, <2>4
  <2> QED BY <2>1, <2>2, <2>3, <2>4, Zenon
<1>4. IsSeq(s \o t) /\ Elements(s \o t) \subseteq X
  BY <1>3, SeqOver, Zenon
<1>5. ASSUME NEW e \in Elements(s) PROVE e \in Elements(s \o t)
  <2>1. PICK i \in 1..Len(s) : e = s[i]
    BY Zenon DEF Elements
  <2>2. i \in 1..Len(s \o t) /\ (s \o t)[i] = e
    BY <1>3, <2>1
  <2> QED BY <2>2, Zenon DEF Elements
<1>6. ASSUME NEW e \in Elements(t) PROVE e \in Elements(s \o t)
  <2>1. PICK i \in 1..Len(t) : e = t[i]
    BY Zenon DEF Elements
  <2>2. Len(s) + i \in 1..Len(s \o t) /\ (s \o t)[Len(s) + i] = e
    BY <1>3, <2>1
  <2> QED BY <2>2, Zenon DEF Elements
<1> QED BY <1>4, <1>5, <1>6, Zenon DEF X

(* The elements of a sequence given index by index.                        *)
LEMMA TableFacts ==
    ASSUME NEW f, NEW n \in Nat, DOMAIN f = 1..n, f = [i \in 1..n |-> f[i]]
    PROVE  IsSeq(f) /\ Len(f) = n /\ Elements(f) = {f[i] : i \in 1..n}
<1> DEFINE X == {f[i] : i \in 1..n}
<1>1. f \in [1..n -> X]
  BY Zenon
<1> HIDE DEF X
<1>2. f \in Seq(X) /\ Len(f) = n
  BY <1>1
<1> QED BY <1>2, SeqOver, Zenon DEF Elements, X

(* compactConsensusActions drops no pending action.                        *)
LEMMA CompactFacts ==
    ASSUME NEW actions, LogOK(actions)
    PROVE  LogOK(compact(actions)) /\ PendingIn(compact(actions)) = PendingIn(actions)
<1> DEFINE pending == Only(actions, {a \in Elements(actions) : Pending(a)})
           history == Only(actions, {a \in Elements(actions) : ~ Pending(a)})
           room    == HistoryLimit - Len(pending)
           keep    == IF room < 0 THEN 0 ELSE room
           first   == IF Len(history) > keep THEN Len(history) - keep + 1 ELSE 1
           newest  == SubSeq(history, first, Len(history))
<1>1. IsSeq(actions)
  BY Zenon DEF LogOK
<1>2. IsSeq(pending) /\ Elements(pending) = PendingIn(actions)
  BY <1>1, OnlyFacts DEF PendingIn
<1>3. IsSeq(history) /\ Elements(history) = {a \in Elements(actions) : ~ Pending(a)}
  BY <1>1, OnlyFacts
<1>4. compact(actions) = IF Len(actions) <= HistoryLimit THEN actions ELSE pending \o newest
  BY Zenon DEF compact
<1>5. first \in Nat \ {0}
  <2>1. HistoryLimit \in Nat /\ Len(pending) \in Nat /\ Len(history) \in Nat
    BY <1>2, <1>3, HistoryLimitAssumption DEF HistoryLimitAssumption, IsSeq
  <2> HIDE DEF pending, history
  <2> QED BY <2>1
<1> HIDE DEF pending, history, first
<1>6. IsSeq(newest) /\ Elements(newest) \subseteq Elements(history)
  BY <1>3, <1>5, SubSeqFacts, Zenon
<1> HIDE DEF newest
<1>7. IsSeq(pending \o newest) /\ Elements(pending \o newest) = Elements(pending) \cup Elements(newest)
  BY <1>2, <1>6, ConcatFacts, Zenon
<1>8. CASE Len(actions) <= HistoryLimit
  BY <1>4, <1>8, Zenon
<1>9. CASE ~ (Len(actions) <= HistoryLimit)
  <2>1. compact(actions) = pending \o newest
    BY <1>4, <1>9, Zenon
  <2>2. Elements(compact(actions)) = PendingIn(actions) \cup Elements(newest)
    BY <1>2, <1>7, <2>1, Zenon
  <2>3. PendingIn(actions) \subseteq Elements(actions) /\ \A a \in PendingIn(actions) : Pending(a)
    BY Zenon DEF PendingIn
  <2>4. Elements(newest) \subseteq Elements(actions) /\ \A a \in Elements(newest) : ~ Pending(a)
    BY <1>3, <1>6, Zenon
  <2>5. PendingIn(compact(actions)) = PendingIn(actions)
    BY <2>2, <2>3, <2>4, Zenon DEF PendingIn
  <2>6. LogOK(compact(actions))
    BY <1>7, <2>1, <2>2, <2>3, <2>4, Zenon DEF LogOK
  <2> QED BY <2>5, <2>6, Zenon
<1> QED BY <1>8, <1>9, Zenon

(* completeConsensusActionsForHeightInState leaves the later heights       *)
(* pending.                                                                *)
LEMMA CompleteFacts ==
    ASSUME NEW actions, LogOK(actions), NEW h \in Nat
    PROVE  /\ LogOK(completeUpTo(actions, h))
           /\ PendingIn(completeUpTo(actions, h)) = {a \in PendingIn(actions) : a.height > h}
<1> DEFINE n == Len(actions)
           done(a) == Pending(a) /\ a.height <= h
           now(a) == IF done(a) THEN [a EXCEPT !.status = "completed"] ELSE a
           all == [i \in 1..n |-> now(actions[i])]
<1>1. n \in Nat
  BY DEF LogOK, IsSeq
<1>2. ASSUME NEW a \in Elements(actions)
      PROVE  /\ DOMAIN now(a) = ActionFields /\ now(a).height \in Nat
             /\ Pending(now(a)) <=> Pending(a) /\ a.height > h
             /\ Pending(now(a)) => now(a) = a
  <2>1. DOMAIN a = ActionFields /\ a.height \in Nat
    BY Zenon DEF LogOK
  <2>2. CASE done(a)
    <3>1. now(a) = [a EXCEPT !.status = "completed"]
      BY <2>2, Zenon
    <3>2. DOMAIN now(a) = ActionFields /\ now(a).height = a.height /\ now(a).status = "completed"
      BY <2>1, <3>1, Zenon DEF ActionFields
    <3> QED BY <2>1, <2>2, <3>2 DEF Pending
  <2>3. CASE ~ done(a)
    BY <2>1, <2>3
  <2> QED BY <2>2, <2>3, Zenon
<1> HIDE DEF now
<1>3. IsSeq(all) /\ Elements(all) = {all[i] : i \in 1..n}
  BY <1>1, TableFacts, Zenon
<1>4. Elements(all) = {now(a) : a \in Elements(actions)}
  BY <1>3, Zenon DEF Elements
<1>5. LogOK(all)
  BY <1>2, <1>3, <1>4 DEF LogOK
<1>6. PendingIn(all) = {a \in PendingIn(actions) : a.height > h}
  BY <1>2, <1>4 DEF PendingIn
<1>7. completeUpTo(actions, h) = compact(all)
  BY Zenon DEF completeUpTo, now
<1> HIDE DEF all
<1> QED BY <1>5, <1>6, <1>7, CompactFacts, Zenon

(* A non-empty set of numbers has a least one.                             *)
LEMMA LeastOf ==
    ASSUME NEW S, S \subseteq Nat, S # {}
    PROVE  \E m \in S : \A k \in S : m <= k
<1> DEFINE R == {ss \in Nat \X Nat : ss[1] < ss[2]}
<1>1. IsWellFoundedOn(R, Nat)
  BY NatLessThanWellFounded, Zenon DEF OpToRel
<1>2. PICK m \in S : \A k \in S : ~ (<<k, m>> \in R)
  BY <1>1, WFMin, Zenon
<1>3. ASSUME NEW k \in S PROVE m <= k
  <2>1. k \in Nat /\ m \in Nat /\ ~ (<<k, m>> \in R)
    BY <1>2, Zenon
  <2>2. k < m => <<k, m>> \in R
    BY <2>1, Zenon
  <2> QED BY <2>1, <2>2
<1> QED BY <1>3, Zenon

(* recordConsensusActionIntoState: what stays pending, what becomes it.    *)
LEMMA RecordFacts ==
    ASSUME NEW actions, LogOK(actions),
           NEW action, DOMAIN action = ActionFields, action.height \in Nat
    PROVE  LET all == recordAction(actions, action)
           IN  /\ LogOK(all)
               /\ Pending(action) =>
                     \E b \in PendingIn(all) : ActionKey(b) = ActionKey(action)
               /\ \A a \in PendingIn(actions) : a.type # action.type => a \in PendingIn(all)
               /\ \A b \in PendingIn(all) : b \in PendingIn(actions) \/ ActionKey(b) = ActionKey(action)
<1> DEFINE same(i) == ActionKey(actions[i]) = ActionKey(action)
           n == Len(actions)
<1>1. n \in Nat /\ \A i \in 1..n : /\ actions[i] \in Elements(actions)
                                   /\ DOMAIN actions[i] = ActionFields /\ actions[i].height \in Nat
  BY DEF LogOK, IsSeq, Elements
<1>2. actions = [i \in 1..n |-> actions[i]] /\ DOMAIN actions = 1..n
  BY DEF LogOK, IsSeq
<1>3. CASE \E i \in 1..n : same(i)
  <2> DEFINE first == CHOOSE i \in 1..n : same(i) /\ \A j \in 1..(i - 1) : ~ same(j)
             new == [actions EXCEPT ![first].status = action.status]
  <2>1. \E i \in 1..n : same(i) /\ \A j \in 1..(i - 1) : ~ same(j)
    <3> DEFINE S == {i \in 1..n : same(i)}
    <3>1. S \subseteq Nat /\ S # {}
      BY <1>1, <1>3
    <3> HIDE DEF S
    <3>2. PICK m \in S : \A k \in S : m <= k
      BY <3>1, LeastOf, Zenon
    <3>3. m \in 1..n /\ same(m)
      BY <3>2, Zenon DEF S
    <3> HIDE DEF same
    <3>4. ASSUME NEW j \in 1..(m - 1), same(j) PROVE FALSE
      <4>1. j \in 1..n /\ j \in Nat /\ m \in Nat /\ j < m
        BY <1>1, <3>3
      <4>2. j \in S
        BY <3>4, <4>1, Zenon DEF S
      <4>3. m <= j
        BY <3>2, <4>2, Zenon
      <4> QED BY <4>1, <4>3
    <3> QED BY <3>3, <3>4, Zenon
  <2>2. first \in 1..n /\ same(first)
    BY <2>1, Zenon
  <2>3. recordAction(actions, action) = compact(new)
    BY <1>3, Zenon DEF recordAction
  <2> HIDE DEF first
  <2> DEFINE b == [actions[first] EXCEPT !.status = action.status]
  <2>4. /\ DOMAIN new = 1..n /\ new = [i \in 1..n |-> new[i]]
        /\ \A i \in 1..n : new[i] = IF i = first THEN b ELSE actions[i]
    BY <1>2, <2>2, Zenon
  <2> HIDE DEF new
  <2>5. /\ DOMAIN b = ActionFields /\ b.height \in Nat /\ b.status = action.status
        /\ b.type = actions[first].type /\ ActionKey(b) = ActionKey(actions[first])
    BY <1>1, <2>2, Zenon DEF ActionFields, ActionKey
  <2>6. ActionKey(b) = ActionKey(action)
    BY <2>2, <2>5, Zenon
  <2>7. actions[first].type = action.type
    BY <2>2, Zenon DEF ActionKey
  <2> HIDE DEF b, same
  <2>8. IsSeq(new) /\ Elements(new) = {new[i] : i \in 1..n}
    BY <1>1, <2>4, TableFacts, Zenon
  <2>9. LogOK(new)
    BY <1>1, <2>4, <2>5, <2>8 DEF LogOK
  <2>10. LogOK(compact(new)) /\ PendingIn(compact(new)) = PendingIn(new)
    BY <2>9, CompactFacts, Zenon
  <2>11. b \in Elements(new)
    BY <2>2, <2>4, <2>8, Zenon
  <2>12. Pending(action) => b \in PendingIn(new)
    BY <2>5, <2>11, Zenon DEF PendingIn, Pending
  <2>13. ASSUME NEW a \in PendingIn(actions), a.type # action.type PROVE a \in PendingIn(new)
    <3>1. Pending(a) /\ \E i \in 1..n : a = actions[i]
      BY Zenon DEF PendingIn, Elements
    <3>2. PICK i \in 1..n : a = actions[i]
      BY <3>1, Zenon
    <3>3. i # first
      BY <2>7, <2>13, <3>2, Zenon
    <3>4. new[i] = a
      BY <2>4, <3>2, <3>3, Zenon
    <3> QED BY <2>8, <3>1, <3>4, Zenon DEF PendingIn
  <2>14. ASSUME NEW c \in PendingIn(new)
         PROVE  c \in PendingIn(actions) \/ ActionKey(c) = ActionKey(action)
    BY <1>1, <2>4, <2>6, <2>8, Zenon DEF PendingIn
  <2> QED BY <2>3, <2>6, <2>10, <2>12, <2>13, <2>14, Zenon
<1>4. CASE ~ \E i \in 1..n : same(i)
  <2> DEFINE supersedes(old) ==
               /\ Pending(action) /\ action.validator # ""
               /\ Pending(old)
               /\ old.type = action.type
               /\ old.validator = action.validator
               /\ old.height = action.height
             now(old) == IF supersedes(old) THEN [old EXCEPT !.status = "superseded"] ELSE old
             older == [i \in 1..n |-> now(actions[i])]
             new == Append(older, action)
  <2>1. recordAction(actions, action) = compact(new)
    BY <1>4, Zenon DEF recordAction
  <2>2. ASSUME NEW a \in Elements(actions)
        PROVE  /\ DOMAIN now(a) = ActionFields /\ now(a).height \in Nat
               /\ Pending(now(a)) => now(a) = a
               /\ a.type # action.type => now(a) = a
    <3>1. DOMAIN a = ActionFields /\ a.height \in Nat
      BY Zenon DEF LogOK
    <3>2. CASE supersedes(a)
      <4>1. now(a) = [a EXCEPT !.status = "superseded"]
        BY <3>2, Zenon
      <4>2. DOMAIN now(a) = ActionFields /\ now(a).height = a.height /\ now(a).status = "superseded"
        BY <3>1, <4>1, Zenon DEF ActionFields
      <4> QED BY <3>1, <3>2, <4>2, Zenon DEF Pending
    <3>3. CASE ~ supersedes(a)
      BY <3>1, <3>3, Zenon
    <3> QED BY <3>2, <3>3, Zenon
  <2> HIDE DEF now
  <2>3. IsSeq(older) /\ Elements(older) = {older[i] : i \in 1..n}
    BY <1>1, TableFacts
  <2>4. Elements(older) = {now(a) : a \in Elements(actions)}
    BY <2>3, Zenon DEF Elements
  <2> HIDE DEF older
  <2>5. IsSeq(new) /\ Elements(new) = Elements(older) \cup {action}
    BY <2>3, AppendFacts, Zenon
  <2> HIDE DEF new
  <2>6. LogOK(new)
    BY <2>2, <2>4, <2>5, Zenon DEF LogOK
  <2>7. LogOK(compact(new)) /\ PendingIn(compact(new)) = PendingIn(new)
    BY <2>6, CompactFacts, Zenon
  <2>8. Pending(action) => action \in PendingIn(new)
    BY <2>5, Zenon DEF PendingIn
  <2>9. ASSUME NEW a \in PendingIn(actions), a.type # action.type PROVE a \in PendingIn(new)
    BY <2>2, <2>4, <2>5, <2>9, Zenon DEF PendingIn
  <2>10. ASSUME NEW c \in PendingIn(new)
         PROVE  c \in PendingIn(actions) \/ ActionKey(c) = ActionKey(action)
    BY <2>2, <2>4, <2>5, Zenon DEF PendingIn
  <2> QED BY <2>1, <2>7, <2>8, <2>9, <2>10, Zenon
<1> QED BY <1>3, <1>4, Zenon

-----------------------------------------------------------------------------
(* The state a node persists.                                              *)

StateFields == {"accounts", "pool", "chain", "committed", "funded", "version",
                "round", "started", "proposals", "votes", "certs", "actions"}

(* AppendBlock, field by field.                                            *)
LEMMA AppendBlockFields ==
    ASSUME NEW st, DOMAIN st = StateFields, NEW block
    PROVE  LET next == AppendBlock(st, block)
           IN  /\ DOMAIN next = StateFields
               /\ next.accounts = Execute(st.accounts, block.txs).accounts
               /\ next.pool = Only(st.pool, Elements(st.pool) \ Elements(block.txs))
               /\ next.chain = Append(st.chain, block)
               /\ next.committed = st.committed \cup Elements(block.txs)
               /\ next.funded = st.funded /\ next.version = st.version
               /\ next.round = 0 /\ next.started = FALSE
               /\ next.proposals = st.proposals /\ next.votes = st.votes
               /\ next.certs = st.certs /\ next.actions = st.actions
BY Zenon DEF AppendBlock, StateFields

(* What importBlockIntoState has checked.                                  *)
LEMMA VerdictOk ==
    ASSUME NEW st, IsSeq(st.chain), NEW block, block.height \in Nat, ImportVerdict(st, block) = "ok"
    PROVE  /\ block.height = Height(st) + 1 /\ block.prev = Tip(st)
           /\ Executes(st.accounts, block.txs)
           /\ block.root = stateRoot(st, Execute(st.accounts, block.txs).accounts)
<1>1. Height(st) \in Nat /\ block.height \in Nat
  BY DEF Height, IsSeq
<1>2. /\ ~(block.height <= Height(st)) /\ ~(block.height > Height(st) + 1)
      /\ block.prev = Tip(st) /\ Executes(st.accounts, block.txs)
      /\ block.root = stateRoot(st, Execute(st.accounts, block.txs).accounts)
  BY Zenon DEF ImportVerdict
<1> QED BY <1>1, <1>2
=============================================================================
