---------------------------- MODULE LedgerProofs ----------------------------
(***************************************************************************)
(* Theorems about module LedgerNode, for every set of nodes, accounts,     *)
(* transactions and requests, any chain length and any number of failing   *)
(* writes.                                                                 *)
(***************************************************************************)
EXTENDS LedgerNode, RecordProofs, FiniteSetTheorems

-----------------------------------------------------------------------------
(* SumAmounts: the sum does not depend on the order of the summands.       *)

Amounts(S) == IsFiniteSet(S) /\ \A x \in S : x.amount \in Nat

(* f sums up every subset of S that has at most n elements.                *)
IsSum(f, S, n) ==
    \A T \in SUBSET S : Cardinality(T) <= n =>
       f[T] = IF T = {} THEN 0
              ELSE LET one == CHOOSE x \in T : TRUE IN one.amount + f[T \ {one}]

(* There is a function that satisfies the equations of SumAmounts.         *)
LEMMA SumExists ==
    ASSUME NEW S, IsFiniteSet(S)
    PROVE  \A n \in Nat : \E f : DOMAIN f = SUBSET S /\ IsSum(f, S, n)
<1> DEFINE All == {n \in Nat : \E f : DOMAIN f = SUBSET S /\ IsSum(f, S, n)}
           Step(f, T) == IF T = {} THEN 0
                         ELSE LET one == CHOOSE x \in T : TRUE IN one.amount + f[T \ {one}]
<1>0. \A T \in SUBSET S : IsFiniteSet(T) /\ Cardinality(T) \in Nat /\ (Cardinality(T) = 0 <=> T = {})
  BY FS_Subset, FS_CardinalityType, FS_EmptySet, Zenon
<1>1. 0 \in All
  <2> DEFINE g == [T \in SUBSET S |-> 0]
  <2>1. DOMAIN g = SUBSET S /\ IsSum(g, S, 0)
    BY <1>0 DEF IsSum
  <2> HIDE DEF g
  <2> QED BY <2>1, Zenon
<1>2. ASSUME NEW n \in Nat, n \in All PROVE n + 1 \in All
  <2>1. PICK f : DOMAIN f = SUBSET S /\ IsSum(f, S, n)
    BY <1>2, Zenon
  <2> DEFINE g == [T \in SUBSET S |-> IF Cardinality(T) <= n THEN f[T] ELSE Step(f, T)]
  <2>2. ASSUME NEW T \in SUBSET S, Cardinality(T) <= n + 1 PROVE g[T] = Step(g, T)
    <3>1. CASE T = {}
      <4>1. Cardinality(T) <= n
        BY <1>0, <3>1
      <4>2. g[T] = f[T]
        BY <4>1, Zenon
      <4>3. f[T] = 0
        BY <2>1, <3>1, <4>1, Zenon DEF IsSum
      <4> QED BY <3>1, <4>2, <4>3, Zenon
    <3>2. CASE T # {}
      <4> DEFINE one == CHOOSE x \in T : TRUE
      <4>1. one \in T
        BY <3>2, Zenon
      <4> HIDE DEF one
      <4>2. Cardinality(T \ {one}) = Cardinality(T) - 1 /\ T \ {one} \in SUBSET S
        BY <1>0, <4>1, FS_RemoveElement, Zenon
      <4>3. Cardinality(T \ {one}) <= n
        BY <1>0, <2>2, <4>2
      <4>4. g[T \ {one}] = f[T \ {one}]
        BY <4>2, <4>3, Zenon
      <4>5. g[T] = one.amount + f[T \ {one}]
        <5>1. CASE Cardinality(T) <= n
          <6>1. f[T] = one.amount + f[T \ {one}]
            BY <2>1, <3>2, <5>1, Zenon DEF IsSum, one
          <6> QED BY <5>1, <6>1, Zenon
        <5>2. CASE ~(Cardinality(T) <= n)
          BY <3>2, <5>2, Zenon DEF one
        <5> QED BY <5>1, <5>2, Zenon
      <4> QED BY <3>2, <4>4, <4>5, Zenon DEF one
    <3> QED BY <3>1, <3>2, Zenon
  <2>3. DOMAIN g = SUBSET S
    BY Zenon
  <2> HIDE DEF g
  <2>4. IsSum(g, S, n + 1)
    BY <2>2, Zenon DEF IsSum
  <2> QED BY <2>3, <2>4
<1> HIDE DEF All
<1>3. Nat \subseteq All
  BY <1>1, <1>2, SetInduction, Zenon
<1> QED BY <1>3, Zenon DEF All

(* Two such functions agree wherever both are defined.                     *)
LEMMA SumSame ==
    ASSUME NEW S, NEW f, NEW g, NEW S1, NEW S2, S \subseteq S1, S \subseteq S2,
           IsFiniteSet(S), NEW k1 \in Nat, NEW k2 \in Nat, Cardinality(S) <= k1, Cardinality(S) <= k2,
           IsSum(f, S1, k1), IsSum(g, S2, k2)
    PROVE  f[S] = g[S]
<1> DEFINE All == {n \in Nat : \A T \in SUBSET S : Cardinality(T) = n => f[T] = g[T]}
<1>0. \A T \in SUBSET S : /\ IsFiniteSet(T) /\ Cardinality(T) \in Nat /\ (Cardinality(T) = 0 <=> T = {})
                          /\ Cardinality(T) <= Cardinality(S)
  BY FS_Subset, FS_CardinalityType, FS_EmptySet, Zenon
<1>1. ASSUME NEW T \in SUBSET S
      PROVE  /\ f[T] = IF T = {} THEN 0 ELSE LET one == CHOOSE x \in T : TRUE IN one.amount + f[T \ {one}]
             /\ g[T] = IF T = {} THEN 0 ELSE LET one == CHOOSE x \in T : TRUE IN one.amount + g[T \ {one}]
  <2>1. Cardinality(T) <= k1 /\ Cardinality(T) <= k2 /\ T \in SUBSET S1 /\ T \in SUBSET S2
    BY <1>0
  <2> QED BY <2>1, Zenon DEF IsSum
<1>2. 0 \in All
  BY <1>0, <1>1, Zenon
<1>3. ASSUME NEW n \in Nat, n \in All PROVE n + 1 \in All
  <2> SUFFICES ASSUME NEW T \in SUBSET S, Cardinality(T) = n + 1 PROVE f[T] = g[T]
    OBVIOUS
  <2> DEFINE one == CHOOSE x \in T : TRUE
  <2>1. T # {} /\ one \in T
    BY <1>0
  <2>2. f[T] = one.amount + f[T \ {one}] /\ g[T] = one.amount + g[T \ {one}]
    BY <1>1, <2>1, Zenon
  <2> HIDE DEF one
  <2>3. Cardinality(T \ {one}) = n /\ T \ {one} \in SUBSET S
    BY <1>0, <2>1, FS_RemoveElement
  <2>4. f[T \ {one}] = g[T \ {one}]
    BY <1>3, <2>3, Zenon
  <2> QED BY <2>2, <2>4, Zenon
<1> HIDE DEF All
<1>4. Nat \subseteq All
  BY <1>2, <1>3, SetInduction, Zenon
<1>5. Cardinality(S) \in All
  BY <1>0, <1>4, Zenon
<1> QED BY <1>5, Zenon DEF All

(* What SumAmounts reads off.                                              *)
LEMMA SumChosen ==
    ASSUME NEW S, IsFiniteSet(S)
    PROVE  \E f : IsSum(f, S, Cardinality(S)) /\ SumAmounts(S) = f[S]
<1> DEFINE F(f) == f = [T \in SUBSET S |->
                         IF T = {} THEN 0
                         ELSE LET one == CHOOSE x \in T : TRUE IN one.amount + f[T \ {one}]]
           sum == CHOOSE f : F(f)
<1>0. Cardinality(S) \in Nat /\ \A T \in SUBSET S : Cardinality(T) <= Cardinality(S)
  BY FS_Subset, FS_CardinalityType, Zenon
<1>1. PICK f : DOMAIN f = SUBSET S /\ IsSum(f, S, Cardinality(S))
  BY <1>0, SumExists, Zenon
<1>2. \A T \in SUBSET S : f[T] = IF T = {} THEN 0
                                 ELSE LET one == CHOOSE x \in T : TRUE IN one.amount + f[T \ {one}]
  BY <1>0, <1>1, Zenon DEF IsSum
<1> DEFINE g == [T \in SUBSET S |-> f[T]]
<1>3. F(g)
  <2>1. ASSUME NEW T \in SUBSET S
        PROVE  g[T] = IF T = {} THEN 0
                      ELSE LET one == CHOOSE x \in T : TRUE IN one.amount + g[T \ {one}]
    <3>1. CASE T = {}
      BY <1>2, <3>1, Zenon
    <3>2. CASE T # {}
      <4> DEFINE one == CHOOSE x \in T : TRUE
      <4>1. f[T] = one.amount + f[T \ {one}]
        BY <1>2, <3>2, Zenon
      <4> HIDE DEF one
      <4>2. T \ {one} \in SUBSET S
        BY Zenon
      <4>3. g[T] = one.amount + g[T \ {one}]
        BY <4>1, <4>2, Zenon
      <4> QED BY <3>2, <4>3, Zenon DEF one
    <3> QED BY <3>1, <3>2, Zenon
  <2> QED BY <2>1, Zenon
<1>4. F(sum)
  <2> HIDE DEF F
  <2> QED BY <1>3, Zenon
<1>5. IsSum(sum, S, Cardinality(S))
  <2> HIDE DEF sum
  <2>1. ASSUME NEW T \in SUBSET S
        PROVE  sum[T] = IF T = {} THEN 0
                        ELSE LET one == CHOOSE x \in T : TRUE IN one.amount + sum[T \ {one}]
    BY <1>4, Zenon
  <2> QED BY <2>1, Zenon DEF IsSum
<1>6. SumAmounts(S) = sum[S]
  BY Zenon DEF SumAmounts
<1> QED BY <1>5, <1>6, Zenon

(* Any element may be taken first.                                         *)
LEMMA SumTakeAny ==
    ASSUME NEW S, Amounts(S), NEW f, IsSum(f, S, Cardinality(S))
    PROVE  \A T \in SUBSET S : f[T] \in Nat /\ \A y \in T : f[T] = y.amount + f[T \ {y}]
<1> DEFINE P(T) == f[T] \in Nat /\ \A y \in T : f[T] = y.amount + f[T \ {y}]
           All == {n \in Nat : \A T \in SUBSET S : Cardinality(T) <= n => P(T)}
<1>0. \A T \in SUBSET S : /\ IsFiniteSet(T) /\ Cardinality(T) \in Nat /\ (Cardinality(T) = 0 <=> T = {})
                          /\ Cardinality(T) <= Cardinality(S)
  BY FS_Subset, FS_CardinalityType, FS_EmptySet, Zenon DEF Amounts
<1>1. \A T \in SUBSET S : f[T] = IF T = {} THEN 0
                                 ELSE LET one == CHOOSE x \in T : TRUE IN one.amount + f[T \ {one}]
  BY <1>0, Zenon DEF IsSum
<1>2. f[{}] = 0
  BY <1>1, Zenon
<1>3. 0 \in All
  <2> SUFFICES ASSUME NEW T \in SUBSET S, Cardinality(T) <= 0 PROVE P(T)
    BY Zenon
  <2>1. T = {}
    BY <1>0
  <2> QED BY <1>2, <2>1
<1>4. ASSUME NEW n \in Nat, n \in All PROVE n + 1 \in All
  <2>0. \A T \in SUBSET S : Cardinality(T) <= n => P(T)
    BY <1>4, Zenon
  <2> SUFFICES ASSUME NEW T \in SUBSET S, Cardinality(T) <= n + 1 PROVE P(T)
    OBVIOUS
  <2>1. CASE T = {}
    BY <1>2, <2>1
  <2>2. CASE T # {}
    <3> DEFINE one == CHOOSE x \in T : TRUE
    <3>1. one \in T
      BY <2>2, Zenon
    <3>2. f[T] = one.amount + f[T \ {one}]
      BY <1>1, <2>2, Zenon
    <3> HIDE DEF one
    <3>3. ASSUME NEW y \in T PROVE T \ {y} \in SUBSET S /\ Cardinality(T \ {y}) <= n /\ y.amount \in Nat
      <4>1. Cardinality(T \ {y}) = Cardinality(T) - 1
        BY <1>0, FS_RemoveElement, Zenon
      <4>2. y.amount \in Nat
        BY Zenon DEF Amounts
      <4> QED BY <1>0, <4>1, <4>2
    <3>4. ASSUME NEW y \in T PROVE P(T \ {y})
      BY <2>0, <3>3, Zenon
    <3>5. f[T] \in Nat
      <4>1. f[T \ {one}] \in Nat /\ one.amount \in Nat
        BY <3>1, <3>3, <3>4, Zenon
      <4> QED BY <3>2, <4>1
    <3>6. ASSUME NEW y \in T PROVE f[T] = y.amount + f[T \ {y}]
      <4>1. CASE y = one
        BY <3>2, <4>1, Zenon
      <4>2. CASE y # one
        <5>1. y \in T \ {one} /\ one \in T \ {y} /\ (T \ {one}) \ {y} = (T \ {y}) \ {one}
          BY <3>1, <4>2, Zenon
        <5>2. f[T \ {one}] = y.amount + f[(T \ {one}) \ {y}]
          BY <3>1, <3>4, <5>1, Zenon
        <5>3. f[T \ {y}] = one.amount + f[(T \ {y}) \ {one}]
          BY <3>4, <5>1, Zenon
        <5>4. (T \ {y}) \ {one} \in SUBSET S /\ Cardinality((T \ {y}) \ {one}) <= n
          <6>1. Cardinality((T \ {y}) \ {one}) <= Cardinality(T \ {y})
            BY <1>0, <3>3, FS_Subset, Zenon
          <6> QED BY <1>0, <3>3, <6>1
        <5>5. f[(T \ {y}) \ {one}] \in Nat
          BY <2>0, <5>4, Zenon
        <5>6. y.amount \in Nat /\ one.amount \in Nat
          BY <3>1, <3>3, Zenon
        <5>7. f[T \ {one}] = y.amount + f[(T \ {y}) \ {one}]
          BY <5>1, <5>2, Zenon
        <5> DEFINE rest == f[(T \ {y}) \ {one}]
                   a == one.amount
                   b == y.amount
        <5>8. a \in Nat /\ b \in Nat /\ rest \in Nat
          BY <5>5, <5>6, Zenon
        <5>9. f[T] = a + (b + rest) /\ f[T \ {y}] = a + rest
          BY <3>2, <5>3, <5>7, Zenon
        <5> HIDE DEF a, b, rest
        <5>10. a + (b + rest) = b + (a + rest)
          BY <5>8
        <5>11. f[T] = b + f[T \ {y}]
          BY <5>9, <5>10, Zenon
        <5> QED BY <5>11, Zenon DEF b
      <4> QED BY <4>1, <4>2, Zenon
    <3> QED BY <3>5, <3>6, Zenon
  <2> QED BY <2>1, <2>2, Zenon
<1> HIDE DEF All
<1>5. Nat \subseteq All
  BY <1>3, <1>4, SetInduction, Zenon
<1>6. Cardinality(S) \in All
  BY <1>0, <1>5, Zenon
<1> QED BY <1>0, <1>6, Zenon DEF All

(* The empty sum, and one more summand.                                    *)
LEMMA SumFacts ==
    /\ SumAmounts({}) = 0
    /\ \A S : Amounts(S) => SumAmounts(S) \in Nat
    /\ \A S, x : Amounts(S) /\ x.amount \in Nat /\ x \notin S =>
          Amounts(S \cup {x}) /\ SumAmounts(S \cup {x}) = SumAmounts(S) + x.amount
<1>1. SumAmounts({}) = 0
  <2>1. IsFiniteSet({}) /\ Cardinality({}) = 0
    BY FS_EmptySet, Zenon
  <2>2. PICK f : IsSum(f, {}, Cardinality({})) /\ SumAmounts({}) = f[{}]
    BY <2>1, SumChosen, Zenon
  <2> QED BY <2>1, <2>2 DEF IsSum
<1>2. ASSUME NEW S, Amounts(S) PROVE SumAmounts(S) \in Nat
  <2>1. PICK f : IsSum(f, S, Cardinality(S)) /\ SumAmounts(S) = f[S]
    BY <1>2, SumChosen, Zenon DEF Amounts
  <2>2. f[S] \in Nat
    BY <1>2, <2>1, SumTakeAny, Zenon
  <2> QED BY <2>1, <2>2, Zenon
<1>3. ASSUME NEW S, NEW x, Amounts(S), x.amount \in Nat, x \notin S
      PROVE  Amounts(S \cup {x}) /\ SumAmounts(S \cup {x}) = SumAmounts(S) + x.amount
  <2> DEFINE U == S \cup {x}
  <2>1. Amounts(U) /\ Cardinality(U) \in Nat /\ Cardinality(S) \in Nat /\ Cardinality(S) <= Cardinality(U)
    BY <1>3, FS_AddElement, FS_CardinalityType, FS_Subset, Zenon DEF Amounts
  <2>2. PICK f : IsSum(f, S, Cardinality(S)) /\ SumAmounts(S) = f[S]
    BY <1>3, SumChosen, Zenon DEF Amounts
  <2>3. PICK g : IsSum(g, U, Cardinality(U)) /\ SumAmounts(U) = g[U]
    BY <2>1, SumChosen, Zenon DEF Amounts
  <2>4. f[S] = g[S]
    <3>1. S \subseteq S /\ S \subseteq U /\ IsFiniteSet(S) /\ Cardinality(S) <= Cardinality(S)
      BY <1>3, <2>1 DEF Amounts
    <3> HIDE DEF U
    <3> QED BY <2>1, <2>2, <2>3, <3>1, SumSame, Zenon
  <2>5. g[U] = x.amount + g[U \ {x}] /\ g[S] \in Nat
    BY <2>1, <2>3, SumTakeAny
  <2>6. U \ {x} = S
    BY <1>3, Zenon
  <2> HIDE DEF U
  <2>7. SumAmounts(U) = SumAmounts(S) + x.amount
    <3>1. g[U] = x.amount + g[S] /\ g[S] \in Nat /\ x.amount \in Nat
      BY <1>3, <2>5, <2>6, Zenon
    <3>2. SumAmounts(U) = x.amount + SumAmounts(S) /\ SumAmounts(S) \in Nat
      BY <2>2, <2>3, <2>4, <3>1, Zenon
    <3> QED BY <3>1, <3>2
  <2> QED BY <2>1, <2>7, Zenon DEF U
<1> QED BY <1>1, <1>2, <1>3, Zenon

-----------------------------------------------------------------------------
(* Accounts as the books of credits F and transactions T.                  *)

SentTo(S, a) == {x \in S : x.to = a}
SentBy(S, a) == {x \in S : x.from = a}

Books(accounts, F, T) ==
    /\ DOMAIN accounts = Addresses
    /\ Amounts(F)
    /\ IsFiniteSet(T) /\ T \subseteq Transfers
    /\ \A a \in Addresses :
          accounts[a] = [balance |-> SumAmounts(SentTo(F, a)) + SumAmounts(SentTo(T, a))
                                       - SumAmounts(SentBy(T, a)),
                         nonce |-> Cardinality(SentBy(T, a))]
    /\ \A tx \in T : tx.nonce <= accounts[tx.from].nonce

(* The fields of a transfer.                                               *)
LEMMA TransferTypes ==
    ASSUME NEW tx \in Transfers
    PROVE  /\ tx.from \in Addresses /\ tx.to \in Addresses
           /\ tx.amount \in Nat /\ tx.nonce \in Nat
BY LedgerAssumption DEF Transfers, LedgerAssumption

(* The parts of a set whose amounts are numbers.                           *)
LEMMA PartsHaveAmounts ==
    ASSUME NEW S, Amounts(S), NEW a
    PROVE  /\ Amounts(SentTo(S, a)) /\ Amounts(SentBy(S, a))
           /\ SumAmounts(SentTo(S, a)) \in Nat /\ SumAmounts(SentBy(S, a)) \in Nat
           /\ Cardinality(SentBy(S, a)) \in Nat
<1>1. SentTo(S, a) \subseteq S /\ SentBy(S, a) \subseteq S
  BY Zenon DEF SentTo, SentBy
<1>2. IsFiniteSet(SentTo(S, a)) /\ IsFiniteSet(SentBy(S, a))
  BY <1>1, FS_Subset, Zenon DEF Amounts
<1>3. Amounts(SentTo(S, a)) /\ Amounts(SentBy(S, a))
  BY <1>1, <1>2, Zenon DEF Amounts
<1> QED BY <1>2, <1>3, SumFacts, FS_CardinalityType, Zenon

(* One more transaction or credit in the sums of an account.               *)
LEMMA SumsGrow ==
    ASSUME NEW S, Amounts(S), NEW x, x \notin S, x.amount \in Nat, NEW a
    PROVE  /\ SumAmounts(SentTo(S \cup {x}, a)) =
                SumAmounts(SentTo(S, a)) + (IF x.to = a THEN x.amount ELSE 0)
           /\ SumAmounts(SentBy(S \cup {x}, a)) =
                SumAmounts(SentBy(S, a)) + (IF x.from = a THEN x.amount ELSE 0)
           /\ Cardinality(SentBy(S \cup {x}, a)) =
                Cardinality(SentBy(S, a)) + (IF x.from = a THEN 1 ELSE 0)
<1>0. /\ Amounts(SentTo(S, a)) /\ Amounts(SentBy(S, a))
      /\ SumAmounts(SentTo(S, a)) \in Nat /\ SumAmounts(SentBy(S, a)) \in Nat
      /\ Cardinality(SentBy(S, a)) \in Nat
  BY PartsHaveAmounts, Zenon
<1>1. x \notin SentTo(S, a) /\ x \notin SentBy(S, a)
  BY Zenon DEF SentTo, SentBy
<1>2. SumAmounts(SentTo(S \cup {x}, a)) =
        SumAmounts(SentTo(S, a)) + (IF x.to = a THEN x.amount ELSE 0)
  <2>1. CASE x.to = a
    <3>1. SentTo(S \cup {x}, a) = SentTo(S, a) \cup {x}
      BY <2>1, Zenon DEF SentTo
    <3> QED BY <1>0, <1>1, <2>1, <3>1, SumFacts, Zenon
  <2>2. CASE x.to # a
    <3>1. SentTo(S \cup {x}, a) = SentTo(S, a)
      BY <2>2, Zenon DEF SentTo
    <3> QED BY <1>0, <2>2, <3>1
  <2> QED BY <2>1, <2>2, Zenon
<1>3. SumAmounts(SentBy(S \cup {x}, a)) =
        SumAmounts(SentBy(S, a)) + (IF x.from = a THEN x.amount ELSE 0)
  <2>1. CASE x.from = a
    <3>1. SentBy(S \cup {x}, a) = SentBy(S, a) \cup {x}
      BY <2>1, Zenon DEF SentBy
    <3> QED BY <1>0, <1>1, <2>1, <3>1, SumFacts, Zenon
  <2>2. CASE x.from # a
    <3>1. SentBy(S \cup {x}, a) = SentBy(S, a)
      BY <2>2, Zenon DEF SentBy
    <3> QED BY <1>0, <2>2, <3>1
  <2> QED BY <2>1, <2>2, Zenon
<1>4. Cardinality(SentBy(S \cup {x}, a)) =
        Cardinality(SentBy(S, a)) + (IF x.from = a THEN 1 ELSE 0)
  <2>1. CASE x.from = a
    <3>1. SentBy(S \cup {x}, a) = SentBy(S, a) \cup {x}
      BY <2>1, Zenon DEF SentBy
    <3>2. IsFiniteSet(SentBy(S, a))
      BY <1>0, Zenon DEF Amounts
    <3> QED BY <1>0, <1>1, <2>1, <3>1, <3>2, FS_AddElement, Zenon
  <2>2. CASE x.from # a
    <3>1. SentBy(S \cup {x}, a) = SentBy(S, a)
      BY <2>2, Zenon DEF SentBy
    <3> QED BY <1>0, <2>2, <3>1
  <2> QED BY <2>1, <2>2, Zenon
<1> QED BY <1>2, <1>3, <1>4, Zenon

(* The accounts after one transfer, field by field.                        *)
LEMMA TransferFields ==
    ASSUME NEW accounts, DOMAIN accounts = Addresses, NEW tx \in Transfers,
           \A a \in Addresses : accounts[a] \in [balance : Int, nonce : Nat]
    PROVE  /\ DOMAIN Transfer(accounts, tx) = Addresses
           /\ \A a \in Addresses :
                 Transfer(accounts, tx)[a] =
                   [balance |-> accounts[a].balance - (IF tx.from = a THEN tx.amount ELSE 0)
                                                    + (IF tx.to = a THEN tx.amount ELSE 0),
                    nonce |-> IF tx.from = a THEN tx.nonce ELSE accounts[a].nonce]
<1>0. tx.from \in Addresses /\ tx.to \in Addresses /\ tx.amount \in Nat /\ tx.nonce \in Nat
  BY TransferTypes, Zenon
<1> DEFINE paid == [accounts EXCEPT
                      ![tx.from] = [balance |-> @.balance - tx.amount, nonce |-> tx.nonce]]
           next == [paid EXCEPT ![tx.to].balance = @ + tx.amount]
<1>1. DOMAIN paid = Addresses
  BY Zenon
<1>2. ASSUME NEW a \in Addresses
      PROVE  paid[a] = [balance |-> accounts[a].balance - (IF tx.from = a THEN tx.amount ELSE 0),
                        nonce |-> IF tx.from = a THEN tx.nonce ELSE accounts[a].nonce]
  <2>1. accounts[a] \in [balance : Int, nonce : Nat]
    BY Zenon
  <2>2. CASE tx.from = a
    BY <1>0, <2>2, Zenon
  <2>3. CASE tx.from # a
    <3>1. paid[a] = accounts[a]
      BY <2>3, Zenon
    <3>2. accounts[a] = [balance |-> accounts[a].balance, nonce |-> accounts[a].nonce]
      BY <2>1, Zenon
    <3>3. accounts[a].balance - 0 = accounts[a].balance
      BY <2>1
    <3> QED BY <2>3, <3>1, <3>2, <3>3, Zenon
  <2> QED BY <2>2, <2>3, Zenon
<1> HIDE DEF paid
<1>3. DOMAIN next = Addresses
  BY <1>1, Zenon
<1>4. ASSUME NEW a \in Addresses
      PROVE  next[a] = [balance |-> accounts[a].balance - (IF tx.from = a THEN tx.amount ELSE 0)
                                                       + (IF tx.to = a THEN tx.amount ELSE 0),
                        nonce |-> IF tx.from = a THEN tx.nonce ELSE accounts[a].nonce]
  <2> DEFINE b == accounts[a].balance - (IF tx.from = a THEN tx.amount ELSE 0)
             k == IF tx.from = a THEN tx.nonce ELSE accounts[a].nonce
  <2>0. accounts[a] \in [balance : Int, nonce : Nat]
    BY Zenon
  <2>1. b \in Int
    BY <1>0, <2>0
  <2>2. paid[a] = [balance |-> b, nonce |-> k]
    BY <1>2, Zenon
  <2> HIDE DEF b, k
  <2>3. CASE tx.to = a
    <3>1. next[a] = [paid[a] EXCEPT !.balance = @ + tx.amount]
      BY <1>0, <1>1, <2>3, Zenon
    <3>2. next[a] = [balance |-> b + tx.amount, nonce |-> k]
      BY <2>2, <3>1
    <3> QED BY <2>3, <3>2, Zenon DEF b, k
  <2>4. CASE tx.to # a
    <3>1. next[a] = paid[a]
      BY <1>1, <2>4, Zenon
    <3>2. b + 0 = b
      BY <2>1
    <3> QED BY <2>2, <2>4, <3>1, <3>2, Zenon DEF b, k
  <2> QED BY <2>3, <2>4, Zenon
<1> QED BY <1>3, <1>4, Zenon DEF Transfer, paid

(* Accounts that are books hold an integer and a number.                   *)
LEMMA BooksTypes ==
    ASSUME NEW accounts, NEW F, NEW T, Books(accounts, F, T)
    PROVE  /\ Amounts(T)
           /\ \A a \in Addresses : accounts[a] \in [balance : Int, nonce : Nat]
<1>1. Amounts(T)
  BY TransferTypes, Zenon DEF Books, Amounts
<1>2. ASSUME NEW a \in Addresses PROVE accounts[a] \in [balance : Int, nonce : Nat]
  <2>1. /\ SumAmounts(SentTo(F, a)) \in Nat /\ SumAmounts(SentTo(T, a)) \in Nat
        /\ SumAmounts(SentBy(T, a)) \in Nat /\ Cardinality(SentBy(T, a)) \in Nat
    BY <1>1, PartsHaveAmounts, Zenon DEF Books
  <2>2. accounts[a] = [balance |-> SumAmounts(SentTo(F, a)) + SumAmounts(SentTo(T, a))
                                     - SumAmounts(SentBy(T, a)),
                       nonce |-> Cardinality(SentBy(T, a))]
    BY Zenon DEF Books
  <2> QED BY <2>1, <2>2
<1> QED BY <1>1, <1>2, Zenon

(* A transaction that fits is new, and its transfer is the entry for it.   *)
LEMMA TransferBooks ==
    ASSUME NEW accounts, NEW F, NEW T, Books(accounts, F, T),
           NEW tx \in Transfers, TransferFits(accounts, tx)
    PROVE  tx \notin T /\ Books(Transfer(accounts, tx), F, T \cup {tx})
<1> DEFINE next == Transfer(accounts, tx)
           U == T \cup {tx}
<1>0. tx.from \in Addresses /\ tx.to \in Addresses /\ tx.amount \in Nat /\ tx.nonce \in Nat
  BY TransferTypes, Zenon
<1>1. Amounts(F) /\ Amounts(T) /\ \A a \in Addresses : accounts[a] \in [balance : Int, nonce : Nat]
  BY BooksTypes, Zenon DEF Books
<1>2. tx.nonce = accounts[tx.from].nonce + 1
  BY Zenon DEF TransferFits
<1>3. tx \notin T
  <2> SUFFICES ASSUME tx \in T PROVE FALSE
    BY Zenon
  <2>1. tx.nonce <= accounts[tx.from].nonce /\ accounts[tx.from].nonce \in Nat
    BY <1>0, <1>1, Zenon DEF Books
  <2> QED BY <1>2, <2>1
<1>4. /\ DOMAIN next = Addresses
      /\ \A a \in Addresses :
            next[a] = [balance |-> accounts[a].balance - (IF tx.from = a THEN tx.amount ELSE 0)
                                                       + (IF tx.to = a THEN tx.amount ELSE 0),
                       nonce |-> IF tx.from = a THEN tx.nonce ELSE accounts[a].nonce]
  BY <1>1, TransferFields DEF Books
<1> HIDE DEF next
<1>5. ASSUME NEW a \in Addresses
      PROVE  next[a] = [balance |-> SumAmounts(SentTo(F, a)) + SumAmounts(SentTo(U, a))
                                      - SumAmounts(SentBy(U, a)),
                        nonce |-> Cardinality(SentBy(U, a))]
  <2> DEFINE in == SumAmounts(SentTo(T, a))
             out == SumAmounts(SentBy(T, a))
             c == SumAmounts(SentTo(F, a))
             k == Cardinality(SentBy(T, a))
             got == IF tx.to = a THEN tx.amount ELSE 0
             paid == IF tx.from = a THEN tx.amount ELSE 0
  <2>1. c \in Nat /\ in \in Nat /\ out \in Nat /\ k \in Nat
    BY <1>1, PartsHaveAmounts, Zenon
  <2>2. /\ SumAmounts(SentTo(U, a)) = in + got /\ SumAmounts(SentBy(U, a)) = out + paid
        /\ Cardinality(SentBy(U, a)) = k + (IF tx.from = a THEN 1 ELSE 0)
    BY <1>0, <1>1, <1>3, SumsGrow
  <2>3. accounts[a] = [balance |-> c + in - out, nonce |-> k]
    BY Zenon DEF Books
  <2>4. accounts[a].balance = c + in - out /\ accounts[a].nonce = k
    BY <2>3
  <2>5. next[a] = [balance |-> accounts[a].balance - paid + got,
                   nonce |-> IF tx.from = a THEN tx.nonce ELSE accounts[a].nonce]
    BY <1>4, Zenon
  <2>6. got \in Nat /\ paid \in Nat
    BY <1>0, Zenon
  <2> HIDE DEF in, out, c, got, paid
  <2>7. accounts[a].balance - paid + got = c + (in + got) - (out + paid)
    BY <2>1, <2>4, <2>6
  <2>8. (IF tx.from = a THEN tx.nonce ELSE accounts[a].nonce) = k + (IF tx.from = a THEN 1 ELSE 0)
    BY <1>2, <2>1, <2>4
  <2> QED BY <2>2, <2>5, <2>7, <2>8, Zenon DEF c
<1>6. ASSUME NEW t \in U PROVE t.nonce <= next[t.from].nonce
  <2>1. t \in Transfers
    BY Zenon DEF Books
  <2>2. t.from \in Addresses /\ t.nonce \in Nat
    BY <2>1, TransferTypes, Zenon
  <2>3. next[t.from].nonce = IF tx.from = t.from THEN tx.nonce ELSE accounts[t.from].nonce
    BY <1>4, <2>2
  <2>4. CASE t = tx
    BY <1>0, <2>3, <2>4
  <2>5. CASE t \in T
    <3>1. t.nonce <= accounts[t.from].nonce /\ accounts[t.from].nonce \in Nat
      BY <1>1, <2>2, <2>5, Zenon DEF Books
    <3> QED BY <1>2, <2>2, <2>3, <3>1
  <2> QED BY <2>4, <2>5, Zenon
<1>7. IsFiniteSet(U) /\ U \subseteq Transfers
  BY FS_AddElement, Zenon DEF Books
<1> HIDE DEF U
<1>8. Books(next, F, U)
  BY <1>1, <1>4, <1>5, <1>6, <1>7, Zenon DEF Books
<1> QED BY <1>3, <1>8, Zenon DEF next, U

(* A credit that is new is one more entry.                                 *)
LEMMA CreditBooks ==
    ASSUME NEW accounts, NEW F, NEW T, Books(accounts, F, T),
           NEW r, r \notin F, r.to \in Addresses, r.amount \in Nat
    PROVE  Books([accounts EXCEPT ![r.to].balance = @ + r.amount], F \cup {r}, T)
<1> DEFINE next == [accounts EXCEPT ![r.to].balance = @ + r.amount]
           G == F \cup {r}
<1>1. Amounts(F) /\ Amounts(T) /\ \A a \in Addresses : accounts[a] \in [balance : Int, nonce : Nat]
  BY BooksTypes, Zenon DEF Books
<1>2. DOMAIN next = Addresses
  BY Zenon DEF Books
<1>3. ASSUME NEW a \in Addresses
      PROVE  next[a] = [balance |-> accounts[a].balance + (IF r.to = a THEN r.amount ELSE 0),
                        nonce |-> accounts[a].nonce]
  <2>1. accounts[a] \in [balance : Int, nonce : Nat]
    BY <1>1, Zenon
  <2>2. CASE r.to = a
    <3>1. next[a] = [accounts[a] EXCEPT !.balance = @ + r.amount]
      BY <2>2, Zenon DEF Books
    <3> QED BY <2>1, <2>2, <3>1, Zenon
  <2>3. CASE r.to # a
    <3>1. next[a] = accounts[a]
      BY <2>3, Zenon DEF Books
    <3>2. accounts[a] = [balance |-> accounts[a].balance, nonce |-> accounts[a].nonce]
      BY <2>1, Zenon
    <3>3. accounts[a].balance + 0 = accounts[a].balance
      BY <2>1
    <3> QED BY <2>3, <3>1, <3>2, <3>3, Zenon
  <2> QED BY <2>2, <2>3, Zenon
<1> HIDE DEF next
<1>4. ASSUME NEW a \in Addresses
      PROVE  next[a] = [balance |-> SumAmounts(SentTo(G, a)) + SumAmounts(SentTo(T, a))
                                      - SumAmounts(SentBy(T, a)),
                        nonce |-> Cardinality(SentBy(T, a))]
  <2> DEFINE in == SumAmounts(SentTo(T, a))
             out == SumAmounts(SentBy(T, a))
             c == SumAmounts(SentTo(F, a))
             k == Cardinality(SentBy(T, a))
             got == IF r.to = a THEN r.amount ELSE 0
  <2>1. c \in Nat /\ in \in Nat /\ out \in Nat /\ k \in Nat /\ got \in Nat
    BY <1>1, PartsHaveAmounts, Zenon
  <2>2. SumAmounts(SentTo(G, a)) = c + got
    BY <1>1, SumsGrow
  <2>3. accounts[a] = [balance |-> c + in - out, nonce |-> k]
    BY Zenon DEF Books
  <2>4. next[a] = [balance |-> accounts[a].balance + got, nonce |-> accounts[a].nonce]
    BY <1>3, Zenon
  <2> HIDE DEF in, out, c, k, got
  <2>5. next[a] = [balance |-> (c + in - out) + got, nonce |-> k]
    BY <2>3, <2>4
  <2>6. (c + in - out) + got = (c + got) + in - out
    BY <2>1
  <2> QED BY <2>2, <2>5, <2>6, Zenon DEF in, out, k
<1>5. Amounts(G)
  BY <1>1, SumFacts, Zenon
<1>6. ASSUME NEW tx \in T PROVE tx.nonce <= next[tx.from].nonce
  <2>1. tx.from \in Addresses
    BY TransferTypes, Zenon DEF Books
  <2>2. next[tx.from] = [balance |-> accounts[tx.from].balance + (IF r.to = tx.from THEN r.amount ELSE 0),
                         nonce |-> accounts[tx.from].nonce]
    BY <1>3, <2>1, Zenon
  <2>3. next[tx.from].nonce = accounts[tx.from].nonce
    BY <2>2
  <2> QED BY <2>3, Zenon DEF Books
<1> HIDE DEF G
<1>7. Books(next, G, T)
  BY <1>2, <1>4, <1>5, <1>6, Zenon DEF Books
<1> QED BY <1>7, Zenon DEF next, G

(* run lists what Execute has done after each transaction.                 *)
ExecuteStep(before, txs, i) ==
    IF before.done = i - 1 /\ TransferFits(before.accounts, txs[i])
    THEN [done |-> i, accounts |-> Transfer(before.accounts, txs[i])]
    ELSE before

IsRun(run, accounts, txs, n) ==
    run = [i \in 0..n |-> IF i = 0 THEN [done |-> 0, accounts |-> accounts]
                          ELSE ExecuteStep(run[i - 1], txs, i)]

(* There is a function that satisfies the equations of Execute.            *)
LEMMA RunExists ==
    ASSUME NEW accounts, NEW txs
    PROVE  \A n \in Nat : \E run : IsRun(run, accounts, txs, n)
<1> DEFINE All == {n \in Nat : \E run : IsRun(run, accounts, txs, n)}
           start == [done |-> 0, accounts |-> accounts]
<1>1. 0 \in All
  <2> DEFINE g == [i \in 0..0 |-> start]
  <2>1. IsRun(g, accounts, txs, 0)
    BY DEF IsRun
  <2> QED BY <2>1, Zenon
<1>2. ASSUME NEW n \in Nat, n \in All PROVE n + 1 \in All
  <2>1. PICK f : IsRun(f, accounts, txs, n)
    BY <1>2, Zenon
  <2> DEFINE g == [i \in 0..(n + 1) |-> IF i <= n THEN f[i] ELSE ExecuteStep(f[n], txs, n + 1)]
             h == [i \in 0..(n + 1) |-> IF i = 0 THEN start ELSE ExecuteStep(g[i - 1], txs, i)]
  <2>2. ASSUME NEW i \in 0..(n + 1) PROVE g[i] = h[i]
    <3>1. CASE i = 0
      <4>1. f[0] = start
        BY <2>1 DEF IsRun
      <4> QED BY <3>1, <4>1
    <3>2. CASE i # 0 /\ i <= n
      <4>0. i \in 0..n
        BY <3>2
      <4>1. f[i] = ExecuteStep(f[i - 1], txs, i)
        BY <2>1, <3>2, <4>0, Zenon DEF IsRun
      <4>2. g[i - 1] = f[i - 1]
        BY <3>2
      <4> QED BY <3>2, <4>1, <4>2, Zenon
    <3>3. CASE i = n + 1
      <4>1. g[i - 1] = f[n]
        BY <3>3
      <4>2. g[i] = ExecuteStep(f[n], txs, n + 1)
        BY <3>3
      <4> QED BY <3>3, <4>1, <4>2
    <3> QED BY <3>1, <3>2, <3>3
  <2>3. g = h
    BY <2>2, Zenon
  <2> HIDE DEF g
  <2>4. IsRun(g, accounts, txs, n + 1)
    BY <2>3, Zenon DEF IsRun
  <2>5. \E run : IsRun(run, accounts, txs, n + 1)
    BY <2>4, Zenon
  <2> QED BY <2>5
<1> HIDE DEF All
<1>3. Nat \subseteq All
  BY <1>1, <1>2, SetInduction, Zenon
<1> QED BY <1>3, Zenon DEF All

(* Execute is the last value of a function that satisfies its equations.   *)
LEMMA RunChosen ==
    ASSUME NEW accounts, NEW txs, Len(txs) \in Nat
    PROVE  \E run : IsRun(run, accounts, txs, Len(txs)) /\ Execute(accounts, txs) = run[Len(txs)]
<1> DEFINE run == CHOOSE f : IsRun(f, accounts, txs, Len(txs))
<1>1. IsRun(run, accounts, txs, Len(txs))
  BY RunExists, Zenon
<1>2. Execute(accounts, txs) = run[Len(txs)]
  BY Zenon DEF Execute, IsRun, ExecuteStep
<1> QED BY <1>1, <1>2, Zenon

(* Execute enters the transactions it has done, and nothing else.          *)
LEMMA ExecuteBooks ==
    ASSUME NEW accounts, NEW F, NEW T, Books(accounts, F, T),
           NEW txs, IsSeq(txs), Elements(txs) \subseteq Transfers
    PROVE  /\ Execute(accounts, txs).done \in 0..Len(txs)
           /\ Executes(accounts, txs)
                => Books(Execute(accounts, txs).accounts, F, T \cup Elements(txs))
<1>0. Len(txs) \in Nat
  BY DEF IsSeq
<1>1. PICK run : IsRun(run, accounts, txs, Len(txs)) /\ Execute(accounts, txs) = run[Len(txs)]
  BY <1>0, RunChosen, Zenon
<1> DEFINE Done(k) == {txs[j] : j \in 1..k}
           P(i) == /\ run[i].done \in 0..i
                   /\ Books(run[i].accounts, F, T \cup Done(run[i].done))
           All == {i \in Nat : i <= Len(txs) => P(i)}
<1>2. 0 \in All
  <2>1. run[0] = [done |-> 0, accounts |-> accounts]
    BY <1>0, <1>1 DEF IsRun
  <2>2. run[0].done = 0 /\ run[0].accounts = accounts
    BY <2>1
  <2>3. T \cup Done(0) = T
    OBVIOUS
  <2>4. P(0)
    BY <2>2, <2>3
  <2> QED BY <2>4, Zenon
<1>3. ASSUME NEW i \in Nat, i \in All PROVE i + 1 \in All
  <2> SUFFICES ASSUME i + 1 <= Len(txs) PROVE P(i + 1)
    OBVIOUS
  <2>1. P(i)
    BY <1>0, <1>3
  <2>2. run[i + 1] = ExecuteStep(run[i], txs, i + 1)
    <3>1. i + 1 \in 0..Len(txs) /\ i + 1 # 0 /\ (i + 1) - 1 = i
      BY <1>0
    <3> QED BY <1>1, <3>1, Zenon DEF IsRun
  <2>3. txs[i + 1] \in Transfers
    BY <1>0 DEF Elements
  <2>4. CASE run[i].done = i /\ TransferFits(run[i].accounts, txs[i + 1])
    <3>1. run[i + 1] = [done |-> i + 1, accounts |-> Transfer(run[i].accounts, txs[i + 1])]
      BY <2>2, <2>4 DEF ExecuteStep
    <3>2. run[i + 1].done = i + 1 /\ run[i + 1].accounts = Transfer(run[i].accounts, txs[i + 1])
      BY <3>1
    <3>3. Books(run[i].accounts, F, T \cup Done(i))
      BY <2>1, <2>4, Zenon
    <3> HIDE DEF Done
    <3>4. Books(run[i + 1].accounts, F, (T \cup Done(i)) \cup {txs[i + 1]})
      BY <2>3, <2>4, <3>2, <3>3, TransferBooks
    <3>5. (T \cup Done(i)) \cup {txs[i + 1]} = T \cup Done(i + 1)
      <4>1. 1..(i + 1) = (1..i) \cup {i + 1}
        OBVIOUS
      <4> QED BY <4>1, Zenon DEF Done
    <3>6. Done(run[i + 1].done) = Done(i + 1) /\ run[i + 1].done \in 0..(i + 1)
      BY <3>2
    <3>7. Books(run[i + 1].accounts, F, T \cup Done(run[i + 1].done))
      BY <3>4, <3>5, <3>6, Zenon
    <3> QED BY <3>6, <3>7, Zenon
  <2>5. CASE ~(run[i].done = i /\ TransferFits(run[i].accounts, txs[i + 1]))
    <3>1. run[i + 1] = run[i]
      <4>1. (i + 1) - 1 = i
        OBVIOUS
      <4> QED BY <2>2, <2>5, <4>1, Zenon DEF ExecuteStep
    <3>2. run[i].done \in 0..(i + 1)
      BY <2>1
    <3> HIDE DEF Done
    <3> QED BY <2>1, <3>1, <3>2, Zenon
  <2> QED BY <2>4, <2>5, Zenon
<1> HIDE DEF All
<1>4. Len(txs) \in All
  BY <1>0, <1>2, <1>3, SetInduction, Zenon
<1>5. P(Len(txs))
  BY <1>0, <1>4 DEF All
<1>6. Done(Len(txs)) = Elements(txs)
  BY Zenon DEF Elements
<1> HIDE DEF Done
<1> QED BY <1>1, <1>5, <1>6, Zenon DEF Executes

-----------------------------------------------------------------------------
(* States.                                                                 *)

BlockOK(block) ==
    block.height \in Nat /\ IsSeq(block.txs) /\ Elements(block.txs) \subseteq Transfers

(* StateConsistent, with what keeps it: no transaction of the chain has a  *)
(* nonce its sender may use again (in Books).                              *)
GoodState(st) ==
    /\ DOMAIN st = StateFields
    /\ IsSeq(st.pool) /\ Elements(st.pool) \subseteq Transfers
    /\ IsSeq(st.chain) /\ \A block \in Elements(st.chain) : BlockOK(block)
    /\ IsSeq(st.proposals) /\ \A p \in Elements(st.proposals) : BlockOK(p.block)
    /\ Books(st.accounts, st.funded, ChainTxs(st))
    /\ st.committed = ChainTxs(st)
    /\ st.committed \cap Elements(st.pool) = {}
    /\ \A h \in 1..Height(st) :
          /\ st.chain[h].height = h
          /\ st.chain[h].prev = IF h = 1 THEN NoHash ELSE st.chain[h - 1]

(* What a node has acknowledged is in a state.                             *)
Carries(st, ack) ==
    /\ ack.funded \subseteq st.funded
    /\ ack.txs \subseteq Elements(st.pool) \cup st.committed

(* A good state is the replay of its chain, as AccountsReplay says it.     *)
LEMMA GoodIsConsistent ==
    ASSUME NEW st, GoodState(st)
    PROVE  StateConsistent(st)
<1>1. ASSUME NEW a \in Addresses PROVE st.accounts[a] = ReplayedAccount(st, a)
  BY Zenon DEF GoodState, Books, ReplayedAccount, SentTo, SentBy
<1> QED BY <1>1, Zenon DEF StateConsistent, GoodState

(* Only the fields GoodState reads matter.                                 *)
LEMMA SameGood ==
    ASSUME NEW st, GoodState(st), NEW next, DOMAIN next = StateFields,
           next.accounts = st.accounts, next.pool = st.pool, next.chain = st.chain,
           next.committed = st.committed, next.funded = st.funded, next.proposals = st.proposals
    PROVE  GoodState(next) /\ Height(next) = Height(st) /\ \A ack : Carries(st, ack) => Carries(next, ack)
<1>1. ChainTxs(next) = ChainTxs(st) /\ Height(next) = Height(st)
  BY Zenon DEF ChainTxs, Height
<1> QED BY <1>1, Zenon DEF GoodState, Carries

(* A block in the chain adds its transactions.                             *)
LEMMA ChainTxsAppend ==
    ASSUME NEW st, IsSeq(st.chain), NEW next, NEW block, next.chain = Append(st.chain, block)
    PROVE  /\ Height(next) = Height(st) + 1 /\ Height(st) \in Nat
           /\ ChainTxs(next) = ChainTxs(st) \cup Elements(block.txs)
<1>1. /\ Len(st.chain) \in Nat /\ Len(next.chain) = Len(st.chain) + 1
      /\ next.chain[Len(st.chain) + 1] = block
      /\ \A i \in 1..Len(st.chain) : next.chain[i] = st.chain[i]
  BY AppendFacts
<1> DEFINE n == Len(st.chain)
<1>2. 1..(n + 1) = (1..n) \cup {n + 1}
  BY <1>1
<1>3. ChainTxs(next) = UNION {Elements(next.chain[h].txs) : h \in (1..n) \cup {n + 1}}
  BY <1>1, <1>2, Zenon DEF ChainTxs, Height
<1>4. ASSUME NEW x PROVE x \in ChainTxs(next) <=> x \in ChainTxs(st) \cup Elements(block.txs)
  <2>1. x \in ChainTxs(next) <=> \E h \in (1..n) \cup {n + 1} : x \in Elements(next.chain[h].txs)
    BY <1>3, Zenon
  <2>2. x \in ChainTxs(st) <=> \E h \in 1..n : x \in Elements(st.chain[h].txs)
    BY Zenon DEF ChainTxs, Height
  <2>3. \A h \in 1..n : Elements(next.chain[h].txs) = Elements(st.chain[h].txs)
    BY <1>1, Zenon
  <2>4. Elements(next.chain[n + 1].txs) = Elements(block.txs)
    BY <1>1, Zenon
  <2> QED BY <2>1, <2>2, <2>3, <2>4, Zenon
<1> QED BY <1>1, <1>4, Zenon DEF Height

(* produceBlockFromState and importBlockIntoState.                         *)
LEMMA AppendBlockGood ==
    ASSUME NEW st, GoodState(st), NEW block, BlockOK(block),
           Executes(st.accounts, block.txs),
           block.height = Height(st) + 1, block.prev = Tip(st)
    PROVE  /\ GoodState(AppendBlock(st, block))
           /\ \A ack : Carries(st, ack) => Carries(AppendBlock(st, block), ack)
<1> DEFINE next == AppendBlock(st, block)
           E == Elements(block.txs)
<1>1. /\ DOMAIN next = StateFields
      /\ next.accounts = Execute(st.accounts, block.txs).accounts
      /\ next.pool = Only(st.pool, Elements(st.pool) \ E)
      /\ next.chain = Append(st.chain, block)
      /\ next.committed = st.committed \cup E
      /\ next.funded = st.funded
      /\ next.proposals = st.proposals
  <2>1. DOMAIN st = StateFields
    BY Zenon DEF GoodState
  <2> QED BY <2>1, AppendBlockFields
<1> HIDE DEF next
<1>2. IsSeq(next.pool) /\ Elements(next.pool) = Elements(st.pool) \ E
  <2>1. IsSeq(st.pool)
    BY Zenon DEF GoodState
  <2>2. IsSeq(next.pool) /\ Elements(next.pool) = Elements(st.pool) \cap (Elements(st.pool) \ E)
    BY <1>1, <2>1, OnlyFacts
  <2> QED BY <2>2, Zenon
<1>3. IsSeq(st.chain)
  BY Zenon DEF GoodState
<1>4. /\ IsSeq(next.chain) /\ Elements(next.chain) = Elements(st.chain) \cup {block}
      /\ next.chain[Len(st.chain) + 1] = block /\ Len(st.chain) \in Nat
      /\ \A i \in 1..Len(st.chain) : next.chain[i] = st.chain[i]
  BY <1>1, <1>3, AppendFacts
<1>5. ChainTxs(next) = ChainTxs(st) \cup E /\ Height(next) = Height(st) + 1
  BY <1>1, <1>3, ChainTxsAppend, Zenon
<1>6. Books(next.accounts, next.funded, ChainTxs(next))
  <2>1. Books(st.accounts, st.funded, ChainTxs(st)) /\ IsSeq(block.txs) /\ E \subseteq Transfers
    BY Zenon DEF GoodState, BlockOK
  <2>2. Books(Execute(st.accounts, block.txs).accounts, st.funded, ChainTxs(st) \cup E)
    BY <2>1, ExecuteBooks, Zenon
  <2> QED BY <1>1, <1>5, <2>2, Zenon
<1>7. next.committed = ChainTxs(next) /\ next.committed \cap Elements(next.pool) = {}
  BY <1>1, <1>2, <1>5, Zenon DEF GoodState
<1>8. ASSUME NEW h \in 1..Height(next)
      PROVE  next.chain[h].height = h /\ next.chain[h].prev = IF h = 1 THEN NoHash ELSE next.chain[h - 1]
  <2>0. Height(st) = Len(st.chain)
    BY Zenon DEF Height
  <2>1. CASE h \in 1..Height(st)
    <3>1. next.chain[h] = st.chain[h] /\ (h # 1 => next.chain[h - 1] = st.chain[h - 1])
      BY <1>4, <2>0, <2>1
    <3> QED BY <2>1, <3>1, Zenon DEF GoodState
  <2>2. CASE h = Height(st) + 1
    <3>1. next.chain[h] = block
      BY <1>4, <2>0, <2>2, Zenon
    <3>2. Tip(st) = IF h = 1 THEN NoHash ELSE next.chain[h - 1]
      <4>1. CASE st.chain = << >>
        BY <1>4, <2>0, <2>2, <4>1, EmptyFacts DEF Tip
      <4>2. CASE st.chain # << >>
        <5>1. Len(st.chain) # 0
          BY <1>3, <4>2 DEF IsSeq
        <5> QED BY <1>4, <2>0, <2>2, <4>2, <5>1 DEF Tip
      <4> QED BY <4>1, <4>2, Zenon
    <3> QED BY <2>2, <3>1, <3>2, Zenon
  <2> QED BY <1>4, <1>5, <2>0, <2>1, <2>2
<1>9. GoodState(next)
  BY <1>1, <1>2, <1>4, <1>6, <1>7, <1>8, Zenon DEF GoodState
<1>10. \A ack : Carries(st, ack) => Carries(next, ack)
  BY <1>1, <1>2, Zenon DEF Carries
<1> QED BY <1>9, <1>10, Zenon DEF next

-----------------------------------------------------------------------------
(* The states the handlers compute.                                        *)

(* The action log is no part of what makes a state good.                   *)
LEMMA WithActions ==
    ASSUME NEW st, GoodState(st), NEW actions
    PROVE  LET next == [st EXCEPT !.actions = actions]
           IN  /\ GoodState(next) /\ Height(next) = Height(st)
               /\ next.actions = actions
               /\ \A ack : Carries(st, ack) => Carries(next, ack)
<1> DEFINE next == [st EXCEPT !.actions = actions]
<1>1. DOMAIN st = StateFields
  BY Zenon DEF GoodState
<1>2. /\ DOMAIN next = StateFields /\ next.accounts = st.accounts /\ next.pool = st.pool
      /\ next.chain = st.chain /\ next.committed = st.committed
      /\ next.funded = st.funded /\ next.proposals = st.proposals
      /\ next.actions = actions
  BY <1>1, Zenon DEF StateFields
<1> HIDE DEF next
<1>3. GoodState(next) /\ Height(next) = Height(st) /\ \A ack : Carries(st, ack) => Carries(next, ack)
  BY <1>2, SameGood, Zenon
<1> QED BY <1>2, <1>3, Zenon DEF next

(* handleFaucet.                                                           *)
LEMMA CreditGood ==
    ASSUME NEW st, GoodState(st), NEW r, r \notin st.funded, r.to \in Addresses, r.amount \in Nat
    PROVE  LET next == [st EXCEPT !.accounts[r.to].balance = @ + r.amount,
                                  !.funded = @ \cup {r}]
           IN  /\ GoodState(next) /\ r \in next.funded
               /\ \A ack : Carries(st, ack) => Carries(next, ack)
<1> DEFINE next == [st EXCEPT !.accounts[r.to].balance = @ + r.amount, !.funded = @ \cup {r}]
           accounts == [st.accounts EXCEPT ![r.to].balance = @ + r.amount]
<1>1. DOMAIN st = StateFields /\ Books(st.accounts, st.funded, ChainTxs(st))
  BY Zenon DEF GoodState
<1>2. Books(accounts, st.funded \cup {r}, ChainTxs(st))
  BY <1>1, CreditBooks, Zenon
<1>3. /\ DOMAIN next = StateFields /\ next.accounts = accounts /\ next.pool = st.pool
      /\ next.chain = st.chain /\ next.committed = st.committed
      /\ next.funded = st.funded \cup {r} /\ next.proposals = st.proposals
  BY <1>1, Zenon DEF StateFields
<1> HIDE DEF next, accounts
<1>4. ChainTxs(next) = ChainTxs(st) /\ Height(next) = Height(st)
  BY <1>3, Zenon DEF ChainTxs, Height
<1>5. GoodState(next)
  BY <1>2, <1>3, <1>4, Zenon DEF GoodState
<1>6. r \in next.funded /\ \A ack : Carries(st, ack) => Carries(next, ack)
  BY <1>3, Zenon DEF Carries
<1> QED BY <1>5, <1>6, Zenon DEF next

(* handleBroadcastTransaction.                                             *)
LEMMA AcceptGood ==
    ASSUME NEW st, GoodState(st), NEW tx \in Transfers, tx \notin st.committed
    PROVE  LET next == [st EXCEPT !.pool = Append(@, tx)]
           IN  /\ GoodState(next) /\ tx \in Elements(next.pool)
               /\ \A ack : Carries(st, ack) => Carries(next, ack)
<1> DEFINE next == [st EXCEPT !.pool = Append(@, tx)]
<1>1. DOMAIN st = StateFields /\ IsSeq(st.pool)
  BY Zenon DEF GoodState
<1>2. /\ DOMAIN next = StateFields /\ next.accounts = st.accounts /\ next.pool = Append(st.pool, tx)
      /\ next.chain = st.chain /\ next.committed = st.committed
      /\ next.funded = st.funded /\ next.proposals = st.proposals
  BY <1>1, Zenon DEF StateFields
<1> HIDE DEF next
<1>3. IsSeq(next.pool) /\ Elements(next.pool) = Elements(st.pool) \cup {tx}
  BY <1>1, <1>2, AppendFacts
<1>4. ChainTxs(next) = ChainTxs(st) /\ Height(next) = Height(st)
  BY <1>2, Zenon DEF ChainTxs, Height
<1>5. GoodState(next)
  BY <1>2, <1>3, <1>4, Zenon DEF GoodState
<1>6. tx \in Elements(next.pool) /\ \A ack : Carries(st, ack) => Carries(next, ack)
  BY <1>2, <1>3, Zenon DEF Carries
<1> QED BY <1>5, <1>6, Zenon DEF next

(* BuildNextBlock takes its transactions from the pool.                    *)
LEMMA BlockFromPool ==
    ASSUME NEW st, GoodState(st), NEW at
    PROVE  LET block == BuildBlock(st, MaxTransactionsPerBlock, at)
           IN  /\ BlockOK(block) /\ block.height = Height(st) + 1 /\ block.prev = Tip(st)
               /\ block.txs = Selected(st, MaxTransactionsPerBlock)
               /\ block.root.version = st.version
<1> DEFINE picked == Selected(st, MaxTransactionsPerBlock)
           block == BuildBlock(st, MaxTransactionsPerBlock, at)
<1>1. /\ IsSeq(st.pool) /\ Elements(st.pool) \subseteq Transfers
      /\ IsSeq(st.chain)
  BY Zenon DEF GoodState
<1>2. Len(st.pool) \in Nat /\ Len(st.chain) \in Nat
  BY <1>1 DEF IsSeq
<1>3. picked \in Seq(Elements(st.pool))
  <2> DEFINE k == IF MaxTransactionsPerBlock < Len(st.pool) THEN MaxTransactionsPerBlock ELSE Len(st.pool)
  <2>1. k \in 0..Len(st.pool)
    BY <1>2, NodeAssumption DEF NodeAssumption
  <2> HIDE DEF k
  <2>2. st.pool \in Seq(Elements(st.pool))
    BY <1>1, Zenon DEF IsSeq
  <2>3. SubSeq(st.pool, 1, k) \in Seq(Elements(st.pool))
    BY <1>2, <2>1, <2>2
  <2> QED BY <2>3, Zenon DEF Selected, k
<1>4. IsSeq(picked) /\ Elements(picked) \subseteq Elements(st.pool)
  BY <1>3, SeqOver, Zenon
<1>5. /\ block.txs = picked /\ block.height = Height(st) + 1 /\ block.prev = Tip(st)
      /\ block.root = stateRoot(st, Execute(st.accounts, picked).accounts)
  BY Zenon DEF BuildBlock, BlockOf
<1>6. block.root.version = st.version
  BY <1>5 DEF stateRoot
<1> HIDE DEF picked, block
<1>7. BlockOK(block)
  BY <1>1, <1>2, <1>4, <1>5 DEF BlockOK, Height
<1> QED BY <1>5, <1>6, <1>7, Zenon DEF block, picked

(* ImportBlockWithOptions.                                                 *)
LEMMA ImportedGood ==
    ASSUME NEW st, GoodState(st), NEW block, BlockOK(block)
    PROVE  /\ GoodState(Imported(st, block))
           /\ \A ack : Carries(st, ack) => Carries(Imported(st, block), ack)
<1> DEFINE next == ImportBlock(st, block)
<1>1. GoodState(next) /\ \A ack : Carries(st, ack) => Carries(next, ack)
  <2>1. CASE ImportVerdict(st, block) = "ok"
    <3>1. IsSeq(st.chain)
      BY Zenon DEF GoodState
    <3>2. block.height = Height(st) + 1 /\ block.prev = Tip(st) /\ Executes(st.accounts, block.txs)
      BY <2>1, <3>1, VerdictOk, Zenon DEF BlockOK
    <3>3. next = AppendBlock(st, block)
      BY <2>1, Zenon DEF ImportBlock
    <3> QED BY <3>2, <3>3, AppendBlockGood, Zenon
  <2>2. CASE ImportVerdict(st, block) # "ok"
    BY <2>2, Zenon DEF ImportBlock
  <2> QED BY <2>1, <2>2, Zenon
<1> HIDE DEF next
<1>2. Imported(st, block) = [next EXCEPT !.actions = completeUpTo(next.actions, block.height)]
  BY Zenon DEF Imported, next
<1> QED BY <1>1, <1>2, WithActions

(* recordBlockImportFailure changes the action log only.                   *)
LEMMA ImportFailedGood ==
    ASSUME NEW st, GoodState(st), NEW block
    PROVE  /\ GoodState(ImportFailed(st, block))
           /\ \A ack : Carries(st, ack) => Carries(ImportFailed(st, block), ack)
<1>1. \E actions : ImportFailed(st, block) = [st EXCEPT !.actions = actions]
  BY Zenon DEF ImportFailed
<1> QED BY <1>1, WithActions, Zenon

(* RestoreQuorumSnapshot.                                                  *)
LEMMA RestoredGood ==
    ASSUME NEW st, NEW snapshot, GoodState(snapshot)
    PROVE  GoodState(RestoredState(st, snapshot))
<1> DEFINE next == RestoredState(st, snapshot)
<1>1. DOMAIN snapshot = StateFields
  BY Zenon DEF GoodState
<1>2. /\ DOMAIN next = StateFields /\ next.accounts = snapshot.accounts /\ next.pool = << >>
      /\ next.chain = snapshot.chain /\ next.funded = snapshot.funded /\ next.proposals = << >>
      /\ next.committed = UNION {Elements(snapshot.chain[h].txs) : h \in 1..Len(snapshot.chain)}
  BY <1>1, Zenon DEF StateFields, RestoredState
<1> HIDE DEF next
<1>3. ChainTxs(next) = ChainTxs(snapshot) /\ Height(next) = Height(snapshot)
  BY <1>2, Zenon DEF ChainTxs, Height
<1>4. next.committed = ChainTxs(next)
  BY <1>2, Zenon DEF ChainTxs, Height
<1>5. IsSeq(<< >>) /\ Elements(<< >>) = {}
  BY EmptyFacts, Zenon
<1>6. GoodState(next)
  BY <1>2, <1>3, <1>4, <1>5, Zenon DEF GoodState
<1> QED BY <1>6, Zenon DEF next

-----------------------------------------------------------------------------
(* The inductive invariant, and the steps.                                 *)

AckFields == {"funded", "txs", "votes"}

LedgerInv ==
    /\ DOMAIN mem = Nodes /\ DOMAIN disk = Nodes
    /\ DOMAIN acked = Nodes /\ DOMAIN fetched = Nodes
    /\ \A n \in Nodes :
          /\ GoodState(mem[n]) /\ GoodState(disk[n])
          /\ fetched[n] # None => GoodState(fetched[n])
          /\ DOMAIN acked[n] = AckFields
          /\ Carries(mem[n], acked[n]) /\ Carries(disk[n], acked[n])
    /\ \A block \in sent : BlockOK(block)

(* What writeState leaves in memory and in the file.                       *)
LEMMA WriteEffect ==
    ASSUME NEW n \in Nodes, NEW next, DOMAIN mem = Nodes, DOMAIN disk = Nodes
    PROVE  /\ Written(n, next) =>
                /\ DOMAIN mem' = Nodes /\ DOMAIN disk' = Nodes
                /\ mem'[n] = next /\ disk'[n] = next
                /\ \A m \in Nodes \ {n} : mem'[m] = mem[m] /\ disk'[m] = disk[m]
           /\ WriteFails(n, next) =>
                /\ DOMAIN mem' = Nodes /\ DOMAIN disk' = Nodes
                /\ mem'[n] = mem[n] /\ disk'[n] \in {disk[n], next}
                /\ \A m \in Nodes \ {n} : mem'[m] = mem[m] /\ disk'[m] = disk[m]
<1>1. CASE Written(n, next)
  BY <1>1, Zenon DEF Written, WriteFails
<1>2. CASE WriteFails(n, next)
  <2>1. mem' = mem /\ \E file \in {disk[n], next} : disk' = [disk EXCEPT ![n] = file]
    BY <1>2, Zenon DEF WriteFails
  <2>2. PICK file \in {disk[n], next} : disk' = [disk EXCEPT ![n] = file]
    BY <2>1, Zenon
  <2>3. DOMAIN disk' = Nodes /\ disk'[n] = file /\ \A m \in Nodes \ {n} : disk'[m] = disk[m]
    BY <2>2, Zenon
  <2>4. Written(n, next) => mem'[n] = next /\ disk'[n] = next
    BY Zenon DEF Written
  <2> QED BY <2>1, <2>2, <2>3, <2>4, Zenon
<1> QED BY <1>1, <1>2, Zenon

(* A handler that writes a good state which carries what was acknowledged. *)
LEMMA WriteStep ==
    ASSUME LedgerInv, NEW n \in Nodes, NEW next, GoodState(next), Carries(next, acked'[n]),
           \/ Written(n, next)
           \/ WriteFails(n, next) /\ Carries(mem[n], acked'[n]) /\ Carries(disk[n], acked'[n]),
           DOMAIN acked' = Nodes, DOMAIN acked'[n] = AckFields,
           \A m \in Nodes \ {n} : acked'[m] = acked[m],
           DOMAIN fetched' = Nodes, \A m \in Nodes : fetched'[m] # None => GoodState(fetched'[m]),
           \A block \in sent' : BlockOK(block)
    PROVE  LedgerInv'
<1>1. DOMAIN mem = Nodes /\ DOMAIN disk = Nodes
  BY Zenon DEF LedgerInv
<1>2. /\ DOMAIN mem' = Nodes /\ DOMAIN disk' = Nodes
      /\ \A m \in Nodes \ {n} : mem'[m] = mem[m] /\ disk'[m] = disk[m]
  BY <1>1, WriteEffect, Zenon
<1>3. ASSUME NEW m \in Nodes
      PROVE  /\ GoodState(mem'[m]) /\ GoodState(disk'[m]) /\ DOMAIN acked'[m] = AckFields
             /\ Carries(mem'[m], acked'[m]) /\ Carries(disk'[m], acked'[m])
  <2>1. CASE m # n
    <3>1. mem'[m] = mem[m] /\ disk'[m] = disk[m] /\ acked'[m] = acked[m]
      BY <1>2, <2>1, Zenon
    <3> QED BY <3>1, Zenon DEF LedgerInv
  <2>2. CASE m = n /\ Written(n, next)
    <3>1. mem'[m] = next /\ disk'[m] = next
      BY <1>1, <2>2, WriteEffect, Zenon
    <3> QED BY <2>2, <3>1, Zenon
  <2>3. CASE m = n /\ ~Written(n, next)
    <3>1. mem'[m] = mem[m] /\ disk'[m] \in {disk[m], next}
      BY <1>1, <2>3, WriteEffect, Zenon
    <3>2. GoodState(mem[m]) /\ GoodState(disk[m])
      BY Zenon DEF LedgerInv
    <3> QED BY <2>3, <3>1, <3>2, Zenon
  <2> QED BY <2>1, <2>2, <2>3, Zenon
<1> QED BY <1>2, <1>3, Zenon DEF LedgerInv

(* The same where nothing is acknowledged.                                 *)
LEMMA QuietWriteStep ==
    ASSUME LedgerInv, NEW n \in Nodes, NEW next, GoodState(next),
           \A ack : Carries(mem[n], ack) => Carries(next, ack),
           Written(n, next) \/ WriteFails(n, next),
           acked' = acked, fetched' = fetched, \A block \in sent' : BlockOK(block)
    PROVE  LedgerInv'
<1>1. /\ Carries(mem[n], acked'[n]) /\ Carries(disk[n], acked'[n])
      /\ DOMAIN acked' = Nodes /\ DOMAIN acked'[n] = AckFields
      /\ \A m \in Nodes \ {n} : acked'[m] = acked[m]
      /\ DOMAIN fetched' = Nodes /\ \A m \in Nodes : fetched'[m] # None => GoodState(fetched'[m])
  BY Zenon DEF LedgerInv
<1>2. Carries(next, acked'[n])
  BY <1>1, Zenon
<1> QED BY <1>1, <1>2, WriteStep, Zenon

(* handleFaucet keeps the invariant.                                       *)
LEMMA CreditStep ==
    ASSUME LedgerInv, NEW n \in Nodes, NEW request \in FundingRequests, Credit(n, request)
    PROVE  LedgerInv'
<1> DEFINE st == mem[n]
           next == [st EXCEPT !.accounts[request.to].balance = @ + request.amount,
                              !.funded = @ \cup {request}]
<1>1. /\ request \notin st.funded /\ sent' = sent /\ fetched' = fetched
      /\ \/ /\ Written(n, next)
            /\ acked' = [acked EXCEPT ![n].funded = @ \cup {request}]
         \/ WriteFails(n, next) /\ acked' = acked
  BY Zenon DEF Credit
<1>2. GoodState(st) /\ request.to \in Addresses /\ request.amount \in Nat
  BY NodeAssumption, LedgerAssumption DEF LedgerInv, NodeAssumption, LedgerAssumption
<1>3. /\ GoodState(next) /\ request \in next.funded
      /\ \A ack : Carries(st, ack) => Carries(next, ack)
  BY <1>1, <1>2, CreditGood, Zenon
<1> HIDE DEF next
<1>4. \A block \in sent' : BlockOK(block)
  BY <1>1, Zenon DEF LedgerInv
<1>5. CASE WriteFails(n, next) /\ acked' = acked
  BY <1>1, <1>3, <1>4, <1>5, QuietWriteStep, Zenon
<1>6. CASE Written(n, next) /\ acked' = [acked EXCEPT ![n].funded = @ \cup {request}]
  <2>1. DOMAIN acked = Nodes /\ DOMAIN acked[n] = AckFields /\ Carries(next, acked[n])
    BY <1>3, Zenon DEF LedgerInv
  <2>2. /\ DOMAIN acked' = Nodes /\ \A m \in Nodes \ {n} : acked'[m] = acked[m]
        /\ acked'[n] = [acked[n] EXCEPT !.funded = @ \cup {request}]
    BY <1>6, <2>1, Zenon
  <2>3. /\ DOMAIN acked'[n] = AckFields /\ acked'[n].funded = acked[n].funded \cup {request}
        /\ acked'[n].txs = acked[n].txs
    BY <2>1, <2>2, Zenon DEF AckFields
  <2>4. Carries(next, acked'[n])
    BY <1>3, <2>1, <2>3, Zenon DEF Carries
  <2>5. DOMAIN fetched' = Nodes /\ \A m \in Nodes : fetched'[m] # None => GoodState(fetched'[m])
    BY <1>1, Zenon DEF LedgerInv
  <2> QED BY <1>3, <1>4, <1>6, <2>2, <2>3, <2>4, <2>5, WriteStep, Zenon
<1> QED BY <1>1, <1>5, <1>6, Zenon

(* handleBroadcastTransaction keeps the invariant.                         *)
LEMMA AcceptStep ==
    ASSUME LedgerInv, NEW n \in Nodes, NEW tx \in Transactions, Accept(n, tx)
    PROVE  LedgerInv'
<1> DEFINE st == mem[n]
           next == [st EXCEPT !.pool = Append(@, tx)]
<1>1. /\ tx \notin st.committed /\ sent' = sent /\ fetched' = fetched
      /\ \/ /\ Written(n, next)
            /\ acked' = [acked EXCEPT ![n].txs = @ \cup {tx}]
         \/ WriteFails(n, next) /\ acked' = acked
  BY Zenon DEF Accept, Acceptable
<1>2. GoodState(st) /\ tx \in Transfers
  BY NodeAssumption, Zenon DEF LedgerInv, NodeAssumption
<1>3. /\ GoodState(next) /\ tx \in Elements(next.pool)
      /\ \A ack : Carries(st, ack) => Carries(next, ack)
  BY <1>1, <1>2, AcceptGood, Zenon
<1> HIDE DEF next
<1>4. \A block \in sent' : BlockOK(block)
  BY <1>1, Zenon DEF LedgerInv
<1>5. CASE WriteFails(n, next) /\ acked' = acked
  BY <1>1, <1>3, <1>4, <1>5, QuietWriteStep, Zenon
<1>6. CASE Written(n, next) /\ acked' = [acked EXCEPT ![n].txs = @ \cup {tx}]
  <2>1. DOMAIN acked = Nodes /\ DOMAIN acked[n] = AckFields /\ Carries(next, acked[n])
    BY <1>3, Zenon DEF LedgerInv
  <2>2. /\ DOMAIN acked' = Nodes /\ \A m \in Nodes \ {n} : acked'[m] = acked[m]
        /\ acked'[n] = [acked[n] EXCEPT !.txs = @ \cup {tx}]
    BY <1>6, <2>1, Zenon
  <2>3. /\ DOMAIN acked'[n] = AckFields /\ acked'[n].txs = acked[n].txs \cup {tx}
        /\ acked'[n].funded = acked[n].funded
    BY <2>1, <2>2, Zenon DEF AckFields
  <2>4. Carries(next, acked'[n])
    BY <1>3, <2>1, <2>3, Zenon DEF Carries
  <2>5. DOMAIN fetched' = Nodes /\ \A m \in Nodes : fetched'[m] # None => GoodState(fetched'[m])
    BY <1>1, Zenon DEF LedgerInv
  <2> QED BY <1>3, <1>4, <1>6, <2>2, <2>3, <2>4, <2>5, WriteStep, Zenon
<1> QED BY <1>1, <1>5, <1>6, Zenon

(* produceLocalBlock keeps the invariant.                                  *)
LEMMA ProduceStep ==
    ASSUME LedgerInv, NEW n \in Nodes, NEW at, Produce(n, at)
    PROVE  LedgerInv'
<1> DEFINE st == mem[n]
           block == BuildBlock(st, MaxTransactionsPerBlock, at)
           built == AppendBlock(st, block)
           next == [built EXCEPT !.actions = completeUpTo(@, block.height)]
<1>1. /\ CanBuild(st, MaxTransactionsPerBlock) /\ acked' = acked /\ fetched' = fetched
      /\ \/ Written(n, next) /\ sent' = sent \cup {block}
         \/ WriteFails(n, next) /\ sent' = sent
  BY Zenon DEF Produce
<1>2. GoodState(st)
  BY Zenon DEF LedgerInv
<1>3. /\ BlockOK(block) /\ block.height = Height(st) + 1 /\ block.prev = Tip(st)
      /\ block.txs = Selected(st, MaxTransactionsPerBlock)
  BY <1>2, BlockFromPool, Zenon
<1>4. Executes(st.accounts, block.txs)
  BY <1>1, <1>3, Zenon DEF CanBuild
<1> HIDE DEF block
<1>5. GoodState(built) /\ \A ack : Carries(st, ack) => Carries(built, ack)
  BY <1>2, <1>3, <1>4, AppendBlockGood, Zenon
<1> HIDE DEF built
<1>6. GoodState(next) /\ \A ack : Carries(st, ack) => Carries(next, ack)
  BY <1>5, WithActions, Zenon
<1> HIDE DEF next
<1>7. \A b \in sent' : BlockOK(b)
  BY <1>1, <1>3, Zenon DEF LedgerInv
<1> QED BY <1>1, <1>6, <1>7, QuietWriteStep, Zenon

(* ImportBlockWithOptions keeps the invariant.                             *)
LEMMA ImportStep ==
    ASSUME LedgerInv, NEW n \in Nodes, NEW block, BlockOK(block), Import(n, block)
    PROVE  LedgerInv'
<1> DEFINE next == IF Importable(mem[n], block) THEN Imported(mem[n], block)
                                                ELSE ImportFailed(mem[n], block)
<1>1. acked' = acked /\ fetched' = fetched /\ sent' = sent /\ (Written(n, next) \/ WriteFails(n, next))
  BY Zenon DEF Import
<1>2. GoodState(mem[n])
  BY Zenon DEF LedgerInv
<1>3. GoodState(next) /\ \A ack : Carries(mem[n], ack) => Carries(next, ack)
  BY <1>2, ImportedGood, ImportFailedGood, Zenon
<1> HIDE DEF next
<1>4. \A b \in sent' : BlockOK(b)
  BY <1>1, Zenon DEF LedgerInv
<1> QED BY <1>1, <1>3, <1>4, QuietWriteStep, Zenon

(* handleImportBlock and syncFromPeer import blocks that were produced.    *)
LEMMA KnownBlocks ==
    ASSUME LedgerInv, NEW n \in Nodes, NEW p \in Nodes
    PROVE  /\ \A block \in sent : BlockOK(block)
           /\ Height(mem[p]) > Height(mem[n]) => BlockOK(mem[p].chain[Height(mem[n]) + 1])
<1>1. /\ IsSeq(mem[p].chain) /\ IsSeq(mem[n].chain)
      /\ \A block \in Elements(mem[p].chain) : BlockOK(block)
  BY Zenon DEF LedgerInv, GoodState
<1>2. Height(mem[p]) \in Nat /\ Height(mem[n]) \in Nat
  BY <1>1 DEF IsSeq, Height
<1>3. Height(mem[p]) > Height(mem[n]) => Height(mem[n]) + 1 \in 1..Len(mem[p].chain)
  BY <1>2 DEF Height
<1> QED BY <1>1, <1>3, Zenon DEF LedgerInv, Elements

(* A snapshot is fetched from a good state.                                *)
LEMMA FetchSnapshotStep ==
    ASSUME LedgerInv, NEW n \in Nodes, NEW p \in Nodes, FetchSnapshot(n, p)
    PROVE  LedgerInv'
<1>1. /\ mem' = mem /\ disk' = disk /\ sent' = sent /\ acked' = acked
      /\ fetched' = [fetched EXCEPT ![n] = mem[p]]
  BY Zenon DEF FetchSnapshot
<1>2. DOMAIN fetched' = Nodes /\ \A m \in Nodes : fetched'[m] # None => GoodState(fetched'[m])
  BY <1>1, Zenon DEF LedgerInv
<1> QED BY <1>1, <1>2, Zenon DEF LedgerInv

(* RestoreQuorumSnapshot keeps the invariant: nothing stays acknowledged.  *)
LEMMA RestoreSnapshotStep ==
    ASSUME LedgerInv, NEW n \in Nodes, RestoreSnapshot(n)
    PROVE  LedgerInv'
<1> DEFINE restored == RestoredState(mem[n], fetched[n])
           note == NewAction("snapshot_sync", Height(fetched[n]), 0, Tip(fetched[n]), "")
           next == [restored EXCEPT
                      !.actions = recordAction(completeUpTo(@, Height(fetched[n])), note)]
<1>1. /\ fetched[n] # None /\ fetched' = [fetched EXCEPT ![n] = None]
      /\ acked' = [acked EXCEPT ![n] = NothingAcked] /\ sent' = sent
      /\ Written(n, next) \/ WriteFails(n, next)
  BY Zenon DEF RestoreSnapshot
<1>2. GoodState(fetched[n])
  BY <1>1, Zenon DEF LedgerInv
<1>3. GoodState(restored)
  BY <1>2, RestoredGood, Zenon
<1> HIDE DEF restored, note
<1>4. GoodState(next)
  BY <1>3, WithActions, Zenon
<1> HIDE DEF next
<1>5. DOMAIN fetched' = Nodes /\ \A m \in Nodes : fetched'[m] # None => GoodState(fetched'[m])
  BY <1>1, Zenon DEF LedgerInv
<1>6. /\ DOMAIN acked' = Nodes /\ acked'[n] = NothingAcked
      /\ \A m \in Nodes \ {n} : acked'[m] = acked[m]
  BY <1>1, Zenon DEF LedgerInv
<1>7. DOMAIN NothingAcked = AckFields /\ NothingAcked.funded = {} /\ NothingAcked.txs = {}
  BY Zenon DEF NothingAcked, AckFields
<1>8. \A st : Carries(st, acked'[n])
  BY <1>6, <1>7, Zenon DEF Carries
<1>9. \A b \in sent' : BlockOK(b)
  BY <1>1, Zenon DEF LedgerInv
<1> QED BY <1>1, <1>4, <1>5, <1>6, <1>7, <1>8, <1>9, WriteStep, Zenon

(* load reads back a file that carries what was acknowledged.              *)
LEMMA RestartStep ==
    ASSUME LedgerInv, NEW n \in Nodes, Restart(n)
    PROVE  LedgerInv'
<1>1. /\ mem' = [mem EXCEPT ![n] = disk[n]] /\ fetched' = [fetched EXCEPT ![n] = None]
      /\ disk' = disk /\ sent' = sent /\ acked' = acked
  BY Zenon DEF Restart
<1>2. DOMAIN mem' = Nodes /\ \A m \in Nodes : mem'[m] \in {mem[m], disk[m]}
  BY <1>1, Zenon DEF LedgerInv
<1>3. DOMAIN fetched' = Nodes /\ \A m \in Nodes : fetched'[m] # None => GoodState(fetched'[m])
  BY <1>1, Zenon DEF LedgerInv
<1>4. \A m \in Nodes : GoodState(mem'[m]) /\ Carries(mem'[m], acked[m])
  BY <1>2, Zenon DEF LedgerInv
<1> QED BY <1>1, <1>2, <1>3, <1>4, Zenon DEF LedgerInv

(* Every step of a node keeps the invariant.                               *)
LEMMA NodeStepKeeps ==
    ASSUME LedgerInv, NEW n \in Nodes, NodeStep(n) \/ Restart(n)
    PROVE  LedgerInv'
<1>1. ASSUME ReceiveBlock(n) PROVE LedgerInv'
  <2>1. PICK block \in sent : Import(n, block)
    BY <1>1, Zenon DEF ReceiveBlock
  <2>2. BlockOK(block)
    BY KnownBlocks, Zenon
  <2> QED BY <2>1, <2>2, ImportStep, Zenon
<1>2. ASSUME NEW p \in Nodes, SyncBlock(n, p) PROVE LedgerInv'
  <2>1. Height(mem[p]) > Height(mem[n]) /\ Import(n, mem[p].chain[Height(mem[n]) + 1])
    BY <1>2, Zenon DEF SyncBlock
  <2>2. BlockOK(mem[p].chain[Height(mem[n]) + 1])
    BY <2>1, KnownBlocks, Zenon
  <2> QED BY <2>1, <2>2, ImportStep, Zenon
<1>3. ASSUME NEW p \in Nodes, FetchSnapshot(n, p) PROVE LedgerInv'
  BY <1>3, FetchSnapshotStep, Zenon
<1>4. ASSUME NEW request \in FundingRequests, Credit(n, request) PROVE LedgerInv'
  BY <1>4, CreditStep, Zenon
<1>5. ASSUME NEW tx \in Transactions, Accept(n, tx) PROVE LedgerInv'
  BY <1>5, AcceptStep, Zenon
<1>6. ASSUME NEW at \in Times[n], Produce(n, at) PROVE LedgerInv'
  BY <1>6, ProduceStep, Zenon
<1>7. ASSUME RestoreSnapshot(n) \/ Restart(n) PROVE LedgerInv'
  BY <1>7, RestoreSnapshotStep, RestartStep, Zenon
<1> QED BY <1>1, <1>2, <1>3, <1>4, <1>5, <1>6, <1>7, Zenon DEF NodeStep

(* A fresh node: the funded accounts, an empty chain.                      *)
LEMMA LedgerInvInit == LedgerInit => LedgerInv
<1> SUFFICES ASSUME LedgerInit PROVE LedgerInv
  BY Zenon
<1>1. /\ mem = [n \in Nodes |-> NewState(n)] /\ disk = mem /\ sent = {}
      /\ acked = [n \in Nodes |-> NothingAcked] /\ fetched = [n \in Nodes |-> None]
  BY Zenon DEF LedgerInit
<1>2. ASSUME NEW n \in Nodes PROVE GoodState(NewState(n))
  <2> DEFINE st == NewState(n)
  <2>1. /\ DOMAIN st = StateFields
        /\ st.accounts = [a \in Addresses |->
                            [balance |-> SumAmounts({r \in Funded : r.to = a}), nonce |-> 0]]
        /\ st.pool = Queued /\ st.chain = << >> /\ st.committed = {} /\ st.funded = Funded
        /\ st.proposals = << >>
    BY Zenon DEF NewState, StateFields
  <2> HIDE DEF st
  <2>2. IsSeq(st.pool) /\ Elements(st.pool) \subseteq Transfers
    BY <2>1, SeqOver, NodeAssumption, Zenon DEF NodeAssumption
  <2>3. IsSeq(<< >>) /\ Elements(<< >>) = {} /\ Len(<< >>) = 0
    BY EmptyFacts, Zenon
  <2>4. ChainTxs(st) = {} /\ Height(st) = 0
    BY <2>1, <2>3 DEF ChainTxs, Height
  <2>5. Amounts(Funded)
    BY NodeAssumption, LedgerAssumption DEF Amounts, NodeAssumption, LedgerAssumption
  <2>6. Books(st.accounts, Funded, {})
    <3>1. SumAmounts({}) = 0 /\ IsFiniteSet({}) /\ Cardinality({}) = 0
      BY SumFacts, FS_EmptySet, Zenon
    <3>2. ASSUME NEW a \in Addresses
          PROVE  st.accounts[a] = [balance |-> SumAmounts(SentTo(Funded, a)) + SumAmounts(SentTo({}, a))
                                                 - SumAmounts(SentBy({}, a)),
                                   nonce |-> Cardinality(SentBy({}, a))]
      <4>1. SentTo({}, a) = {} /\ SentBy({}, a) = {} /\ SentTo(Funded, a) = {r \in Funded : r.to = a}
        BY Zenon DEF SentTo, SentBy
      <4>2. SumAmounts(SentTo(Funded, a)) \in Nat
        BY <2>5, PartsHaveAmounts, Zenon
      <4>3. st.accounts[a] = [balance |-> SumAmounts(SentTo(Funded, a)), nonce |-> 0]
        BY <2>1, <4>1, Zenon
      <4>4. SumAmounts(SentTo(Funded, a)) + 0 - 0 = SumAmounts(SentTo(Funded, a))
        BY <4>2
      <4> QED BY <3>1, <4>1, <4>3, <4>4, Zenon
    <3>3. DOMAIN st.accounts = Addresses
      BY <2>1, Zenon
    <3> QED BY <2>5, <3>1, <3>2, <3>3, Zenon DEF Books
  <2>7. GoodState(st)
    BY <2>1, <2>2, <2>3, <2>4, <2>6 DEF GoodState
  <2> QED BY <2>7, Zenon DEF st
<1>3. DOMAIN NothingAcked = AckFields /\ \A st : Carries(st, NothingAcked)
  BY Zenon DEF NothingAcked, AckFields, Carries
<1> QED BY <1>1, <1>2, <1>3, Zenon DEF LedgerInv

(* A step that changes nothing keeps the invariant.                        *)
LEMMA LedgerStutter == LedgerInv /\ UNCHANGED ledgerVars => LedgerInv'
<1> SUFFICES ASSUME LedgerInv, UNCHANGED ledgerVars PROVE LedgerInv'
  BY Zenon
<1>1. mem' = mem /\ disk' = disk /\ sent' = sent /\ acked' = acked /\ fetched' = fetched
  BY Zenon DEF ledgerVars
<1> QED BY <1>1, Zenon DEF LedgerInv

(* What the invariant says of the properties.                              *)
LEMMA LedgerInvMeans == LedgerInv => AccountsReplay /\ AckedSurvives
<1> SUFFICES ASSUME LedgerInv PROVE AccountsReplay /\ AckedSurvives
  BY Zenon
<1>1. AccountsReplay
  BY GoodIsConsistent, Zenon DEF LedgerInv, AccountsReplay
<1>2. AckedSurvives
  BY Zenon DEF LedgerInv, AckedSurvives, Carries
<1> QED BY <1>1, <1>2, Zenon

(* The inductive invariant of the v1 node: every state in memory, in a     *)
(* file or about to be restored is the replay of its chain and carries     *)
(* what its node acknowledged.                                             *)
THEOREM LedgerInvariance == LedgerSpec => []LedgerInv
<1>1. LedgerInit => LedgerInv
  BY LedgerInvInit, Zenon
<1>2. LedgerInv /\ [LedgerNext]_ledgerVars => LedgerInv'
  BY NodeStepKeeps, LedgerStutter, Zenon DEF LedgerNext
<1> QED BY <1>1, <1>2, PTL DEF LedgerSpec

(* The accounts of memory and file are what the funding requests and the   *)
(* blocks make of them, each counted once; the chain is linked, and the    *)
(* pool holds nothing committed (AccountsReplay), for every number of      *)
(* nodes, accounts, transactions, blocks and failing writes.               *)
THEOREM AccountsReplayHolds == LedgerSpec => []AccountsReplay
BY LedgerInvariance, LedgerInvMeans, PTL

(* What writeState acknowledged, a credit or a queued transaction, stays   *)
(* in memory and in the file until a snapshot is restored.                 *)
THEOREM AckedSurvivesHolds == LedgerSpec => []AckedSurvives
BY LedgerInvariance, LedgerInvMeans, PTL
=============================================================================
