---------------------------- MODULE SequenceProof ----------------------------
(***************************************************************************)
(* Lemmas that several proofs need: numbers have a least element, and what *)
(* Subsequence picks.                                                      *)
(***************************************************************************)
EXTENDS Naturals, Sequences, FiniteSets, Subsequences, FiniteSetTheorems, FunctionTheorems,
        WellFoundedInduction, TLAPS

-----------------------------------------------------------------------------
(* Induction: a fact that fails has a least number it fails for. *)

\* A set of numbers that is not empty has a least element.
LEMMA LeastElement ==
    ASSUME NEW T, T \subseteq Nat, T # {}
    PROVE  \E x \in T : \A y \in T : x <= y
  <1> DEFINE R == {ss \in Nat \X Nat : ss[1] < ss[2]}
  <1>1. IsWellFoundedOn(R, Nat)
    BY NatLessThanWellFounded DEF OpToRel
  <1> HIDE DEF R
  <1>2. PICK x \in T : \A y \in T : <<y, x>> \notin R
    BY <1>1, WFMin
  <1>3. \A y \in T : ~(y < x)
    BY <1>2 DEF R
  <1> QED
    BY <1>3

-----------------------------------------------------------------------------
(* The elements of a sequence at some places.                              *)

\* k is the order in which the subsequence has the places that were chosen: each
\* once.
PicksInOrder(s, K, k) ==
    /\ k \in [1 .. Cardinality(K) -> K]
    /\ Subsequence(s, K) = [i \in 1 .. Cardinality(K) |-> s[k[i]]]
    /\ \A i, j \in 1 .. Cardinality(K) : k[i] = k[j] => i = j
    /\ \A i, j \in 1 .. Cardinality(K) : i < j => k[i] < k[j]
    /\ \A x \in K : \E i \in 1 .. Cardinality(K) : k[i] = x

\* There is such an order.
LEMMA SubsequenceOrder ==
    ASSUME NEW s, NEW n \in Nat, NEW K \in SUBSET (1 .. n)
    PROVE  /\ IsFiniteSet(K) /\ Cardinality(K) \in Nat
           /\ \E k : PicksInOrder(s, K, k)
  <1> DEFINE c == Cardinality(K)
             Upto(x) == {j \in K : j <= x}
             g == [x \in K |-> Cardinality(Upto(x))]
             k == [i \in 1 .. c |-> CHOOSE x \in K : Cardinality(Upto(x)) = i]
  <1>0. \A x \in K : x \in Nat
    OBVIOUS
  <1>1. IsFiniteSet(K) /\ c \in Nat
    <2>1. IsFiniteSet(1 .. n)
      BY FS_Interval
    <2>2. IsFiniteSet(K)
      BY <2>1, FS_Subset
    <2> QED
      BY <2>2, FS_CardinalityType
  <1>2. \A x \in K : /\ IsFiniteSet(Upto(x)) /\ Cardinality(Upto(x)) \in 1 .. c
    <2> SUFFICES ASSUME NEW x \in K
                 PROVE  IsFiniteSet(Upto(x)) /\ Cardinality(Upto(x)) \in 1 .. c
      OBVIOUS
    <2>1. Upto(x) \in SUBSET K /\ x \in Upto(x)
      OBVIOUS
    <2> HIDE DEF Upto, c
    <2>2. /\ IsFiniteSet(Upto(x)) /\ Cardinality(Upto(x)) \in Nat
          /\ Cardinality(Upto(x)) <= Cardinality(K)
      BY <1>1, <2>1, FS_Subset, FS_CardinalityType
    <2>3. Cardinality(Upto(x)) # 0
      BY <2>1, <2>2, FS_EmptySet
    <2> QED
      BY <1>1, <2>2, <2>3 DEF c
  <1>3. \A x, y \in K : Cardinality(Upto(x)) = Cardinality(Upto(y)) => x = y
    <2>1. ASSUME NEW x \in K, NEW y \in K, x < y
          PROVE  Cardinality(Upto(x)) # Cardinality(Upto(y))
      <3>1. Upto(x) \in SUBSET (Upto(y) \ {y}) /\ y \in Upto(y)
        <4>1. x \in Nat /\ y \in Nat
          BY <1>0
        <4>2. \A j \in K : j <= x => j <= y /\ j # y
          BY <1>0, <2>1, <4>1
        <4>3. \A j \in Upto(x) : j \in Upto(y) \ {y}
          BY <4>2
        <4>4. y <= y
          BY <4>1
        <4> QED
          BY <4>3, <4>4
      <3>2. IsFiniteSet(Upto(y)) /\ IsFiniteSet(Upto(y) \ {y})
        BY <1>2, FS_RemoveElement
      <3> HIDE DEF Upto
      <3>3. Cardinality(Upto(y) \ {y}) = Cardinality(Upto(y)) - 1
        BY <3>1, <3>2, FS_RemoveElement
      <3>4. Cardinality(Upto(x)) <= Cardinality(Upto(y) \ {y})
        BY <3>1, <3>2, FS_Subset
      <3>5. Cardinality(Upto(x)) \in Nat /\ Cardinality(Upto(y)) \in Nat
        BY <1>2
      <3> QED
        BY <3>3, <3>4, <3>5
    <2>2. \A x, y \in K : x < y \/ y < x \/ x = y
      BY <1>0
    <2> HIDE DEF Upto
    <2> QED
      BY <2>1, <2>2
  <1>4. g \in Injection(K, 1 .. c)
    <2>1. g \in [K -> 1 .. c] /\ \A x, y \in K : g[x] = g[y] => x = y
      BY <1>2, <1>3
    <2> HIDE DEF g, c
    <2> QED
      BY <2>1, Fun_IsInj
  <1>5. g \in Surjection(K, 1 .. c)
    <2>1. Cardinality(1 .. c) = IF 1 > c THEN 0 ELSE c - 1 + 1
      BY <1>1, FS_Interval
    <2>2. IsFiniteSet(1 .. c)
      BY <1>1, FS_Interval
    <2>3. Cardinality(1 .. c) = Cardinality(K)
      BY <1>1, <2>1
    <2> HIDE DEF g, c
    <2> QED
      BY <1>1, <1>4, <2>2, <2>3, FS_Injection
  <1>6. \A i \in 1 .. c : \E x \in K : Cardinality(Upto(x)) = i
    <2>1. \A i \in 1 .. c : \E x \in K : g[x] = i
      <3> HIDE DEF g, c
      <3> QED
        BY <1>5, Fun_SurjectionProperties
    <2> QED
      BY <2>1
  <1>7. \A i \in 1 .. c : k[i] \in K /\ Cardinality(Upto(k[i])) = i
    BY <1>6
  <1>8. Subsequence(s, K) = [i \in 1 .. c |-> s[k[i]]]
    BY DEF Subsequence
  <1> HIDE DEF Upto
  <1>9. k \in [1 .. c -> K]
    BY <1>7
  <1>10. \A i, j \in 1 .. c : k[i] = k[j] => i = j
    BY <1>7
  <1>11. \A x \in K : \E i \in 1 .. c : k[i] = x
    <2> SUFFICES ASSUME NEW x \in K PROVE \E i \in 1 .. c : k[i] = x
      OBVIOUS
    <2>1. Cardinality(Upto(x)) \in 1 .. c
      BY <1>2
    <2>2. /\ k[Cardinality(Upto(x))] \in K
          /\ Cardinality(Upto(k[Cardinality(Upto(x))])) = Cardinality(Upto(x))
      BY <1>7, <2>1
    <2> HIDE DEF k
    <2>3. k[Cardinality(Upto(x))] = x
      BY <1>3, <2>2
    <2> QED
      BY <2>1, <2>3
  <1> HIDE DEF k
  <1>12. \A i, j \in 1 .. c : i < j => k[i] < k[j]
    <2> SUFFICES ASSUME NEW i \in 1 .. c, NEW j \in 1 .. c, i < j, ~(k[i] < k[j])
                 PROVE  FALSE
      OBVIOUS
    <2> HIDE DEF c
    <2>1. k[i] \in K /\ k[j] \in K /\ k[i] \in Nat /\ k[j] \in Nat /\ k[j] < k[i]
      <3>1. i # j /\ k[i] # k[j]
        BY <1>1, <1>10
      <3>2. k[i] \in K /\ k[j] \in K
        BY <1>9
      <3>3. k[i] \in Nat /\ k[j] \in Nat
        BY <1>0, <3>2
      <3>4. k[j] < k[i]
        BY <3>1, <3>3
      <3> QED
        BY <3>2, <3>3, <3>4
    <2>2. Cardinality(Upto(k[i])) = i /\ Cardinality(Upto(k[j])) = j
      BY <1>7
    <2>3. Upto(k[j]) \subseteq Upto(k[i])
      <3>1. \A x \in K : x <= k[j] => x <= k[i]
        BY <1>0, <2>1
      <3> QED
        BY <3>1 DEF Upto
    <2>4. Cardinality(Upto(k[j])) <= Cardinality(Upto(k[i]))
      BY <1>2, <2>1, <2>3, FS_Subset
    <2> QED
      BY <1>1, <2>2, <2>4
  <1>13. PicksInOrder(s, K, k)
    BY <1>8, <1>9, <1>10, <1>11, <1>12 DEF PicksInOrder
  <1> QED
    BY <1>1, <1>13

\* It is a sequence of elements of the other one, none of them taken twice.
LEMMA SubsequenceShape ==
    ASSUME NEW S, NEW s \in Seq(S), NEW K \in SUBSET DOMAIN s
    PROVE  /\ Subsequence(s, K) \in Seq(S)
           /\ \A i \in DOMAIN Subsequence(s, K) :
                 \E k \in K : Subsequence(s, K)[i] = s[k]
           /\ (\A i, j \in DOMAIN s : s[i] = s[j] => i = j) =>
                 \A i, j \in DOMAIN Subsequence(s, K) :
                    Subsequence(s, K)[i] = Subsequence(s, K)[j] => i = j
  <1>1. DOMAIN s = 1 .. Len(s) /\ Len(s) \in Nat
    OBVIOUS
  <1>2. Cardinality(K) \in Nat /\ \E k : PicksInOrder(s, K, k)
    <2>1. K \in SUBSET (1 .. Len(s))
      BY <1>1
    <2> QED
      BY <1>1, <2>1, SubsequenceOrder
  <1> DEFINE c == Cardinality(K)
             t == Subsequence(s, K)
  <1>3. PICK k \in [1 .. c -> K] : /\ t = [i \in 1 .. c |-> s[k[i]]]
                                   /\ \A i, j \in 1 .. c : k[i] = k[j] => i = j
    BY <1>2 DEF PicksInOrder
  <1> HIDE DEF c, t
  <1>4. c \in Nat
    BY <1>2 DEF c
  <1>5. /\ t \in Seq(S) /\ DOMAIN t = 1 .. c
        /\ \A i \in 1 .. c : k[i] \in K /\ t[i] = s[k[i]]
    BY <1>3, <1>4
  <1>6. \A i \in DOMAIN t : \E x \in K : t[i] = s[x]
    BY <1>5
  <1>7. (\A i, j \in DOMAIN s : s[i] = s[j] => i = j) =>
            \A i, j \in DOMAIN t : t[i] = t[j] => i = j
    BY <1>3, <1>5
  <1> QED
    BY <1>5, <1>6, <1>7 DEF t
=============================================================================
