----------------------------- MODULE Induction -----------------------------
(***************************************************************************)
(* Induction over the natural numbers in first-order form: about a set of  *)
(* numbers in place of a predicate.  The proofs about recursive functions  *)
(* cite it: S is the set of the arguments for which a statement holds.     *)
(***************************************************************************)
EXTENDS Integers, WellFoundedInduction, TLAPS

(* A set of numbers that is not empty has a least element: < is well-      *)
(* founded.                                                                *)
LEMMA LeastElement ==
    ASSUME NEW S, S \subseteq Nat, S # {}
    PROVE  \E n \in S : \A m \in S : n <= m
  <1> DEFINE Less == OpToRel(<, Nat)
  <1>1. IsWellFoundedOn(Less, Nat)
    BY NatLessThanWellFounded, Zenon
  <1>2. \A m, n \in S : m < n => <<m, n>> \in Less
    BY DEF OpToRel
  <1> HIDE DEF Less
  <1>3. PICK n \in S : \A m \in S : <<m, n>> \notin Less
    BY <1>1, WFMin
  <1>4. \A m \in S : ~(m < n)
    BY <1>2, <1>3
  <1>5. \A m \in S : m \in Nat /\ n \in Nat
    OBVIOUS
  <1>6. \A m \in S : n <= m
    BY <1>4, <1>5
  <1> QED BY <1>6

(* A set with 0 that is closed under the successor has every number.       *)
THEOREM NatSetInduction ==
    ASSUME NEW S, 0 \in S, \A n \in S \cap Nat : n + 1 \in S
    PROVE  Nat \subseteq S
  <1> DEFINE Others == Nat \ S
  <1> SUFFICES ASSUME Others # {} PROVE FALSE
    OBVIOUS
  <1>1. Others \subseteq Nat
    OBVIOUS
  <1> HIDE DEF Others
  <1>2. PICK n \in Others : \A m \in Others : n <= m
    BY <1>1, LeastElement
  <1>3. n \in Nat /\ n # 0
    BY <1>1 DEF Others
  <1>4. n - 1 \in Nat /\ ~(n <= n - 1) /\ (n - 1) + 1 = n
    BY <1>3
  <1>5. n - 1 \in S
    BY <1>2, <1>4 DEF Others
  <1>6. n \in S
    BY <1>4, <1>5
  <1> QED BY <1>6 DEF Others

(* The values of a recursive function are of D when the first one is and   *)
(* the steps keep to it.                                                   *)
LEMMA IterationType ==
    ASSUME NEW k \in Nat, NEW D, NEW f, f[0] \in D,
           \A n \in 1..k : f[n - 1] \in D => f[n] \in D
    PROVE  \A n \in 0..k : f[n] \in D
  <1> DEFINE S == {n \in Nat : n <= k => f[n] \in D}
  <1>1. 0 \in S
    OBVIOUS
  <1>2. ASSUME NEW n \in S \cap Nat PROVE n + 1 \in S
    <2> SUFFICES ASSUME n + 1 <= k PROVE f[n + 1] \in D
      OBVIOUS
    <2>1. n + 1 \in 1..k /\ (n + 1) - 1 = n /\ f[n] \in D
      BY <1>2
    <2> QED BY <2>1
  <1> HIDE DEF S
  <1>3. Nat \subseteq S
    BY <1>1, <1>2, NatSetInduction
  <1> QED BY <1>3 DEF S
============================================================================
