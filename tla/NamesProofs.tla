------------------------------ MODULE NamesProofs ------------------------------
(***************************************************************************)
(* Lemmas about the scan for the last matching entry of a name map, and    *)
(* about the finite sets the other proofs count.                           *)
(***************************************************************************)
EXTENDS Names, FiniteSetTheorems, WellFoundedInduction, TLAPS

(* A set of indexes that is not empty has a greatest element: the order on *)
(* the naturals, turned over, has no infinite descent.                     *)
LEMMA GreatestIndex ==
  ASSUME NEW n \in Nat, NEW S \in SUBSET (1..n), S # {}
  PROVE  \E k \in S : \A l \in S : l <= k
<1> DEFINE R == OpToRel(<, Nat)
           T == { n - k : k \in S }
<1>1. IsWellFoundedOn(R, Nat)
  BY NatLessThanWellFounded
<1>2. \A x, y \in Nat : x < y => << x, y >> \in R
  BY DEF OpToRel
<1>3. T # {}
  OBVIOUS
<1>4. \A k \in S : n - k \in Nat
  OBVIOUS
<1>5. T \subseteq Nat
  BY <1>4
<1>6. PICK m \in T : \A y \in T : ~(<< y, m >> \in R)
  <2> HIDE DEF T, R
  <2> QED
    BY <1>1, <1>3, <1>5, WFMin
<1>7. PICK k \in S : m = n - k
  OBVIOUS
<1>8. \A l \in S : ~(n - l < m)
  BY <1>2, <1>5, <1>6
<1> QED
  BY <1>7, <1>8

(* It has a least element, too.                                            *)
LEMMA LeastIndex ==
  ASSUME NEW n \in Nat, NEW S \in SUBSET (1..n), S # {}
  PROVE  \E k \in S : \A l \in S : k <= l
<1> DEFINE R == OpToRel(<, Nat)
<1>1. IsWellFoundedOn(R, Nat)
  BY NatLessThanWellFounded
<1>2. \A x, y \in Nat : x < y => << x, y >> \in R
  BY DEF OpToRel
<1>3. PICK k \in S : \A y \in S : ~(<< y, k >> \in R)
  <2>1. S \subseteq Nat
    OBVIOUS
  <2> HIDE DEF R
  <2> QED
    BY <1>1, <2>1, WFMin
<1>4. \A l \in S : ~(l < k)
  <2>1. S \subseteq Nat
    OBVIOUS
  <2> HIDE DEF R
  <2> QED
    BY <1>2, <1>3, <2>1
<1> QED
  BY <1>4

(* LastIn of indexes: 0 if there are none, else the greatest.              *)
LEMMA LastInIs ==
  ASSUME NEW n \in Nat, NEW S \in SUBSET (1..n), NEW k \in S, \A l \in S : l <= k
  PROVE  LastIn(S) = k
<1>1. k \in S \cup {0} /\ \A j \in S : j <= k
  OBVIOUS
<1>2. \A x \in S \cup {0} : (\A j \in S : j <= x) => x = k
  OBVIOUS
<1> QED
  BY <1>1, <1>2 DEF LastIn

(* Of no index at all it is 0.                                             *)
LEMMA LastInNone == LastIn({}) = 0
  BY DEF LastIn

(* In any case it is one of the indexes, or 0 if there are none.           *)
LEMMA LastInSome ==
  ASSUME NEW n \in Nat, NEW S \in SUBSET (1..n)
  PROVE  LastIn(S) \in S \cup {0} /\ (LastIn(S) = 0 <=> S = {})
<1>1. CASE S = {}
  BY <1>1, LastInNone
<1>2. CASE S # {}
  <2>1. PICK k \in S : \A l \in S : l <= k
    BY <1>2, GreatestIndex
  <2>2. LastIn(S) = k
    BY <2>1, LastInIs
  <2> QED
    BY <2>2
<1> QED
  BY <1>1, <1>2

-----------------------------------------------------------------------------
(* The image of a finite set under a function is finite.                   *)
LEMMA FiniteImage ==
  ASSUME NEW S, IsFiniteSet(S), NEW T, NEW f \in [S -> T], \A t \in T : \E s \in S : f[s] = t
  PROVE  IsFiniteSet(T)
<1>1. f \in Surjection(S, T)
  BY DEF Surjection
<1>2. IsFiniteSet(T) /\ Cardinality(T) <= Cardinality(S)
  BY <1>1, FS_Surjection
<1> QED BY <1>2

(* A function that is one-to-one keeps the number of elements.             *)
LEMMA OneToOneImage ==
  ASSUME NEW S, IsFiniteSet(S), NEW T, NEW f \in [S -> T], \A t \in T : \E s \in S : f[s] = t,
         \A x, y \in S : f[x] = f[y] => x = y
  PROVE  Cardinality(T) = Cardinality(S)
<1>1. f \in Surjection(S, T) /\ f \in Injection(S, T)
  BY DEF Surjection, Injection, IsInjective
<1> QED BY <1>1, FS_Surjection

(* Into a set with as many elements it leaves out none of them.            *)
LEMMA OneToOneOnto ==
  ASSUME NEW S, NEW T, IsFiniteSet(T), Cardinality(S) = Cardinality(T), NEW f \in [S -> T],
         \A x, y \in S : f[x] = f[y] => x = y
  PROVE  { f[s] : s \in S } = T
<1>1. f \in Injection(S, T)
  BY DEF Injection, IsInjective
<1>2. f \in Surjection(S, T)
  BY <1>1, FS_Injection
<1> QED BY <1>2 DEF Surjection
=============================================================================
