---------------------------- MODULE NumberLemmas ----------------------------
(***************************************************************************)
(* Facts about numbers and finite sets that the proofs of several          *)
(* components rest on: induction as a least counterexample, division with  *)
(* remainder, and the elements of a finite set of numbers in order.        *)
(***************************************************************************)
EXTENDS Integers, FiniteSets, FiniteSetTheorems, WellFoundedInduction, TLAPS

(* A set of natural numbers has a least element.                           *)
LEMMA LeastNat ==
  ASSUME NEW T \in SUBSET Nat, T # {}
  PROVE  \E x \in T : \A y \in T : x <= y
<1>1. IsWellFoundedOn(OpToRel(<, Nat), Nat)
  BY NatLessThanWellFounded
<1>2. PICK x \in T : \A y \in T : ~(<<y, x>> \in OpToRel(<, Nat))
  BY <1>1, WFMin
<1>3. \A y \in T : ~(y < x)
  BY <1>2 DEF OpToRel
<1> QED
  BY <1>3

(* Division with remainder.                                                *)
LEMMA DivisionWithRemainder ==
  ASSUME NEW a \in Int, NEW n \in Nat \ {0}
  PROVE  /\ a = n * (a \div n) + (a % n)
         /\ a % n \in 0..(n - 1) /\ a \div n \in Int
  OBVIOUS

LEMMA RemainderIsUnique ==
  ASSUME NEW n \in Nat \ {0}, NEW q \in Int, NEW r \in 0..(n - 1)
  PROVE  (n * q + r) \div n = q /\ (n * q + r) % n = r
  OBVIOUS

LEMMA RemainderOfSmall ==
  ASSUME NEW n \in Nat \ {0}, NEW a \in 0..(2 * n - 1)
  PROVE  a % n = IF a < n THEN a ELSE a - n
  OBVIOUS

LEMMA Division ==
  ASSUME NEW a \in Int, NEW n \in Nat \ {0}
  PROVE  \E q \in Int, r \in 0..(n - 1) : q = a \div n /\ r = a % n /\ a = n * q + r
<1>1. PICK q, r : q = a \div n /\ r = a % n
  OBVIOUS
<1>2. q \in Int /\ r \in 0..(n - 1) /\ a = n * q + r
  BY <1>1, DivisionWithRemainder
<1> QED
  BY <1>1, <1>2, Zenon

LEMMA QuotientExists ==
  ASSUME NEW a \in Int, NEW n \in Nat \ {0}
  PROVE  \E q \in Int, r \in 0..(n - 1) : a = n * q + r
<1>1. PICK q, r : q = a \div n /\ r = a % n
  OBVIOUS
<1>2. q \in Int /\ r \in 0..(n - 1) /\ a = n * q + r
  BY <1>1, DivisionWithRemainder
<1> QED
  BY <1>2

LEMMA RemainderIs ==
  ASSUME NEW n \in Nat \ {0}, NEW q \in Int, NEW r \in 0..(n - 1), NEW a, a = n * q + r
  PROVE  a % n = r
BY RemainderIsUnique

LEMMA OneMore ==
  ASSUME NEW n \in Int, NEW q \in Int, NEW p, p = q + 1 PROVE n * p = n * q + n
  OBVIOUS

LEMMA PeriodicRemainder ==
  ASSUME NEW a \in Int, NEW n \in Nat \ {0}, NEW b, b = a + n
  PROVE  b % n = a % n
<1>1. PICK q \in Int, r \in 0..(n - 1) : a = n * q + r
  BY QuotientExists, Zenon
<1>2. PICK p \in Int : p = q + 1
  OBVIOUS
<1>3. b = n * p + r
  <2>1. n * p = n * q + n
    BY <1>2, OneMore
  <2> QED BY <1>1, <2>1
<1>4. a % n = r
  BY <1>1, RemainderIs
<1>5. b % n = r
  BY <1>3, RemainderIs
<1> QED
  BY <1>4, <1>5, Zenon

LEMMA MultiplesCombine ==
  ASSUME NEW z \in Int, NEW c \in Int, NEW q \in Int, NEW p \in Int, NEW r \in Int
  PROVE  (z * c) * q + (z * p + r) = z * (c * q + p) + r
  OBVIOUS

LEMMA RemainderOfRemainder ==
  ASSUME NEW a \in Int, NEW n \in Nat \ {0}, NEW z \in Nat \ {0}, n % z = 0
  PROVE  (a % n) % z = a % z
<1>1. PICK c \in Int, r0 \in 0..(z - 1) : n = z * c + r0
  <2>1. n \in Int
    OBVIOUS
  <2> QED BY <2>1, QuotientExists, Zenon
<1>2. PICK q \in Int, r \in 0..(n - 1) : a = n * q + r
  BY QuotientExists, Zenon
<1>3. PICK p \in Int, s \in 0..(z - 1) : r = z * p + s
  <2>1. r \in Int
    OBVIOUS
  <2> QED BY <2>1, QuotientExists, Zenon
<1>4. n = z * c
  <2>1. n % z = r0
    BY <1>1, RemainderIs
  <2> QED BY <1>1, <2>1
<1>5. a = z * (c * q + p) + s
  <2>1. a = (z * c) * q + (z * p + s)
    BY <1>2, <1>3, <1>4
  <2> QED BY <2>1, MultiplesCombine
<1>6. PICK t \in Int : t = c * q + p
  OBVIOUS
<1>7. a = z * t + s
  BY <1>5, <1>6
<1>8. a % z = s
  BY <1>7, RemainderIs
<1>9. r % z = s
  BY <1>3, RemainderIs
<1>10. a % n = r
  BY <1>2, RemainderIs
<1> QED
  BY <1>8, <1>9, <1>10, Zenon

(* A remainder counts in a sum like the number it is taken of.             *)
LEMMA SumRemainder ==
  ASSUME NEW a \in Int, NEW b \in Int, NEW z \in Nat \ {0}
  PROVE  ((a % z) + b) % z = (a + b) % z
<1>1. PICK q \in Int, r \in 0..(z - 1) : q = a \div z /\ r = a % z /\ a = z * q + r
  BY Division
<1>2. PICK c \in Int : c = r + b
  OBVIOUS
<1>3. PICK p \in Int, e \in 0..(z - 1) : p = c \div z /\ e = c % z /\ c = z * p + e
  BY Division
<1>4. a + b = z * (q + p) + e
  <2>1. PICK x \in Int, y \in Int, w \in Int : x = z * q /\ y = z * p /\ w = z * (q + p) /\ w = x + y
    OBVIOUS
  <2>2. a = x + r /\ c = y + e
    BY <1>1, <1>3, <2>1
  <2>3. a + b = w + e
    BY <1>2, <2>1, <2>2
  <2> QED BY <2>1, <2>3
<1>5. (z * (q + p) + e) % z = e
  BY RemainderIsUnique
<1> QED
  BY <1>1, <1>2, <1>3, <1>4, <1>5, Zenon

(* Two numbers that are less than n apart have different remainders.       *)
LEMMA RemaindersDiffer ==
  ASSUME NEW n \in Nat \ {0}, NEW a \in Int, NEW b \in Int, a < b, b < a + n
  PROVE  b % n # a % n
<1>1. PICK q \in Int, r \in 0..(n - 1) : a = n * q + r
  BY QuotientExists, Zenon
<1>2. PICK d \in 1..(n - 1) : d = b - a
  OBVIOUS
<1>3. a % n = r
  BY <1>1, RemainderIs
<1>4. CASE r + d < n
  <2>1. PICK t \in 0..(n - 1) : t = r + d
    BY <1>4
  <2>2. b = n * q + t
    BY <1>1, <1>2, <2>1
  <2>3. b % n = t
    BY <2>2, RemainderIs
  <2> QED BY <1>3, <2>1, <2>3
<1>5. CASE r + d >= n
  <2>1. PICK t \in 0..(n - 1), p \in Int : t = r + d - n /\ p = q + 1
    BY <1>5
  <2>2. b = n * p + t
    <3>1. n * p = n * q + n
      BY <2>1, OneMore
    <3> QED BY <1>1, <1>2, <2>1, <3>1
  <2>3. b % n = t
    BY <2>2, RemainderIs
  <2> QED BY <1>3, <2>1, <2>3
<1> QED
  BY <1>4, <1>5

(* Among the numbers of a finite set there is one with k others below it,  *)
(* for every k that is less than their number.                             *)
LEMMA ElementByRank ==
  ASSUME NEW b \in Nat, NEW S \in SUBSET (0..b), NEW k \in Nat, k < Cardinality(S)
  PROVE  \E p \in S : Cardinality({q \in S : q < p}) = k
<1> DEFINE UpTo(n) == {q \in S : q <= n}
           Reached == {n \in Nat : k < Cardinality(UpTo(n))}
<1> S \subseteq 0..b /\ \A q \in S : q \in Nat /\ q <= b
  OBVIOUS
<1> IsFiniteSet(S)
  <2>1. IsFiniteSet(0..b)
    BY FS_Interval
  <2> QED BY <2>1, FS_Subset
<1>1. \A n \in Nat : IsFiniteSet(UpTo(n)) /\ Cardinality(UpTo(n)) \in Nat
  <2> SUFFICES ASSUME NEW n \in Nat
               PROVE  IsFiniteSet(UpTo(n)) /\ Cardinality(UpTo(n)) \in Nat
    OBVIOUS
  <2>1. UpTo(n) \in SUBSET S
    OBVIOUS
  <2> QED BY <2>1, FS_Subset, FS_CardinalityType
<1>2. Reached # {}
  <2>1. UpTo(b) = S
    OBVIOUS
  <2>2. k < Cardinality(UpTo(b))
    BY <2>1
  <2> HIDE DEF UpTo
  <2> QED BY <2>2
<1>3. PICK n \in Nat : n \in Reached /\ \A m \in Reached : n <= m
  <2>1. Reached \in SUBSET Nat
    OBVIOUS
  <2> HIDE DEF Reached
  <2> QED BY <1>2, <2>1, LeastNat
<1> DEFINE Below == {q \in S : q < n}
<1>4. IsFiniteSet(Below) /\ Cardinality(Below) \in Nat
  <2>1. Below \in SUBSET S
    OBVIOUS
  <2> QED BY <2>1, FS_Subset, FS_CardinalityType
<1>5. Cardinality(Below) <= k
  <2>1. CASE n = 0
    <3>1. \A q \in S : ~(q < n)
      BY <2>1
    <3>2. Below = {}
      BY <3>1
    <3> QED BY <3>2, FS_EmptySet
  <2>2. CASE n # 0
    <3>1. n - 1 \in Nat /\ \A q \in S : q < n <=> q <= n - 1
      BY <2>2
    <3>2. Below = UpTo(n - 1)
      BY <3>1
    <3>3. n - 1 \notin Reached
      <4> HIDE DEF Reached
      <4> QED BY <1>3, <3>1
    <3>4. ~(k < Cardinality(UpTo(n - 1)))
      BY <3>1, <3>3
    <3> HIDE DEF Below, UpTo, Reached
    <3> QED BY <3>2, <3>4, <1>4
  <2> QED BY <2>1, <2>2
<1>6. k < Cardinality(UpTo(n))
  BY <1>3
<1>7. n \in S
  <2> SUFFICES ASSUME n \notin S PROVE FALSE
    OBVIOUS
  <2>1. \A q \in S : q <= n <=> q < n
    OBVIOUS
  <2>2. UpTo(n) = Below
    BY <2>1
  <2> HIDE DEF Below, UpTo, Reached
  <2> QED BY <2>2, <1>4, <1>5, <1>6
<1>8. UpTo(n) = Below \cup {n} /\ n \notin Below
  <2>1. \A q \in S : q <= n <=> q < n \/ q = n
    OBVIOUS
  <2>2. ~(n < n)
    OBVIOUS
  <2> QED BY <1>7, <2>1, <2>2
<1>9. Cardinality(UpTo(n)) = Cardinality(Below) + 1
  <2> HIDE DEF Below, UpTo, Reached
  <2> QED BY <1>4, <1>8, FS_AddElement
<1> HIDE DEF UpTo, Reached
<1>10. Cardinality(Below) = k
  <2> HIDE DEF Below
  <2> QED BY <1>4, <1>5, <1>6, <1>9
<1> QED
  BY <1>7, <1>10
=============================================================================
