---------------------------- MODULE NumberLemmas ----------------------------
(***************************************************************************)
(* Lemmas about sets of natural numbers: least and greatest members, how   *)
(* many there are, and those that are multiples of a number.               *)
(***************************************************************************)
EXTENDS Integers, FiniteSetsExt, FiniteSetTheorems, FunctionTheorems,
        WellFoundedInduction, TLAPS

(* The least member, of any set.                                           *)
LEMMA LeastNumber ==
    ASSUME NEW S \in SUBSET Nat, S # {}
    PROVE  \E x \in S : \A y \in S : x =< y
<1>1. PICK x \in S : \A y \in S : ~ (<<y, x>> \in OpToRel(<, Nat))
  BY WFMin, NatLessThanWellFounded
<1>2. \A y \in S : x =< y
  <2> SUFFICES ASSUME NEW y \in S PROVE x =< y
    OBVIOUS
  <2>1. <<y, x>> \in Nat \X Nat /\ <<y, x>> \notin OpToRel(<, Nat)
    BY <1>1
  <2>2. ~ (y < x)
    BY <2>1 DEF OpToRel
  <2> QED
    BY <2>2
<1> QED
  BY <1>2

LEMMA MinIsLeast ==
    ASSUME NEW S \in SUBSET Nat, S # {}
    PROVE  Min(S) \in S /\ \A y \in S : Min(S) =< y
<1> DEFINE P(z) == z \in S /\ \A y \in S : z =< y
<1>1. PICK x : P(x)
  BY LeastNumber
<1>2. Min(S) = CHOOSE z : P(z)
  BY DEF Min
<1> QED
  BY <1>1, <1>2, Zenon

(* The greatest member, of a set below a bound.                            *)
LEMMA MaxIsGreatest ==
    ASSUME NEW n \in Nat, NEW S \in SUBSET (0..n), S # {}
    PROVE  Max(S) \in S /\ \A y \in S : y =< Max(S)
<1> DEFINE P(z) == z \in S /\ \A y \in S : z >= y
           T == {n - s : s \in S}
<1>1. T \in SUBSET Nat /\ T # {}
  <2>1. \A s \in S : n - s \in Nat
    OBVIOUS
  <2> QED
    BY <2>1
<1>2. PICK x \in T : \A y \in T : x =< y
  BY <1>1, LeastNumber
<1>3. PICK s \in S : x = n - s
  BY <1>2
<1>4. P(s)
  <2> SUFFICES ASSUME NEW y \in S PROVE s >= y
    OBVIOUS
  <2>1. x =< n - y
    BY <1>2
  <2> QED
    BY <2>1, <1>3
<1>5. Max(S) = CHOOSE z : P(z)
  BY DEF Max
<1>6. P(Max(S))
  BY <1>4, <1>5, Zenon
<1> QED
  BY <1>6

(* As many numbers are below a member as its place says.                   *)
LEMMA BelowCounts ==
    ASSUME NEW S \in SUBSET Nat, IsFiniteSet(S),
           NEW n \in 1..Cardinality(S)
    PROVE  \E k \in S : Cardinality({j \in S : j < k}) = n - 1
<1> DEFINE c == Cardinality(S)
           Below(k) == {j \in S : j < k}
           F == [k \in S |-> Cardinality(Below(k))]
<1>1. c \in Nat
  BY FS_CardinalityType
<1>2. \A k \in S : IsFiniteSet(Below(k)) /\ Cardinality(Below(k)) \in 0..c - 1
  <2> SUFFICES ASSUME NEW k \in S
               PROVE  IsFiniteSet(Below(k)) /\ Cardinality(Below(k)) \in 0..c - 1
    OBVIOUS
  <2>1. Below(k) \in SUBSET S /\ Below(k) # S
    OBVIOUS
  <2>2. /\ IsFiniteSet(Below(k)) /\ Cardinality(Below(k)) =< c
        /\ Cardinality(Below(k)) # c
    BY <2>1, FS_Subset
  <2>3. Cardinality(Below(k)) \in Nat
    BY <2>2, FS_CardinalityType
  <2> QED
    BY <1>1, <2>2, <2>3
<1>3. F \in [S -> 0..c - 1]
  BY <1>2
<1>4. \A a, b \in S : a < b => F[a] # F[b]
  <2> SUFFICES ASSUME NEW a \in S, NEW b \in S, a < b
               PROVE  F[a] # F[b]
    OBVIOUS
  <2>1. Below(a) \in SUBSET Below(b) /\ Below(a) # Below(b)
    <3>1. a \in Below(b) /\ a \notin Below(a)
      OBVIOUS
    <3>2. \A j \in S : j < a => j < b
      OBVIOUS
    <3> QED
      BY <3>1, <3>2
  <2>2. IsFiniteSet(Below(b))
    BY <1>2
  <2>3. Cardinality(Below(b)) # Cardinality(Below(a))
    BY <2>1, <2>2, FS_Subset
  <2> QED
    BY <2>3
<1>5. F \in Injection(S, 0..c - 1)
  <2>1. \A a, b \in S : F[a] = F[b] => a = b
    <3> SUFFICES ASSUME NEW a \in S, NEW b \in S, a # b PROVE F[a] # F[b]
      OBVIOUS
    <3>1. a < b \/ b < a
      OBVIOUS
    <3> QED
      BY <3>1, <1>4
  <2> QED
    BY <1>3, <2>1, Fun_IsInj
<1>6. IsFiniteSet(0..c - 1) /\ Cardinality(0..c - 1) = c
  <2>1. 0 \in Int /\ c - 1 \in Int /\ (0 > c - 1 => c = 0) /\ c - 1 - 0 + 1 = c
    BY <1>1
  <2> HIDE DEF c
  <2> QED
    BY <2>1, FS_Interval
<1>7. F \in Surjection(S, 0..c - 1)
  BY <1>5, <1>6, FS_Injection
<1>8. n - 1 \in 0..c - 1
  BY <1>1
<1>9. PICK k \in S : F[k] = n - 1
  <2>1. \A t \in 0..c - 1 : \E k \in S : F[k] = t
    BY <1>7, Zenon DEF Surjection
  <2> QED
    BY <2>1, <1>8
<1> QED
  BY <1>9

LEMMA IntervalCount ==
    ASSUME NEW a \in Int, NEW b \in Int, a =< b + 1
    PROVE  Cardinality(a..b) = b - a + 1
<1>1. Cardinality(a..b) = IF a > b THEN 0 ELSE b - a + 1
  BY FS_Interval
<1> QED
  BY <1>1

-----------------------------------------------------------------------------
(* Sets of numbers at one distance from each other.                        *)

LEMMA OneMoreTime ==
    ASSUME NEW i \in Int, NEW L \in Int PROVE (i + 1) * L = i * L + L
  OBVIOUS

LEMMA TimesIsOrdered ==
    ASSUME NEW i \in Int, NEW j \in Int, NEW L \in Nat \ {0}
    PROVE  /\ i < j => i * L < j * L
           /\ i * L < j * L => i < j
<1>1. ASSUME NEW a \in Int, NEW b \in Int, a < b PROVE a * L < b * L
  <2>1. b * L = a * L + (b - a) * L
    OBVIOUS
  <2>2. (b - a) * L > 0
    BY <1>1
  <2> QED
    BY <2>1, <2>2
<1>2. i < j \/ i = j \/ j < i
  OBVIOUS
<1>3. i * L \in Int /\ j * L \in Int
  OBVIOUS
<1>4. CASE i < j
  BY <1>1, <1>4
<1>5. CASE i = j
  BY <1>3, <1>5
<1>6. CASE j < i
  <2>1. j * L < i * L
    BY <1>1, <1>6
  <2> HIDE <1>1
  <2> QED
    BY <1>3, <1>6, <2>1
<1> QED
  BY <1>2, <1>4, <1>5, <1>6

LEMMA TimesKeepsOrder ==
    ASSUME NEW i \in Int, NEW j \in Int, NEW L \in Nat, i <= j PROVE i * L <= j * L
<1>1. j * L = i * L + (j - i) * L
  OBVIOUS
<1>2. (j - i) * L >= 0 /\ i * L \in Int
  <2>1. ASSUME NEW d \in Nat PROVE d * L \in Nat
    BY <2>1
  <2>2. j - i \in Nat
    OBVIOUS
  <2> QED
    BY <2>1, <2>2
<1> QED
  BY <1>1, <1>2

(* A set in which each number but s is L behind another one consists of    *)
(* multiples, and has all those below each.                                *)
LEMMA EvenSet ==
    ASSUME NEW C \in SUBSET Nat, NEW s \in Nat, NEW L \in Nat \ {0},
           \A p \in C : p # s => \E q \in C : q + L = p
    PROVE  /\ \A p \in C : \E j \in Nat : p = s + j * L
           /\ \A j \in Nat : \A i \in 0..j : s + j * L \in C => s + i * L \in C
<1>1. \A p \in C : \E j \in Nat : p = s + j * L
  <2> DEFINE Off == {p \in C : ~ \E j \in Nat : p = s + j * L}
  <2> SUFFICES ASSUME Off # {} PROVE FALSE
    OBVIOUS
  <2>1. PICK p \in Off : \A y \in Off : p =< y
    <3>1. Off \in SUBSET Nat
      OBVIOUS
    <3> HIDE DEF Off
    <3> QED
      BY <3>1, LeastNumber
  <2>2. p \in C /\ ~ \E j \in Nat : p = s + j * L
    BY <2>1
  <2>3. p # s
    <3>1. s = s + 0 * L /\ 0 \in Nat
      OBVIOUS
    <3> QED
      BY <2>2, <3>1
  <2>4. PICK q \in C : q + L = p
    BY <2>2, <2>3
  <2>5. q \notin Off
    <3>1. ~ (p =< q) /\ q \in Nat
      BY <2>2, <2>4
    <3> HIDE DEF Off
    <3> QED
      BY <2>1, <3>1
  <2>6. PICK j \in Nat : q = s + j * L
    BY <2>5
  <2>7. p = s + (j + 1) * L
    <3>1. (j + 1) * L = j * L + L
      BY OneMoreTime
    <3> QED
      BY <2>4, <2>6, <3>1
  <2>8. j + 1 \in Nat
    OBVIOUS
  <2> QED
    BY <2>2, <2>7, <2>8
<1>2. ASSUME NEW j \in Nat, NEW i \in 0..j, s + j * L \in C PROVE s + i * L \in C
  <2> DEFINE Off == {d \in 0..j : s + (j - d) * L \notin C}
  <2>1. Off = {}
    <3> SUFFICES ASSUME Off # {} PROVE FALSE
      OBVIOUS
    <3>1. PICK d \in Off : \A y \in Off : d =< y
      <4>1. Off \in SUBSET Nat
        OBVIOUS
      <4> HIDE DEF Off
      <4> QED
        BY <4>1, LeastNumber
    <3>2. d \in 0..j /\ s + (j - d) * L \notin C
      BY <3>1
    <3>3. d # 0
      <4>1. j - 0 = j
        OBVIOUS
      <4> QED
        BY <1>2, <3>2, <4>1
    <3>4. d - 1 \in 0..j /\ d - 1 \notin Off
      <4>1. d - 1 \in 0..j /\ ~ (d =< d - 1)
        BY <3>2, <3>3
      <4> HIDE DEF Off
      <4> QED
        BY <3>1, <4>1
    <3> DEFINE i0 == j - d
    <3>5. i0 \in Nat /\ j - (d - 1) = i0 + 1
      BY <3>2
    <3>6. s + (j - (d - 1)) * L \in C
      BY <3>4
    <3> HIDE DEF i0
    <3>7. s + (i0 + 1) * L \in C
      BY <3>5, <3>6
    <3>8. (i0 + 1) * L = i0 * L + L /\ i0 * L \in Nat
      BY <3>5, OneMoreTime
    <3>9. PICK q \in C : q + L = s + (i0 + 1) * L
      <4>1. s + (i0 + 1) * L # s
        <5> HIDE DEF Off
        <5> QED
          BY <3>8
      <4> QED
        BY <3>7, <4>1
    <3>10. q = s + i0 * L
      <4>1. q \in Nat
        OBVIOUS
      <4> HIDE DEF Off
      <4> QED
        BY <3>8, <3>9, <4>1
    <3> QED
      BY <3>2, <3>9, <3>10 DEF i0
  <2>2. j - i \in 0..j /\ j - (j - i) = i
    OBVIOUS
  <2>3. j - i \notin Off
    BY <2>1
  <2> QED
    BY <2>2, <2>3
<1> QED
  BY <1>1, <1>2

(* Below each member of such a set are as many as the distances to it.    *)
LEMMA EvenSetCounts ==
    ASSUME NEW C \in SUBSET Nat, NEW s \in Nat, NEW L \in Nat \ {0},
           \A p \in C : p # s => \E q \in C : q + L = p,
           NEW j \in Nat, s + j * L \in C
    PROVE  Cardinality({p \in C : p < s + j * L}) = j
<1> DEFINE B == {p \in C : p < s + j * L}
           F == [i \in 0..j - 1 |-> s + i * L]
<1>0. /\ \A p \in C : \E i \in Nat : p = s + i * L
      /\ \A k \in Nat : \A i \in 0..k : s + k * L \in C => s + i * L \in C
  <2> HIDE DEF B, F
  <2> QED
    BY EvenSet, Zenon
<1>1. ASSUME NEW i \in 0..j - 1 PROVE s + i * L \in B
  <2>1. i \in 0..j /\ i \in Int /\ j \in Int /\ i < j
    OBVIOUS
  <2>2. s + i * L \in C
    BY <1>0, <2>1
  <2>3. i * L < j * L
    BY <2>1, TimesIsOrdered
  <2>4. i * L \in Int /\ j * L \in Int
    BY <2>1
  <2>5. s + i * L < s + j * L
    BY <2>3, <2>4
  <2> QED
    BY <2>2, <2>5
<1>2. ASSUME NEW a \in 0..j - 1, NEW b \in 0..j - 1, s + a * L = s + b * L
      PROVE  a = b
  <2>1. a * L = b * L
    <3>1. a * L \in Int /\ b * L \in Int
      OBVIOUS
    <3> QED
      BY <1>2, <3>1
  <2>2. ~ (a * L < b * L) /\ ~ (b * L < a * L)
    <3>1. a * L \in Int /\ b * L \in Int
      OBVIOUS
    <3> QED
      BY <2>1, <3>1
  <2>3. ~ (a < b) /\ ~ (b < a)
    BY <2>2, TimesIsOrdered
  <2> QED
    BY <2>3
<1>3. ASSUME NEW p \in B PROVE \E i \in 0..j - 1 : s + i * L = p
  <2>1. PICK i \in Nat : p = s + i * L
    BY <1>0
  <2>2. i * L < j * L
    <3>1. i * L \in Int /\ j * L \in Int /\ p < s + j * L
      OBVIOUS
    <3> HIDE DEF B
    <3> QED
      BY <2>1, <3>1
  <2>3. i < j
    BY <2>2, TimesIsOrdered
  <2>4. i \in 0..j - 1
    BY <2>3
  <2> QED
    BY <2>1, <2>4
<1>4. F \in Bijection(0..j - 1, B)
  <2>1. F \in [0..j - 1 -> B]
    <3> HIDE DEF B
    <3> QED
      BY <1>1
  <2>2. \A a, b \in 0..j - 1 : F[a] = F[b] => a = b
    <3> HIDE DEF B
    <3> QED
      BY <1>2
  <2>3. \A p \in B : \E i \in 0..j - 1 : F[i] = p
    <3> HIDE DEF B
    <3> QED
      BY <1>3
  <2> HIDE DEF F, B
  <2> QED
    BY <2>1, <2>2, <2>3, Fun_IsBij
<1>5. Cardinality(B) = Cardinality(0..j - 1)
  <2>1. IsFiniteSet(0..j - 1)
    BY FS_Interval
  <2> HIDE DEF F, B
  <2>2. ExistsBijection(0..j - 1, B)
    BY <1>4 DEF ExistsBijection
  <2> QED
    BY <2>1, <2>2, FS_Bijection
<1>6. Cardinality(0..j - 1) = j
  <2>1. Cardinality(0..j - 1) = (j - 1) - 0 + 1
    BY IntervalCount
  <2> QED
    BY <2>1
<1> QED
  BY <1>5, <1>6

-----------------------------------------------------------------------------
(* Sums along a sequence of numbers, step by step.  Induction is done with *)
(* the least step at which a statement would not hold.                     *)

(* There are the sums of the first n numbers, for n up to N.               *)
LEMMA SumsExist ==
    ASSUME NEW N \in Nat, NEW w \in [1..N -> Nat]
    PROVE  \E u \in [0..N -> Nat] :
               u = [n \in 0..N |-> IF n = 0 THEN 0 ELSE u[n - 1] + w[n]]
<1> DEFINE Sums(u, m) == /\ u \in [0..m -> Nat] /\ u[0] = 0
                         /\ \A n \in 1..m : u[n] = u[n - 1] + w[n]
           Without == {m \in 0..N : ~ \E u : Sums(u, m)}
<1>1. Without = {}
  <2> SUFFICES ASSUME Without # {} PROVE FALSE
    OBVIOUS
  <2>1. PICK m \in Without : \A y \in Without : m =< y
    <3>1. Without \in SUBSET Nat
      OBVIOUS
    <3> HIDE DEF Without
    <3> QED
      BY <3>1, LeastNumber
  <2>2. m \in 0..N /\ ~ \E u : Sums(u, m)
    BY <2>1
  <2>3. CASE m = 0
    <3> DEFINE z == [n \in 0..0 |-> 0]
    <3>1. Sums(z, 0)
      OBVIOUS
    <3> QED
      BY <2>2, <2>3, <3>1
  <2>4. CASE m # 0
    <3>1. m - 1 \in 0..N /\ m \in 1..N
      BY <2>2, <2>4
    <3>2. PICK u : Sums(u, m - 1)
      <4>1. m - 1 \notin Without
        <5> HIDE DEF Without
        <5> QED
          BY <2>1, <3>1
      <4> HIDE DEF Sums
      <4> QED
        BY <3>1, <4>1
    <3> DEFINE v == [n \in 0..m |-> IF n = m THEN u[m - 1] + w[m] ELSE u[n]]
    <3>3. u[m - 1] \in Nat /\ w[m] \in Nat
      BY <3>1, <3>2
    <3>4. v \in [0..m -> Nat] /\ v[0] = 0
      BY <3>1, <3>2, <3>3
    <3>5. \A n \in 1..m : v[n] = v[n - 1] + w[n]
      <4>1. v[m] = u[m - 1] + w[m] /\ v[m - 1] = u[m - 1]
        BY <3>1
      <4>2. ASSUME NEW n \in 1..m - 1 PROVE v[n] = v[n - 1] + w[n]
        BY <3>1, <3>2
      <4> HIDE DEF v
      <4> QED
        BY <3>1, <4>1, <4>2
    <3>6. Sums(v, m)
      BY <3>4, <3>5
    <3> HIDE DEF Sums, v
    <3> QED
      BY <2>2, <3>6
  <2> QED
    BY <2>3, <2>4
<1>2. PICK u : Sums(u, N)
  <2>1. N \in 0..N
    OBVIOUS
  <2> HIDE DEF Sums
  <2> QED
    BY <1>1, <2>1
<1>3. u = [n \in 0..N |-> IF n = 0 THEN 0 ELSE u[n - 1] + w[n]]
  BY <1>2
<1> QED
  BY <1>2, <1>3

(* Whatever is defined that way consists of numbers.                       *)
LEMMA SumsAreNumbers ==
    ASSUME NEW N \in Nat, NEW w \in [1..N -> Nat], NEW u,
           u = [n \in 0..N |-> IF n = 0 THEN 0 ELSE u[n - 1] + w[n]]
    PROVE  /\ u \in [0..N -> Nat] /\ u[0] = 0
           /\ \A n \in 1..N : u[n] = u[n - 1] + w[n]
<1>1. u[0] = 0 /\ \A n \in 1..N : u[n] = u[n - 1] + w[n]
  <2>1. 0 \in 0..N /\ \A n \in 1..N : n \in 0..N /\ n # 0
    OBVIOUS
  <2>2. \A n \in 0..N : u[n] = IF n = 0 THEN 0 ELSE u[n - 1] + w[n]
    BY Zenon
  <2> QED
    BY <2>1, <2>2, Zenon
<1> DEFINE Off == {n \in 0..N : u[n] \notin Nat}
<1>2. Off = {}
  <2> SUFFICES ASSUME Off # {} PROVE FALSE
    OBVIOUS
  <2>1. PICK m \in Off : \A y \in Off : m =< y
    <3>1. Off \in SUBSET Nat
      OBVIOUS
    <3> HIDE DEF Off
    <3> QED
      BY <3>1, LeastNumber
  <2>2. m \in 1..N /\ m - 1 \in 0..N
    BY <1>1, <2>1
  <2>3. m - 1 \notin Off
    <3> HIDE DEF Off
    <3> QED
      BY <2>1, <2>2
  <2>4. u[m] = u[m - 1] + w[m] /\ u[m - 1] \in Nat /\ w[m] \in Nat
    BY <1>1, <2>2, <2>3
  <2>5. u[m] \in Nat
    BY <2>4
  <2> QED
    BY <2>1, <2>5
<1>3. u \in [0..N -> Nat]
  <2>1. \A n \in 0..N : u[n] \in Nat
    BY <1>2
  <2>2. DOMAIN u = 0..N /\ u = [n \in DOMAIN u |-> u[n]]
    BY Zenon
  <2> QED
    BY <2>1, <2>2, Zenon
<1> QED
  BY <1>1, <1>3

(* Sums of the same numbers differ by what they begin with.                *)
LEMMA SameSteps ==
    ASSUME NEW N \in Nat, NEW u \in [0..N -> Int], NEW v \in [0..N -> Int],
           \A n \in 1..N : v[n] - v[n - 1] = u[n] - u[n - 1]
    PROVE  v[N] - u[N] = v[0] - u[0]
<1> DEFINE d == [n \in 0..N |-> v[n] - u[n]]
           Off == {n \in 0..N : d[n] # d[0]}
<1>1. \A n \in 1..N : d[n] = d[n - 1]
  <2> SUFFICES ASSUME NEW n \in 1..N PROVE d[n] = d[n - 1]
    OBVIOUS
  <2>1. n \in 0..N /\ n - 1 \in 0..N
    OBVIOUS
  <2>2. v[n] \in Int /\ v[n - 1] \in Int /\ u[n] \in Int /\ u[n - 1] \in Int
    BY <2>1
  <2>3. v[n] - v[n - 1] = u[n] - u[n - 1]
    OBVIOUS
  <2>4. v[n] - u[n] = v[n - 1] - u[n - 1]
    BY ONLY <2>2, <2>3
  <2> QED
    BY <2>1, <2>4
<1>2. Off = {}
  <2> HIDE DEF d
  <2> SUFFICES ASSUME Off # {} PROVE FALSE
    OBVIOUS
  <2>1. PICK m \in Off : \A y \in Off : m =< y
    <3>1. Off \in SUBSET Nat
      OBVIOUS
    <3> HIDE DEF Off
    <3> QED
      BY <3>1, LeastNumber
  <2>2. m \in 1..N /\ m - 1 \in 0..N
    BY <2>1
  <2>3. m - 1 \notin Off
    <3> HIDE DEF Off
    <3> QED
      BY <2>1, <2>2
  <2> QED
    BY <1>1, <2>1, <2>2, <2>3
<1>3. N \in 0..N /\ 0 \in 0..N
  OBVIOUS
<1>4. d[N] = d[0]
  <2> HIDE DEF d
  <2> QED
    BY <1>2, <1>3
<1> QED
  BY <1>3, <1>4
=============================================================================
