------------------------------- MODULE Numbers ------------------------------
(***************************************************************************)
(* What the proofs need of numbers and the library does not state: least   *)
(* elements, division with remainder, powers of two and numbers in binary, *)
(* the rank of an element in a finite set.  Least elements come from the library's theorem that the finite    *)
(* subsets of a set are well-founded.                                      *)
(***************************************************************************)
EXTENDS Integers, FiniteSetTheorems, TLAPS

Below(n) == 0 .. n - 1

\* Every set of natural numbers that is not empty has a least element.
LEMMA LeastNat ==
  ASSUME NEW S \in SUBSET Nat, S # {}
  PROVE  \E x \in S : \A y \in S : x <= y
<1> DEFINE T == {Below(x) : x \in S}
<1>1. IsWellFoundedOn(StrictSubsetOrdering(Nat), FiniteSubsetsOf(Nat))
  BY FS_StrictSubsetOrderingWellFounded
<1>2. \A x \in S : Below(x) \in FiniteSubsetsOf(Nat)
  <2> TAKE x \in S
  <2>1. IsFiniteSet(0 .. x - 1)
    BY FS_Interval
  <2>2. Below(x) \in SUBSET Nat
    BY DEF Below
  <2>3. QED
    BY <2>1, <2>2 DEF Below, FiniteSubsetsOf
<1>3. PICK t \in T : \A u \in T : <<u, t>> \notin StrictSubsetOrdering(Nat)
  <2>1. T \subseteq FiniteSubsetsOf(Nat) /\ T # {}
    BY <1>2
  <2> HIDE DEF T
  <2>2. QED
    BY <1>1, <2>1, WFMin
<1>4. PICK x \in S : t = Below(x)
  OBVIOUS
<1>5. ASSUME NEW y \in S, ~(x <= y)
      PROVE  FALSE
  <2>1. Below(y) \subseteq Below(x) /\ y \in Below(x) \ Below(y)
    BY <1>5 DEF Below
  <2>2. Below(x) \in SUBSET Nat /\ Below(y) \in SUBSET Nat
    BY DEF Below
  <2>3. <<Below(y), Below(x)>> \in StrictSubsetOrdering(Nat)
    BY <2>1, <2>2 DEF StrictSubsetOrdering
  <2>4. QED
    BY <2>3, <1>3, <1>4
<1>6. QED
  BY <1>5

\* ... and, by a rank, a first element of least rank.
LEMMA LeastRank ==
  ASSUME NEW S \in SUBSET Nat, S # {}, NEW rank \in [S -> Nat]
  PROVE  \E x \in S : \A y \in S : rank[x] < rank[y] \/ (rank[x] = rank[y] /\ x <= y)
<1> DEFINE Ranks == {rank[x] : x \in S}
<1>1. PICK r \in Ranks : \A q \in Ranks : r <= q
  <2>1. Ranks \in SUBSET Nat /\ Ranks # {}
    OBVIOUS
  <2> QED BY <2>1, LeastNat
<1> DEFINE T == {x \in S : rank[x] = r}
<1>2. PICK x \in T : \A y \in T : x <= y
  <2>1. T \in SUBSET Nat /\ T # {}
    OBVIOUS
  <2> QED BY <2>1, LeastNat
<1>3. \A y \in S : rank[x] < rank[y] \/ (rank[x] = rank[y] /\ x <= y)
  BY <1>1, <1>2
<1> QED BY <1>3

----------------------------------------------------------------------------
(* Division with remainder.                                                *)

LEMMA Division ==
  ASSUME NEW a \in Int, NEW m \in Nat \ {0}
  PROVE  a % m \in 0..m-1 /\ a \div m \in Int /\ a = (a \div m) * m + (a % m)
<1>1. a % m \in 0..m-1 /\ a \div m \in Int
  OBVIOUS
<1>2. a = (a \div m) * m + (a % m)
  BY Z3
<1> QED BY <1>1, <1>2

\* Quotient and remainder are unique.
LEMMA RemainderIs ==
  ASSUME NEW a \in Int, NEW m \in Nat \ {0}, NEW q \in Int, NEW r \in 0..m-1,
         a = q * m + r
  PROVE  a % m = r
OBVIOUS

LEMMA ModSmall ==
  ASSUME NEW m \in Nat \ {0}, NEW a \in 0..m-1
  PROVE  a % m = a
BY RemainderIs

LEMMA Distributes ==
  ASSUME NEW a \in Int, NEW b \in Int, NEW m \in Int
  PROVE  (a + b) * m = a * m + b * m /\ (a - b) * m = a * m - b * m
OBVIOUS

LEMMA Quotient ==
  ASSUME NEW a \in Int, NEW m \in Nat \ {0}
  PROVE  \E q \in Int, r \in 0..m-1 : a = q * m + r /\ a % m = r /\ a \div m = q
BY Division

LEMMA QuotientIs ==
  ASSUME NEW a \in Int, NEW m \in Nat \ {0}, NEW q \in Int, NEW r \in 0..m-1,
         a = q * m + r
  PROVE  a \div m = q
<1>1. PICK p \in Int, s \in 0..m-1 : a = p * m + s /\ a % m = s /\ a \div m = p
  BY Quotient
<1>2. s = r
  BY <1>1, RemainderIs
<1>3. p * m = q * m
  <2>1. p * m \in Int /\ q * m \in Int
    BY <1>1
  <2> QED BY <1>1, <1>2, <2>1
<1>4. p = q
  <2>1. p < q => p * m < q * m
    BY <1>1
  <2>2. q < p => q * m < p * m
    BY <1>1
  <2> QED BY <1>1, <1>3, <2>1, <2>2
<1> QED BY <1>1, <1>4

\* Numbers that differ by a multiple of m have the same remainder.
LEMMA Congruent ==
  ASSUME NEW a \in Int, NEW m \in Nat \ {0}, NEW k \in Int
  PROVE  (a + k * m) % m = a % m
<1>1. PICK q \in Int, r \in 0..m-1 : a = q * m + r /\ a % m = r /\ a \div m = q
  BY Quotient
<1>2. q + k \in Int /\ (q + k) * m = q * m + k * m /\ a + k * m \in Int
  BY <1>1
<1>3. a + k * m = (q + k) * m + r
  BY <1>1, <1>2
<1>4. (a + k * m) % m = r
  BY <1>2, <1>3, RemainderIs
<1> QED BY <1>1, <1>4

\* A sum or a difference of remainders, reduced.
LEMMA ModPlus ==
  ASSUME NEW a \in Int, NEW b \in Int, NEW m \in Nat \ {0}
  PROVE  ((a % m) + b) % m = (a + b) % m
<1>1. PICK q \in Int, r \in 0..m-1 : a = q * m + r /\ a % m = r /\ a \div m = q
  BY Quotient
<1>2. r + b \in Int /\ a + b = (r + b) + q * m
  BY <1>1
<1>3. ((r + b) + q * m) % m = (r + b) % m
  BY <1>2, Congruent
<1> QED BY <1>1, <1>2, <1>3

LEMMA ModMinus ==
  ASSUME NEW a \in Int, NEW b \in Int, NEW m \in Nat \ {0}
  PROVE  (a - (b % m)) % m = (a - b) % m
<1>1. PICK q \in Int, r \in 0..m-1 : b = q * m + r /\ b % m = r /\ b \div m = q
  BY Quotient
<1>2. a - b \in Int /\ a - r = (a - b) + q * m
  BY <1>1
<1>3. ((a - b) + q * m) % m = (a - b) % m
  BY <1>2, Congruent
<1> QED BY <1>1, <1>2, <1>3

\* Reducing by a multiple first makes no difference.
LEMMA ModOfMod ==
  ASSUME NEW a \in Int, NEW m \in Nat \ {0}, NEW f \in Nat \ {0}, m % f = 0
  PROVE  (a % m) % f = a % f
<1>1. PICK q \in Int, r \in 0..m-1 : a = q * m + r /\ a % m = r /\ a \div m = q
  BY Quotient
<1>2. PICK j \in Int, z \in 0..f-1 : m = j * f + z /\ m % f = z /\ m \div f = j
  BY Quotient
<1>3. q * m = (q * j) * f /\ q * j \in Int /\ r \in Int
  BY <1>2
<1>4. a = r + (q * j) * f
  BY <1>1, <1>3
<1>5. (r + (q * j) * f) % f = r % f
  BY <1>3, Congruent
<1> QED BY <1>1, <1>4, <1>5

\* Congruent numbers less than m apart: how far.
LEMMA ModDistance ==
  ASSUME NEW a \in Int, NEW m \in Nat \ {0}, NEW d \in 0..m-1
  PROVE  (((a + d) % m) - (a % m)) % m = d
<1>1. PICK x \in 0..m-1 : (a + d) % m = x
  BY Division
<1>2. x \in Int /\ -a \in Int /\ a + d \in Int
  OBVIOUS
<1>3. (x - (a % m)) % m = (x - a) % m
  BY <1>2, ModMinus, Zenon
<1>4. (x + (-a)) % m = ((a + d) + (-a)) % m
  <2>1. (((a + d) % m) + (-a)) % m = ((a + d) + (-a)) % m
    BY <1>2, ModPlus, Zenon
  <2> QED BY <1>1, <2>1, Zenon
<1>5. x + (-a) = x - a /\ (a + d) + (-a) = d
  OBVIOUS
<1>6. d % m = d
  BY ModSmall
<1> QED BY <1>1, <1>3, <1>4, <1>5, <1>6, Zenon

----------------------------------------------------------------------------
(* The elements of a finite set of numbers, counted from the least one.    *)

LEMMA RankLess ==
  ASSUME NEW S \in SUBSET Nat, IsFiniteSet(S), NEW b \in S, NEW c \in S, b < c
  PROVE  Cardinality({d \in S : d < b}) < Cardinality({d \in S : d < c})
<1> DEFINE B == {d \in S : d < b}
           C == {d \in S : d < c}
<1>1. C \in SUBSET S /\ B \in SUBSET C /\ b \in C /\ b \notin B
  <2>1. b \in Int /\ c \in Int /\ S \subseteq Int
    OBVIOUS
  <2>2. \A d \in S : d < b => d < c
    BY <2>1
  <2>3. ~(b < b)
    BY <2>1
  <2> QED BY <2>2, <2>3
<1> HIDE DEF B, C
<1>2. IsFiniteSet(C)
  BY <1>1, FS_Subset
<1>3. IsFiniteSet(B) /\ Cardinality(B) <= Cardinality(C) /\ Cardinality(C) # Cardinality(B)
  BY <1>1, <1>2, FS_Subset
<1>4. Cardinality(B) \in Nat /\ Cardinality(C) \in Nat
  BY <1>2, <1>3, FS_CardinalityType
<1>5. Cardinality(B) < Cardinality(C)
  BY <1>3, <1>4
<1> QED BY <1>5 DEF B, C

\* Every index below the size of the set has its element.
LEMMA RankExists ==
  ASSUME NEW S \in SUBSET Nat, IsFiniteSet(S), NEW k \in 0 .. Cardinality(S) - 1
  PROVE  \E c \in S : Cardinality({d \in S : d < c}) = k
<1> DEFINE T == 0 .. Cardinality(S) - 1
           f == [c \in S |-> Cardinality({d \in S : d < c})]
<1>1. Cardinality(S) \in Nat
  BY FS_CardinalityType
<1>2. IsFiniteSet(T) /\ Cardinality(T) = Cardinality(S)
  BY <1>1, FS_Interval
<1>3. ASSUME NEW c \in S PROVE f[c] \in T
  <2> DEFINE C == {d \in S : d < c}
  <2>1. C \in SUBSET S /\ c \notin C
    OBVIOUS
  <2> HIDE DEF C
  <2>2. IsFiniteSet(C) /\ Cardinality(C) <= Cardinality(S) /\ Cardinality(S) # Cardinality(C)
    BY <2>1, FS_Subset
  <2>3. Cardinality(C) \in Nat
    BY <2>2, FS_CardinalityType
  <2>4. Cardinality(C) \in T
    BY <1>1, <2>2, <2>3
  <2> QED BY <2>4 DEF C
<1>4. ASSUME NEW b \in S, NEW c \in S, f[b] = f[c] PROVE b = c
  <2>1. b \in Nat /\ c \in Nat /\ f[b] \in Nat /\ f[c] \in Nat
    BY <1>1, <1>3
  <2>2. b < c => f[b] < f[c]
    BY RankLess
  <2>3. c < b => f[c] < f[b]
    BY RankLess
  <2> QED BY <1>4, <2>1, <2>2, <2>3
<1>5. f \in [S -> T]
  BY <1>3
<1> HIDE DEF f, T
<1>6. f \in Injection(S, T)
  BY <1>4, <1>5 DEF Injection, IsInjective
<1>7. f \in Surjection(S, T)
  BY <1>2, <1>6, FS_Injection
<1>8. \E c \in S : f[c] = k
  BY <1>7 DEF Surjection, T
<1> QED BY <1>8 DEF f

\* ... as CHOOSE finds it.
LEMMA RankChosen ==
  ASSUME NEW S \in SUBSET Nat, IsFiniteSet(S), NEW k \in 0 .. Cardinality(S) - 1
  PROVE  LET c == CHOOSE c \in S : Cardinality({d \in S : d < c}) = k
         IN  c \in S /\ Cardinality({d \in S : d < c}) = k
BY RankExists

\* The powers of two up to 2^bits, which the provers do not know.
Doubling(bits) == 2^0 = 1 /\ \A i \in 0..bits-1 : 2^(i + 1) = 2 * 2^i

LEMMA PowersOfTwo ==
  ASSUME NEW bits \in Nat, Doubling(bits)
  PROVE  \A i \in 0..bits : 2^i \in Nat /\ 2^i > 0
<1> DEFINE Bad == {i \in 0..bits : ~(2^i \in Nat /\ 2^i > 0)}
<1>1. SUFFICES ASSUME Bad # {} PROVE FALSE
  OBVIOUS
<1>2. PICK i \in Bad : \A j \in Bad : i <= j
  <2>1. Bad \in SUBSET Nat
    OBVIOUS
  <2> QED BY <1>1, <2>1, LeastNat
<1>3. i # 0
  <2>1. 2^0 \in Nat /\ 2^0 > 0
    BY DEF Doubling
  <2> QED BY <1>2, <2>1
<1>4. i \in 1..bits /\ i - 1 \in 0..bits-1
  BY <1>2, <1>3
<1>5. 2^(i - 1) \in Nat /\ 2^(i - 1) > 0
  <2>1. i - 1 \notin Bad
    BY <1>2, <1>4
  <2> QED BY <1>4, <2>1
<1>6. 2^i = 2 * 2^(i - 1)
  <2>1. 2^((i - 1) + 1) = 2 * 2^(i - 1)
    BY <1>4 DEF Doubling
  <2>2. (i - 1) + 1 = i
    BY <1>4
  <2> QED BY <2>1, <2>2
<1>7. 2^i \in Nat /\ 2^i > 0
  BY <1>5, <1>6
<1> QED BY <1>2, <1>7

\* f[i] is the number the first i digits of b are, in binary.
Digits(b, n, f) ==
  f = [i \in 0..n |-> IF i = 0 THEN 0 ELSE f[i - 1] + b[i - 1] * 2^(i - 1)]

LEMMA DigitsExist ==
  ASSUME NEW b, NEW n \in Nat
  PROVE  \E f : Digits(b, n, f)
<1> DEFINE Bad == {k \in 0..n : ~ \E f : Digits(b, k, f)}
<1>1. SUFFICES ASSUME Bad # {} PROVE FALSE
  OBVIOUS
<1>2. PICK k \in Bad : \A j \in Bad : k <= j
  <2>1. Bad \in SUBSET Nat
    OBVIOUS
  <2> QED BY <1>1, <2>1, LeastNat
<1>3. k # 0
  <2> DEFINE f == [i \in 0..0 |-> 0]
  <2>1. f = [i \in 0..0 |-> IF i = 0 THEN 0 ELSE f[i - 1] + b[i - 1] * 2^(i - 1)]
    OBVIOUS
  <2> HIDE DEF f
  <2>2. Digits(b, 0, f)
    BY <2>1 DEF Digits
  <2> QED BY <1>2, <2>2
<1>4. k \in 1..n /\ k - 1 \in 0..n /\ ~(k <= k - 1)
  BY <1>2, <1>3
<1>5. PICK f : Digits(b, k - 1, f)
  BY <1>2, <1>4
<1> DEFINE g == [i \in 0..k |-> IF i = k THEN f[k - 1] + b[k - 1] * 2^(k - 1) ELSE f[i]]
<1>6. ASSUME NEW i \in 0..k
      PROVE  g[i] = IF i = 0 THEN 0 ELSE g[i - 1] + b[i - 1] * 2^(i - 1)
  <2>1. CASE i = 0
    <3>1. f[0] = 0
      <4>1. 0 \in 0..k-1
        BY <1>4
      <4> QED BY <1>5, <4>1 DEF Digits
    <3> QED BY <1>4, <2>1, <3>1
  <2>2. CASE i # 0
    <3>1. i - 1 \in 0..k-1 /\ i - 1 \in 0..k /\ i - 1 # k
      BY <1>4, <2>2
    <3>2. g[i - 1] = f[i - 1]
      BY <3>1
    <3>3. g[i] = f[i - 1] + b[i - 1] * 2^(i - 1)
      <4>1. CASE i = k
        BY <4>1
      <4>2. CASE i # k
        <5>1. i \in 0..k-1 /\ g[i] = f[i]
          BY <1>4, <4>2
        <5> QED BY <1>5, <2>2, <5>1 DEF Digits
      <4> QED BY <4>1, <4>2
    <3> QED BY <2>2, <3>2, <3>3
  <2> QED BY <2>1, <2>2
<1>7. g = [i \in 0..k |-> IF i = 0 THEN 0 ELSE g[i - 1] + b[i - 1] * 2^(i - 1)]
  <2>1. g = [i \in 0..k |-> g[i]]
    OBVIOUS
  <2> HIDE DEF g
  <2> QED BY <1>6, <2>1
<1> HIDE DEF g
<1>8. Digits(b, k, g)
  BY <1>7 DEF Digits
<1> QED BY <1>2, <1>8

\* A number written with n digits is below 2^n.
LEMMA DigitsBound ==
  ASSUME NEW bits \in Nat, Doubling(bits), NEW n \in 0..bits, NEW b \in [0..n-1 -> {0, 1}]
  PROVE  (CHOOSE f : Digits(b, n, f))[n] \in 0 .. 2^n - 1
<1> DEFINE f == CHOOSE f : Digits(b, n, f)
<1>1. n \in Nat
  OBVIOUS
<1>2. Digits(b, n, f)
  BY <1>1, DigitsExist
<1>3. SUFFICES f[n] \in 0 .. 2^n - 1
  OBVIOUS
<1> HIDE DEF f
<1> DEFINE Bad == {i \in 0..n : ~(f[i] \in 0 .. 2^i - 1)}
<1>4. SUFFICES ASSUME Bad # {} PROVE FALSE
  BY <1>1
<1>5. PICK i \in Bad : \A j \in Bad : i <= j
  <2>1. Bad \in SUBSET Nat
    BY <1>1
  <2> QED BY <1>4, <2>1, LeastNat
<1>6. \A j \in 0..n : f[j] = IF j = 0 THEN 0 ELSE f[j - 1] + b[j - 1] * 2^(j - 1)
  BY <1>2 DEF Digits
<1>7. i # 0
  <2>1. f[0] = 0
    BY <1>1, <1>6
  <2>2. 0 \in 0 .. 2^0 - 1
    BY DEF Doubling
  <2> QED BY <1>5, <2>1, <2>2
<1>8. i \in 1..n /\ i - 1 \in 0..n /\ i - 1 \in 0..bits-1 /\ i - 1 \in 0..n-1 /\ i - 1 \in 0..bits
  BY <1>1, <1>5, <1>7
<1>9. f[i - 1] \in 0 .. 2^(i - 1) - 1
  <2>1. i - 1 \notin Bad
    BY <1>5, <1>8
  <2> QED BY <1>8, <2>1
<1>10. 2^i = 2 * 2^(i - 1) /\ 2^(i - 1) \in Nat
  <2>1. 2^((i - 1) + 1) = 2 * 2^(i - 1)
    BY <1>8 DEF Doubling
  <2>2. (i - 1) + 1 = i
    BY <1>8
  <2> QED BY <1>8, <2>1, <2>2, PowersOfTwo
<1>11. f[i] = f[i - 1] + b[i - 1] * 2^(i - 1) /\ b[i - 1] \in {0, 1}
  BY <1>6, <1>7, <1>8
<1>12. f[i] \in 0 .. 2^i - 1
  <2> DEFINE p == 2^(i - 1)
             a == f[i - 1]
  <2>1. p \in Nat /\ a \in 0..p - 1 /\ f[i] = a + b[i - 1] * p /\ 2^i = 2 * p
    BY <1>9, <1>10, <1>11
  <2> HIDE DEF p, a
  <2>2. b[i - 1] * p \in 0..p
    BY <1>11, <2>1
  <2> QED BY <2>1, <2>2
<1> QED BY <1>5, <1>12

\* A fraction of a count is below it.
LEMMA ScaledBelow ==
  ASSUME NEW w \in Nat \ {0}, NEW count \in Nat \ {0}, NEW prn \in 0..w-1
  PROVE  (count * prn) \div w \in 0..count-1
<1> DEFINE x == count * prn
<1>2. x \in Nat /\ x < count * w
  <2>1. prn + 1 <= w /\ prn \in Nat
    OBVIOUS
  <2>2. count * (prn + 1) <= count * w
    BY <2>1
  <2>3. count * (prn + 1) = count * prn + count /\ count * prn \in Nat
    BY <2>1
  <2> QED BY <2>2, <2>3
<1> HIDE DEF x
<1>3. PICK q \in Int, r \in 0..w-1 : x = q * w + r /\ x \div w = q
  BY <1>2, Quotient
<1>4. q * w \in Int /\ x - q * w \in 0..w-1
  BY <1>3
<1>5. q >= 0
  <2>1. q < 0 => q * w <= -w
    BY <1>4
  <2> QED BY <1>2, <1>4, <2>1
<1>6. q < count
  <2>1. q >= count => q * w >= count * w
    BY <1>4
  <2>2. count * w \in Int /\ q * w \in Int
    BY <1>4
  <2> QED BY <1>2, <1>4, <2>1, <2>2
<1> QED BY <1>3, <1>5, <1>6 DEF x
=============================================================================
