---------------------------- MODULE Numbers_proof ----------------------------
(***************************************************************************)
(* The least and the greatest of sets of natural numbers, which the proofs  *)
(* about versions, numbers of writes and roles rest on; running sums, which *)
(* those about tallies and concatenated members do; and sets in order.      *)
(***************************************************************************)
EXTENDS Numbers, FiniteSetsExt, FiniteSetTheorems, WellFoundedInduction, TLAPS

(* A set of natural numbers has a least one.                                *)
LEMMA LeastOf ==
    ASSUME NEW S, S \subseteq Nat, S # {}
    PROVE  \E x \in S : \A y \in S : x <= y
<1> DEFINE R == {ss \in Nat \X Nat : ss[1] < ss[2]}
<1>1. IsWellFoundedOn(R, Nat)
  BY NatLessThanWellFounded DEF OpToRel
<1>2. \A x, y \in Nat : y < x => <<y, x>> \in R
  OBVIOUS
<1> HIDE DEF R
<1>3. PICK x \in S : \A y \in S : ~ (<<y, x>> \in R)
  BY <1>1, WFMin
<1>4. ASSUME NEW y \in S PROVE x <= y
  <2>1. x \in Nat /\ y \in Nat
    OBVIOUS
  <2>2. ~(y < x)
    BY <2>1, <1>2, <1>3, Zenon
  <2> QED BY <2>1, <2>2
<1> QED BY <1>4

(* And a greatest one if it is bounded.                                     *)
LEMMA GreatestOf ==
    ASSUME NEW S, S \subseteq Nat, S # {}, NEW m \in Nat, \A x \in S : x <= m
    PROVE  Max(S) \in S /\ \A x \in S : x <= Max(S)
<1> DEFINE U == {b \in Nat : \A x \in S : x <= b}
<1>1. PICK b \in U : \A c \in U : b <= c
  <2>1. U \subseteq Nat /\ m \in U
    OBVIOUS
  <2> QED BY <2>1, LeastOf
<1>2. b \in S
  <2>1. SUFFICES ASSUME b \notin S PROVE FALSE
    OBVIOUS
  <2>2. b - 1 \in Nat /\ \A x \in S : x <= b - 1
    <3>1. b \in Nat /\ \A x \in S : x \in Nat /\ x < b
      BY <1>1, <2>1
    <3>2. PICK x \in S : TRUE
      OBVIOUS
    <3> QED BY <3>1, <3>2
  <2>3. b - 1 \in U
    BY <2>2
  <2> QED BY <1>1, <2>3
<1>3. \E x \in S : \A y \in S : x >= y
  BY <1>1, <1>2
<1> QED BY <1>3 DEF Max

(* And Min() is the least.                                                  *)
LEMMA MinIsOne ==
    ASSUME NEW S, S \subseteq Nat, S # {}
    PROVE  Min(S) \in S /\ \A y \in S : Min(S) <= y
  BY LeastOf DEF Min

-----------------------------------------------------------------------------
(* Running sums.  SumTo is a recursive function: that there is one, and one *)
(* only, that meets its equation is shown by the least number for which     *)
(* there is none, or two that differ.                                       *)
Sums(u, f, n) == u = [j \in 0..n |-> IF j = 0 THEN 0 ELSE u[j - 1] + f[j]]

Numbered(f, n) == \A j \in 1..n : f[j] \in Nat

(* The partial sums of one number more.                                     *)
LEMMA SumsOneMore ==
    ASSUME NEW f, NEW n \in Nat, Numbered(f, n + 1), NEW u \in [0..n -> Nat], Sums(u, f, n)
    PROVE  \E v \in [0..(n + 1) -> Nat] : Sums(v, f, n + 1)
<1> DEFINE v == [j \in 0..(n + 1) |-> IF j = n + 1 THEN u[n] + f[n + 1] ELSE u[j]]
<1>1. f[n + 1] \in Nat /\ u[n] \in Nat
  BY DEF Numbered
<1>2. v \in [0..(n + 1) -> Nat]
  BY <1>1
<1>3. u[0] = 0 /\ \A j \in 1..n : u[j] = u[j - 1] + f[j]
  BY DEF Sums
<1>4. v[0] = 0 /\ v[n + 1] = v[n] + f[n + 1] /\ \A j \in 1..n : v[j] = v[j - 1] + f[j]
  BY <1>3
<1> HIDE DEF v
<1>5. ASSUME NEW j \in 0..(n + 1) PROVE v[j] = IF j = 0 THEN 0 ELSE v[j - 1] + f[j]
  <2>1. CASE j = 0
    BY <1>4, <2>1
  <2>2. CASE j = n + 1
    <3>1. j # 0 /\ j - 1 = n
      BY <2>2
    <3> QED BY <1>4, <2>2, <3>1
  <2>3. CASE j \in 1..n
    BY <1>4, <2>3
  <2> QED BY <2>1, <2>2, <2>3
<1>6. Sums(v, f, n + 1)
  BY <1>2, <1>5 DEF Sums
<1> QED BY <1>2, <1>6

(* Every list of numbers has its partial sums.                              *)
LEMMA SumsExist ==
    ASSUME NEW f, NEW n \in Nat, Numbered(f, n)
    PROVE  \E u \in [0..n -> Nat] : Sums(u, f, n)
<1> DEFINE Has(m) == \E u \in [0..m -> Nat] : Sums(u, f, m)
           S == {m \in 0..n : ~Has(m)}
<1>1. SUFFICES ASSUME S # {} PROVE FALSE
  <2> HIDE DEF Has
  <2>1. Has(n)
    BY <1>1
  <2> QED BY <2>1 DEF Has
<1> HIDE DEF Has
<1>2. PICK m \in S : \A i \in S : m <= i
  <2>1. S \subseteq Nat
    OBVIOUS
  <2> QED BY <1>1, <2>1, LeastOf
<1>3. CASE m = 0
  <2> DEFINE u == [j \in 0..0 |-> 0]
  <2>1. u \in [0..m -> Nat] /\ Sums(u, f, m)
    BY <1>3 DEF Sums
  <2> QED BY <1>2, <2>1 DEF Has
<1>4. CASE m # 0
  <2> DEFINE k == m - 1
  <2>1. k \in 0..n /\ k \in Nat /\ k + 1 = m /\ ~(m <= k) /\ m <= n
    BY <1>2, <1>4
  <2> HIDE DEF k
  <2>2. Has(k)
    BY <1>2, <2>1
  <2>3. PICK u \in [0..k -> Nat] : Sums(u, f, k)
    BY <2>2 DEF Has
  <2>4. Numbered(f, k + 1)
    BY <2>1 DEF Numbered
  <2>5. \E v \in [0..(k + 1) -> Nat] : Sums(v, f, k + 1)
    BY <2>1, <2>3, <2>4, SumsOneMore
  <2> QED BY <1>2, <2>1, <2>5 DEF Has
<1> QED BY <1>3, <1>4

(* And only those, as far as two lists agree.                               *)
SameUpTo(e, f, n) == \A j \in 1..n : e[j] = f[j]

(* Partial sums of lists that agree so far are the same.                    *)
LEMMA SumsAgree ==
    ASSUME NEW e, NEW f, NEW n \in Nat, NEW m \in Nat, n <= m, NEW u, NEW v,
           SameUpTo(e, f, n), Sums(u, e, n), Sums(v, f, m)
    PROVE  u[n] = v[n]
<1> DEFINE S == {j \in 0..n : u[j] # v[j]}
<1>1. SUFFICES ASSUME S # {} PROVE FALSE
  OBVIOUS
<1>2. S \subseteq Nat
  OBVIOUS
<1>3. PICK j \in S : \A i \in S : j <= i
  BY <1>1, <1>2, LeastOf
<1>4. \A i \in 0..n : /\ u[i] = IF i = 0 THEN 0 ELSE u[i - 1] + e[i]
                      /\ v[i] = IF i = 0 THEN 0 ELSE v[i - 1] + f[i]
  <2>1. \A i \in 0..n : i \in 0..m
    OBVIOUS
  <2> QED BY <2>1 DEF Sums
<1>5. j \in 0..n /\ u[j] # v[j]
  BY <1>3
<1>6. j # 0
  BY <1>4, <1>5
<1>7. j - 1 \in 0..n /\ ~(j <= j - 1)
  BY <1>5, <1>6
<1>8. u[j - 1] = v[j - 1]
  BY <1>3, <1>7
<1> QED BY <1>4, <1>5, <1>6, <1>8 DEF SameUpTo

(* The sum is the last of the partial sums.                                 *)
LEMMA SumToIs ==
    ASSUME NEW f, NEW n \in Nat, Numbered(f, n)
    PROVE  SumTo(f, n) \in Nat /\ \E u : Sums(u, f, n) /\ SumTo(f, n) = u[n]
<1> DEFINE c == CHOOSE u : u = [j \in 0..n |-> IF j = 0 THEN 0 ELSE u[j - 1] + f[j]]
<1>1. PICK u \in [0..n -> Nat] : Sums(u, f, n)
  BY SumsExist
<1>2. c = [j \in 0..n |-> IF j = 0 THEN 0 ELSE c[j - 1] + f[j]]
  BY <1>1 DEF Sums
<1>3. SumTo(f, n) = c[n]
  BY DEF SumTo
<1> HIDE DEF c
<1>4. Sums(c, f, n)
  BY <1>2 DEF Sums
<1>5. SameUpTo(f, f, n) /\ n <= n
  BY DEF SameUpTo
<1>6. c[n] = u[n]
  BY <1>1, <1>4, <1>5, SumsAgree
<1>7. u[n] \in Nat
  BY <1>1
<1> QED BY <1>3, <1>4, <1>6, <1>7

(* Of two lists that agree, the sums are one.                               *)
LEMMA SumToAlike ==
    ASSUME NEW e, NEW f, NEW n \in Nat, Numbered(e, n), SameUpTo(e, f, n)
    PROVE  SumTo(e, n) = SumTo(f, n)
<1>1. Numbered(f, n) /\ n <= n
  BY DEF Numbered, SameUpTo
<1>2. PICK u : Sums(u, e, n) /\ SumTo(e, n) = u[n]
  BY SumToIs
<1>3. PICK v : Sums(v, f, n) /\ SumTo(f, n) = v[n]
  BY <1>1, SumToIs
<1> QED BY <1>1, <1>2, <1>3, SumsAgree

(* The sum of nothing, and of one number more.                              *)
LEMMA SumToZero == \A f : SumTo(f, 0) = 0
<1> SUFFICES ASSUME NEW f PROVE SumTo(f, 0) = 0
  OBVIOUS
<1>1. Numbered(f, 0)
  BY DEF Numbered
<1>2. PICK u : Sums(u, f, 0) /\ SumTo(f, 0) = u[0]
  BY <1>1, SumToIs
<1> QED BY <1>2 DEF Sums

(* And of one number more.                                                  *)
LEMMA SumToNext ==
    ASSUME NEW f, NEW n \in Nat, Numbered(f, n + 1)
    PROVE  SumTo(f, n) \in Nat /\ SumTo(f, n + 1) = SumTo(f, n) + f[n + 1]
<1>1. Numbered(f, n) /\ SameUpTo(f, f, n) /\ n <= n + 1 /\ n + 1 \in Nat
  BY DEF Numbered, SameUpTo
<1>2. PICK u : Sums(u, f, n) /\ SumTo(f, n) = u[n]
  BY <1>1, SumToIs
<1>3. PICK v : Sums(v, f, n + 1) /\ SumTo(f, n + 1) = v[n + 1]
  BY <1>1, SumToIs
<1>4. u[n] = v[n]
  BY <1>1, <1>2, <1>3, SumsAgree
<1>5. v[n + 1] = v[n] + f[n + 1]
  BY <1>3 DEF Sums
<1> QED BY <1>1, <1>2, <1>3, <1>4, <1>5, SumToIs

(* The sums of a list grow.                                                 *)
LEMMA SumToGrows ==
    ASSUME NEW f, NEW n \in Nat, Numbered(f, n), NEW a \in 0..n, NEW b \in a..n
    PROVE  SumTo(f, a) <= SumTo(f, b)
<1> DEFINE S == {c \in a..n : ~(SumTo(f, a) <= SumTo(f, c))}
<1>1. SUFFICES ASSUME S # {} PROVE FALSE
  OBVIOUS
<1>2. \A c \in 0..n : Numbered(f, c) /\ SumTo(f, c) \in Nat
  <2>1. \A c \in 0..n : Numbered(f, c) /\ c \in Nat
    BY DEF Numbered
  <2> QED BY <2>1, SumToIs
<1>3. PICK c \in S : \A i \in S : c <= i
  <2>1. S \subseteq Nat
    OBVIOUS
  <2> QED BY <1>1, <2>1, LeastOf
<1>4. c # a
  BY <1>2, <1>3
<1> DEFINE d == c - 1
<1>5. d \in Nat /\ d \in a..n /\ d \in 0..n /\ c \in 0..n /\ a \in 0..n /\ d + 1 = c /\ ~(c <= d) /\ c \in 1..c
  BY <1>3, <1>4
<1> HIDE DEF d
<1>6. SumTo(f, a) <= SumTo(f, d)
  BY <1>3, <1>5
<1>7. SumTo(f, c) = SumTo(f, d) + f[c]
  BY <1>2, <1>5, SumToNext
<1>8. f[c] \in Nat
  BY <1>2, <1>5 DEF Numbered
<1>9. SumTo(f, a) <= SumTo(f, c)
  BY <1>2, <1>5, <1>6, <1>7, <1>8
<1> QED BY <1>3, <1>9

(* The sums of whole multiples are whole multiples.                         *)
Multiple(a, c) == \E e \in Nat : a = c * e

(* A multiple and another make one.                                         *)
LEMMA WholeSum ==
    ASSUME NEW c \in Nat, NEW a \in Nat, NEW b \in Nat, Multiple(a, c), Multiple(b, c)
    PROVE  Multiple(a + b, c)
<1>1. PICK d \in Nat : a = c * d
  BY DEF Multiple
<1>2. PICK e \in Nat : b = c * e
  BY DEF Multiple
<1>3. a + b = c * (d + e) /\ d + e \in Nat
  BY <1>1, <1>2, SMTT(30)
<1> QED BY <1>3 DEF Multiple

(* So does a list of them.                                                  *)
LEMMA SumToWhole ==
    ASSUME NEW f, NEW n \in Nat, Numbered(f, n), NEW c \in Nat, \A j \in 1..n : Multiple(f[j], c)
    PROVE  Multiple(SumTo(f, n), c)
<1> DEFINE S == {m \in 0..n : ~Multiple(SumTo(f, m), c)}
<1>1. SUFFICES ASSUME S # {} PROVE FALSE
  OBVIOUS
<1>2. PICK m \in S : \A i \in S : m <= i
  <2>1. S \subseteq Nat
    OBVIOUS
  <2> QED BY <1>1, <2>1, LeastOf
<1>3. m # 0
  <2>1. SumTo(f, 0) = c * 0 /\ 0 \in Nat
    BY SumToZero
  <2>2. Multiple(SumTo(f, 0), c)
    BY <2>1 DEF Multiple
  <2> QED BY <1>2, <2>2
<1> DEFINE k == m - 1
<1>4. k \in 0..n /\ k \in Nat /\ k + 1 = m /\ ~(m <= k) /\ m \in 1..n
  BY <1>2, <1>3
<1> HIDE DEF k
<1>5. Multiple(SumTo(f, k), c)
  BY <1>2, <1>4
<1>6. Numbered(f, k + 1) /\ f[m] \in Nat
  BY <1>4 DEF Numbered
<1>7. SumTo(f, k) \in Nat /\ SumTo(f, m) = SumTo(f, k) + f[m]
  BY <1>4, <1>6, SumToNext
<1>8. Multiple(SumTo(f, m), c)
  BY <1>4, <1>5, <1>6, <1>7, WholeSum
<1> QED BY <1>2, <1>8

-----------------------------------------------------------------------------
(* Sets in order: the element with n below it is the one that comes after   *)
(* them.                                                                    *)

(* Of two elements the lesser has fewer below it.                           *)
LEMMA BelowGrows ==
    ASSUME NEW S, S \subseteq Nat, IsFiniteSet(S), NEW x \in S, NEW y \in S, x < y
    PROVE  Cardinality(Below(S, x)) < Cardinality(Below(S, y))
<1>1. /\ Below(S, x) \subseteq S /\ Below(S, y) \subseteq S
      /\ x \notin Below(S, x) /\ Below(S, x) \cup {x} \subseteq Below(S, y)
  <2>1. x \in Nat /\ y \in Nat /\ \A z \in S : z \in Nat
    OBVIOUS
  <2>2. \A z \in Below(S, x) : z \in Below(S, y)
    BY <2>1 DEF Below
  <2>3. x \in Below(S, y) /\ x \notin Below(S, x)
    BY <2>1 DEF Below
  <2> QED BY <2>2, <2>3 DEF Below
<1>2. IsFiniteSet(Below(S, x)) /\ IsFiniteSet(Below(S, y))
  BY <1>1, FS_Subset
<1>3. /\ Cardinality(Below(S, x)) \in Nat /\ Cardinality(Below(S, y)) \in Nat
      /\ Cardinality(Below(S, x) \cup {x}) = Cardinality(Below(S, x)) + 1
  BY <1>1, <1>2, FS_CardinalityType, FS_AddElement
<1>4. Cardinality(Below(S, x) \cup {x}) <= Cardinality(Below(S, y))
  BY <1>1, <1>2, FS_Subset
<1> QED BY <1>3, <1>4

(* An element has as many below it as there are others at most.             *)
LEMMA BelowAll ==
    ASSUME NEW S, S \subseteq Nat, IsFiniteSet(S), NEW x \in S
    PROVE  Cardinality(Below(S, x)) + 1 \in 1..Cardinality(S)
<1>1. Below(S, x) \subseteq S /\ x \notin Below(S, x) /\ Below(S, x) \cup {x} \subseteq S
  BY DEF Below
<1>2. IsFiniteSet(Below(S, x))
  BY <1>1, FS_Subset
<1>3. /\ Cardinality(Below(S, x)) \in Nat /\ Cardinality(S) \in Nat
      /\ Cardinality(Below(S, x) \cup {x}) = Cardinality(Below(S, x)) + 1
  BY <1>1, <1>2, FS_CardinalityType, FS_AddElement
<1>4. Cardinality(Below(S, x) \cup {x}) <= Cardinality(S)
  BY <1>1, FS_Subset
<1> QED BY <1>3, <1>4

(* For every number there is room for, an element has as many below it.     *)
LEMMA BelowEvery ==
    ASSUME NEW S, S \subseteq Nat, IsFiniteSet(S), NEW i \in 1..Cardinality(S)
    PROVE  \E x \in S : Cardinality(Below(S, x)) + 1 = i
<1> DEFINE n == Cardinality(S)
           f == [x \in S |-> Cardinality(Below(S, x)) + 1]
<1>1. n \in Nat
  BY FS_CardinalityType
<1>2. f \in [S -> 1..n]
  BY BelowAll
<1>3. ASSUME NEW x \in S, NEW y \in S, Cardinality(Below(S, x)) = Cardinality(Below(S, y))
      PROVE  x = y
  <2>1. x \in Nat /\ y \in Nat
    OBVIOUS
  <2>2. Cardinality(Below(S, x)) \in Int
    BY FS_Subset, FS_CardinalityType DEF Below
  <2>3. ~(x < y) /\ ~(y < x)
    <3>1. x < y => Cardinality(Below(S, x)) < Cardinality(Below(S, y))
      BY BelowGrows
    <3>2. y < x => Cardinality(Below(S, y)) < Cardinality(Below(S, x))
      BY BelowGrows
    <3> QED BY <1>3, <2>2, <3>1, <3>2
  <2> QED BY <2>1, <2>3
<1>4. IsFiniteSet(1..n) /\ Cardinality(1..n) = n
  BY <1>1, FS_Interval
<1>5. f \in Injection(S, 1..n)
  <2>1. ASSUME NEW x \in S, NEW y \in S, f[x] = f[y] PROVE x = y
    <3>1. Cardinality(Below(S, x)) \in Int /\ Cardinality(Below(S, y)) \in Int
      BY FS_Subset, FS_CardinalityType DEF Below
    <3>2. Cardinality(Below(S, x)) + 1 = Cardinality(Below(S, y)) + 1
      BY <2>1
    <3>3. Cardinality(Below(S, x)) = Cardinality(Below(S, y))
      BY <3>1, <3>2
    <3> QED BY <1>3, <3>3
  <2> HIDE DEF f
  <2> QED BY <1>2, <2>1 DEF Injection, IsInjective
<1> HIDE DEF f
<1>6. f \in Surjection(S, 1..n)
  BY <1>4, <1>5, FS_Injection
<1>7. PICK x \in S : f[x] = i
  BY <1>6 DEF Surjection
<1> QED BY <1>7 DEF f

(* Ascending() goes through the set once, upwards.                          *)
LEMMA AscendingIs ==
    ASSUME NEW S, S \subseteq Nat, IsFiniteSet(S)
    PROVE  /\ Cardinality(S) \in Nat
           /\ Ascending(S) \in [1..Cardinality(S) -> S]
           /\ \A i, j \in 1..Cardinality(S) : i < j => Ascending(S)[i] < Ascending(S)[j]
           /\ \A x \in S : \E i \in 1..Cardinality(S) : Ascending(S)[i] = x
<1> DEFINE n == Cardinality(S)
           A == Ascending(S)
           b(x) == Cardinality(Below(S, x))
<1>1. n \in Nat /\ \A x \in S : b(x) \in Nat
  BY FS_CardinalityType, FS_Subset DEF Below
<1>2. ASSUME NEW i \in 1..n PROVE A[i] \in S /\ b(A[i]) = i - 1
  <2>0. PICK x \in S : b(x) + 1 = i
    BY BelowEvery
  <2>1. x \in S /\ b(x) = i - 1
    <3> HIDE DEF b
    <3> QED BY <1>1, <2>0
  <2>2. A[i] = CHOOSE y \in S : b(y) = i - 1
    BY DEF Ascending
  <2> HIDE DEF b, A
  <2> QED BY <2>1, <2>2
<1>3. A \in [1..n -> S]
  <2>1. A = [i \in 1..n |-> A[i]]
    BY DEF Ascending
  <2> HIDE DEF A
  <2> QED BY <1>2, <2>1
<1>4. ASSUME NEW i \in 1..n, NEW j \in 1..n, i < j PROVE A[i] < A[j]
  <2>1. A[i] \in S /\ A[j] \in S /\ b(A[i]) = i - 1 /\ b(A[j]) = j - 1
    BY <1>2
  <2>2. A[i] \in Nat /\ A[j] \in Nat
    BY <2>1
  <2> HIDE DEF A
  <2>3. A[j] < A[i] => b(A[j]) < b(A[i])
    BY <2>1, BelowGrows
  <2> HIDE DEF b
  <2>4. ~(A[j] < A[i]) /\ A[j] # A[i]
    BY <1>1, <1>4, <2>1, <2>3
  <2> QED BY <2>2, <2>4
<1>5. ASSUME NEW x \in S PROVE \E i \in 1..n : A[i] = x
  <2> DEFINE i == b(x) + 1
  <2>1. i \in 1..n
    BY BelowAll
  <2>2. A[i] \in S /\ b(A[i]) = b(x)
    BY <1>1, <1>2, <2>1
  <2> HIDE DEF i, A
  <2>3. (A[i] < x => b(A[i]) < b(x)) /\ (x < A[i] => b(x) < b(A[i]))
    BY <2>2, BelowGrows
  <2>4. A[i] \in Nat /\ x \in Nat
    BY <2>2
  <2> HIDE DEF b
  <2> QED BY <1>1, <2>1, <2>2, <2>3, <2>4
<1> QED BY <1>1, <1>3, <1>4, <1>5
=============================================================================
