-------------------------- MODULE RaidGeometry_proof --------------------------
(***************************************************************************)
(* Proofs about RaidGeometry for every level of md it reads, over any number *)
(* and size of members and with any chunk, and for LVM volumes of any        *)
(* segments: the bytes of the array are apart on the members, straight      *)
(* inside the pieces, and inside the members.                               *)
(* First of RaidStripe: in every stripe of a parity array, in any layout,   *)
(* the data chunks, P and Q are each on a member of their own.              *)
(***************************************************************************)
EXTENDS RaidGeometry, Numbers_proof

-----------------------------------------------------------------------------
(* Stripes.                                                                 *)

(* The remainder the layouts are made of lies below the modulus.            *)
LEMMA ModRange == \A x \in Int, m \in Nat \ {0} : x % m \in 0..(m - 1)
  BY SMTT(30)

(* It is the number itself below the modulus (the layouts' wrap, not taken). *)
LEMMA ModBelow == \A m \in Nat \ {0} : \A x \in 0..(m - 1) : x % m = x
  BY SMTT(30)

(* And once round, the number less the modulus (the layouts' wrap, taken).  *)
LEMMA ModOnce == \A m \in Nat \ {0} : \A x \in m..(2 * m - 1) : x % m = x - m
  BY SMTT(30)

(* Both, below twice the modulus, which the layouts' sums stay.             *)
LEMMA ModRound ==
    ASSUME NEW m \in Nat \ {0}, NEW x \in 0..(2 * m - 1)
    PROVE  x % m = IF x < m THEN x ELSE x - m
<1>1. CASE x < m
  BY <1>1, ModBelow
<1>2. CASE x >= m
  BY <1>2, ModOnce
<1> QED BY <1>1, <1>2

(* The member that is k + 1 after one of parity, round the array (After).   *)
LEMMA AfterRound ==
    ASSUME NEW m \in Nat \ {0}, NEW p \in 0..(m - 1), NEW j \in 0..(m - 1)
    PROVE  After(j, p, m) = IF p + 1 + j < m THEN p + 1 + j ELSE p + 1 + j - m
<1> DEFINE x == p + 1 + j
<1>1. x \in 0..(2 * m - 1)
  OBVIOUS
<1>2. After(j, p, m) = x % m
  BY DEF After
<1> HIDE DEF x
<1>3. x % m = IF x < m THEN x ELSE x - m
  BY <1>1, ModRound
<1> QED BY <1>2, <1>3 DEF x

(* The arrays of parity md defines a layout for, which _setup() accepts.    *)
Array5(arr) == arr.n \in Nat \ {0, 1} /\ (arr.level = "4" \/ (arr.level = "5" /\ arr.layout \in 0..5))
Array6(arr) == arr.n \in Nat \ {0, 1, 2} /\ arr.level = "6" /\ arr.layout \in (0..5) \cup (8..10) \cup (16..20)

(* The layouts of RAID4 and RAID5 in sums alone, without a remainder.       *)
Shape5(arr, s) ==
    LET n == arr.n
        pd == P5(arr, s)
    IN /\ n \in Nat /\ n > 1 /\ DataDisks(arr) = n - 1
       /\ pd \in 0..(n - 1)
       /\ \A j \in 0..(n - 2) :
             D5(arr, s, j) = IF arr.level = "5" /\ arr.layout \in {2, 3}
                           THEN IF pd + 1 + j < n THEN pd + 1 + j ELSE pd + 1 + j - n
                           ELSE IF j >= pd THEN j + 1 ELSE j

(* Which they are (stripe()).                                               *)
LEMMA ShapeOf5 ==
    ASSUME NEW arr, Array5(arr), NEW s \in Nat
    PROVE  Shape5(arr, s)
<1> DEFINE n == arr.n
<1>1. n \in Nat /\ n > 1 /\ (arr.level = "4" \/ (arr.level = "5" /\ arr.layout \in 0..5))
      /\ DataDisks(arr) = n - 1
  BY DEF Array5, DataDisks, Parities
<1>2. s % n \in 0..(n - 1)
  <2>1. s \in Int /\ n \in Nat \ {0}
    BY <1>1
  <2> QED BY <2>1, ModRange
<1>3. P5(arr, s) \in 0..(n - 1)
  <2>1. CASE arr.level = "4"
    BY <1>1, <2>1 DEF P5
  <2>2. CASE arr.level = "5"
    BY <1>1, <1>2, <2>2 DEF P5, LeftOf, RightOf
  <2> QED BY <1>1, <2>1, <2>2
<1>4. ASSUME NEW j \in 0..(n - 2), NEW p \in 0..(n - 1)
      PROVE  After(j, p, n) = IF p + 1 + j < n THEN p + 1 + j ELSE p + 1 + j - n
  BY <1>1, AfterRound
<1>5. ASSUME NEW j \in 0..(n - 2)
      PROVE  D5(arr, s, j) = IF arr.level = "5" /\ arr.layout \in {2, 3}
                          THEN IF P5(arr, s) + 1 + j < n THEN P5(arr, s) + 1 + j
                               ELSE P5(arr, s) + 1 + j - n
                          ELSE IF j >= P5(arr, s) THEN j + 1 ELSE j
  BY <1>3, <1>4 DEF D5, Past
<1> QED
  BY <1>1, <1>3, <1>5 DEF Shape5

(* Every chunk of a stripe and its parity, RAID4 and RAID5: on members of   *)
(* the array, none on that of the parity, no two on one (stripe()).         *)
THEOREM StripeApart5 ==
    ASSUME NEW arr, Array5(arr), NEW s \in Nat,
           NEW k \in 0..(DataDisks(arr) - 1)
    PROVE  /\ P5(arr, s) \in 0..(arr.n - 1)
           /\ D5(arr, s, k) \in 0..(arr.n - 1)
           /\ D5(arr, s, k) # P5(arr, s)
           /\ \A j \in 0..(DataDisks(arr) - 1) : j # k => D5(arr, s, j) # D5(arr, s, k)
<1>1. Shape5(arr, s)
  BY ShapeOf5
<1> QED BY <1>1 DEF Shape5

(* And every member but that of the parity has one of the chunks.           *)
THEOREM StripeFull5 ==
    ASSUME NEW arr, Array5(arr), NEW s \in Nat,
           NEW r \in 0..(arr.n - 1), r # P5(arr, s)
    PROVE  \E k \in 0..(DataDisks(arr) - 1) : D5(arr, s, k) = r
<1>1. Shape5(arr, s)
  BY ShapeOf5
<1> USE DEF Shape5
<1> DEFINE pd == P5(arr, s)
           n == arr.n
<1> SUFFICES \E k \in 0..(n - 2) : D5(arr, s, k) = r
  BY <1>1
<1>2. CASE arr.level = "5" /\ arr.layout \in {2, 3}
  <2>1. r > pd => r - pd - 1 \in 0..(n - 2) /\ D5(arr, s, r - pd - 1) = r
    BY <1>1, <1>2
  <2>2. r < pd => r - pd - 1 + n \in 0..(n - 2) /\ D5(arr, s, r - pd - 1 + n) = r
    BY <1>1, <1>2
  <2> QED BY <1>1, <2>1, <2>2
<1>3. CASE ~(arr.level = "5" /\ arr.layout \in {2, 3})
  <2> DEFINE k == IF r > pd THEN r - 1 ELSE r
  <2>1. k \in 0..(n - 2) /\ D5(arr, s, k) = r
    BY <1>1, <1>3
  <2> QED BY <2>1
<1> QED BY <1>2, <1>3

(* The layouts of RAID6 in sums alone.                                      *)
Shape6(arr, s) ==
    LET n == arr.n
        pd == P6(arr, s)
        qd == Q6(arr, s)
    IN /\ n \in Nat /\ n > 2 /\ DataDisks(arr) = n - 2
       /\ pd \in 0..(n - 1)
       /\ arr.layout \in {5, 16, 17, 18, 19, 20} => pd <= n - 2
       /\ arr.layout \in {4, 20} => pd = 0
       /\ arr.layout = 5 => pd = n - 2
       /\ arr.layout \in {0, 1, 2, 3, 4, 5, 8, 9} => qd = IF pd = n - 1 THEN 0 ELSE pd + 1
       /\ arr.layout = 10 => qd = IF pd = 0 THEN n - 1 ELSE pd - 1
       /\ arr.layout \in {16, 17, 18, 19, 20} => qd = n - 1
       /\ \A j \in 0..(n - 3) :
             /\ arr.layout \in {0, 1, 8, 9} =>
                   D6(arr, s, j) = IF pd = n - 1 THEN j + 1 ELSE IF j >= pd THEN j + 2 ELSE j
             /\ arr.layout \in {2, 3} =>
                   D6(arr, s, j) = IF pd + 2 + j < n THEN pd + 2 + j ELSE pd + 2 + j - n
             /\ arr.layout = 4 => D6(arr, s, j) = j + 2
             /\ arr.layout = 5 => D6(arr, s, j) = j
             /\ arr.layout = 10 =>
                   D6(arr, s, j) = IF pd + 1 + j < n THEN pd + 1 + j ELSE pd + 1 + j - n
             /\ arr.layout \in {16, 17, 20} => D6(arr, s, j) = IF j >= pd THEN j + 1 ELSE j
             /\ arr.layout \in {18, 19} =>
                   D6(arr, s, j) = IF pd + 1 + j < n - 1 THEN pd + 1 + j ELSE pd + 1 + j - (n - 1)

(* Which they are (stripe()).                                               *)
LEMMA ShapeOf6 ==
    ASSUME NEW arr, Array6(arr), NEW s \in Nat
    PROVE  Shape6(arr, s)
<1> DEFINE n == arr.n
<1>1. n \in Nat /\ n > 2 /\ arr.level = "6" /\ arr.layout \in (0..5) \cup (8..10) \cup (16..20)
      /\ DataDisks(arr) = n - 2
  BY DEF Array6, DataDisks, Parities
<1>2. s % n \in 0..(n - 1) /\ (s + 1) % n \in 0..(n - 1) /\ s % (n - 1) \in 0..(n - 2)
  <2>1. s \in Int /\ s + 1 \in Int /\ n \in Nat \ {0} /\ n - 1 \in Nat \ {0}
    BY <1>1
  <2>2. s % n \in 0..(n - 1) /\ (s + 1) % n \in 0..(n - 1)
    BY <2>1, ModRange
  <2>3. s % (n - 1) \in 0..((n - 1) - 1)
    BY <2>1, ModRange
  <2> QED BY <1>1, <2>2, <2>3
<1>3. ASSUME NEW m \in {n, n - 1}, NEW x \in 0..(2 * m - 1)
      PROVE  x % m = IF x < m THEN x ELSE x - m
  <2>1. m \in Nat \ {0}
    BY <1>1
  <2>2. CASE x < m
    BY <2>1, <2>2, ModBelow
  <2>3. CASE x >= m
    <3>1. x \in m..(2 * m - 1)
      BY <2>1, <2>3
    <3>2. x % m = x - m
      BY <2>1, <3>1, ModOnce
    <3> QED BY <2>1, <2>3, <3>2
  <2> QED BY <2>1, <2>2, <2>3
<1>4. P6(arr, s) \in 0..(n - 1)
      /\ (arr.layout \in {5, 16, 17, 18, 19, 20} => P6(arr, s) <= n - 2)
      /\ (arr.layout \in {4, 20} => P6(arr, s) = 0)
      /\ (arr.layout = 5 => P6(arr, s) = n - 2)
  BY <1>1, <1>2 DEF P6, LeftOf, RightOf
<1> DEFINE pd == P6(arr, s)
<1>5. /\ arr.layout \in {0, 1, 2, 3, 4, 5, 8, 9} =>
            Q6(arr, s) = IF pd = n - 1 THEN 0 ELSE pd + 1
      /\ arr.layout = 10 => Q6(arr, s) = IF pd = 0 THEN n - 1 ELSE pd - 1
      /\ arr.layout \in {16, 17, 18, 19, 20} => Q6(arr, s) = n - 1
  <2>1. (pd + 1) % n = IF pd + 1 < n THEN pd + 1 ELSE pd + 1 - n
    BY <1>1, <1>3, <1>4
  <2>2. arr.layout = 10 => Q6(arr, s) = IF pd = 0 THEN n - 1 ELSE pd - 1
    <3> DEFINE x == pd + n - 1
    <3>1. x \in 0..(2 * n - 1) /\ n \in Nat \ {0}
      BY <1>1, <1>4
    <3>2. arr.layout = 10 => Q6(arr, s) = x % n
      BY DEF Q6
    <3> HIDE DEF x
    <3>3. x % n = IF x < n THEN x ELSE x - n
      BY <3>1, ModRound
    <3>4. arr.layout = 10 => Q6(arr, s) = IF x < n THEN x ELSE x - n
      BY <3>2, <3>3
    <3> QED BY <1>1, <1>4, <3>4 DEF x
  <2> QED BY <1>1, <1>4, <2>1, <2>2 DEF Q6
<1>6. ASSUME NEW j \in 0..(n - 3)
      PROVE  /\ arr.layout \in {0, 1, 8, 9} =>
                   D6(arr, s, j) = IF pd = n - 1 THEN j + 1 ELSE IF j >= pd THEN j + 2 ELSE j
             /\ arr.layout \in {2, 3} =>
                   D6(arr, s, j) = IF pd + 2 + j < n THEN pd + 2 + j ELSE pd + 2 + j - n
             /\ arr.layout = 4 => D6(arr, s, j) = j + 2
             /\ arr.layout = 5 => D6(arr, s, j) = j
             /\ arr.layout = 10 =>
                   D6(arr, s, j) = IF pd + 1 + j < n THEN pd + 1 + j ELSE pd + 1 + j - n
             /\ arr.layout \in {16, 17, 20} => D6(arr, s, j) = IF j >= pd THEN j + 1 ELSE j
             /\ arr.layout \in {18, 19} =>
                   D6(arr, s, j) = IF pd + 1 + j < n - 1 THEN pd + 1 + j ELSE pd + 1 + j - (n - 1)
  <2>1. (pd + 2 + j) % n = IF pd + 2 + j < n THEN pd + 2 + j ELSE pd + 2 + j - n
    <3>1. pd + 2 + j \in 0..(2 * n - 1) /\ n \in {n, n - 1}
      BY <1>1, <1>4
    <3> QED BY <1>1, <1>4, <3>1, <1>3
  <2>2. After(j, pd, n) = IF pd + 1 + j < n THEN pd + 1 + j ELSE pd + 1 + j - n
    <3>1. pd + 1 + j \in 0..(2 * n - 1) /\ n \in {n, n - 1}
      BY <1>1, <1>4
    <3> QED BY <1>1, <1>4, <3>1, <1>3 DEF After
  <2>3. pd <= n - 2 => After(j, pd, n - 1) =
            IF pd + 1 + j < n - 1 THEN pd + 1 + j ELSE pd + 1 + j - (n - 1)
    <3>1. n - 1 \in {n, n - 1}
      OBVIOUS
    <3>2. ASSUME pd <= n - 2
          PROVE  pd + 1 + j \in 0..(2 * (n - 1) - 1)
      BY <1>1, <1>4, <3>2
    <3> QED BY <1>1, <1>4, <3>1, <3>2, <1>3 DEF After
  <2> QED BY <1>1, <1>4, <2>1, <2>2, <2>3 DEF D6, Past
<1> QED
  BY <1>1, <1>4, <1>5, <1>6 DEF Shape6

(* The same for RAID6 with its P and Q, in every layout (stripe()).         *)
THEOREM StripeApart6 ==
    ASSUME NEW arr, Array6(arr), NEW s \in Nat,
           NEW k \in 0..(DataDisks(arr) - 1)
    PROVE  /\ P6(arr, s) \in 0..(arr.n - 1)
           /\ Q6(arr, s) \in 0..(arr.n - 1)
           /\ P6(arr, s) # Q6(arr, s)
           /\ D6(arr, s, k) \in 0..(arr.n - 1)
           /\ D6(arr, s, k) \notin {P6(arr, s), Q6(arr, s)}
           /\ \A j \in 0..(DataDisks(arr) - 1) : j # k => D6(arr, s, j) # D6(arr, s, k)
<1>1. arr.layout \in (0..5) \cup (8..10) \cup (16..20) /\ Shape6(arr, s)
  BY ShapeOf6 DEF Array6
<1> USE DEF Shape6
<1>2. CASE arr.layout \in {0, 1, 8, 9}
  BY <1>1, <1>2
<1>3. CASE arr.layout \in {2, 3}
  BY <1>1, <1>3
<1>4. CASE arr.layout \in {4, 5}
  BY <1>1, <1>4
<1>5. CASE arr.layout \in {10}
  BY <1>1, <1>5
<1>6. CASE arr.layout \in {16, 17, 20}
  BY <1>1, <1>6
<1>7. CASE arr.layout \in {18, 19}
  BY <1>1, <1>7
<1> QED
  BY <1>1, <1>2, <1>3, <1>4, <1>5, <1>6, <1>7

(* And every member but those of P and Q has one of the chunks.             *)
THEOREM StripeFull6 ==
    ASSUME NEW arr, Array6(arr), NEW s \in Nat,
           NEW r \in 0..(arr.n - 1), r \notin {P6(arr, s), Q6(arr, s)}
    PROVE  \E k \in 0..(DataDisks(arr) - 1) : D6(arr, s, k) = r
<1>1. arr.layout \in (0..5) \cup (8..10) \cup (16..20) /\ Shape6(arr, s)
  BY ShapeOf6 DEF Array6
<1> USE DEF Shape6
<1> DEFINE pd == P6(arr, s)
           n == arr.n
<1> SUFFICES \E k \in 0..(n - 3) : D6(arr, s, k) = r
  BY <1>1
<1>2. CASE arr.layout \in {0, 1, 8, 9}
  <2> DEFINE k == IF pd = n - 1 THEN r - 1 ELSE IF r > pd THEN r - 2 ELSE r
  <2>1. k \in 0..(n - 3) /\ D6(arr, s, k) = r
    BY <1>1, <1>2
  <2> QED BY <2>1
<1>3. CASE arr.layout \in {2, 3}
  <2>1. r > pd + 1 => r - pd - 2 \in 0..(n - 3) /\ D6(arr, s, r - pd - 2) = r
    BY <1>1, <1>3
  <2>2. r < pd => r - pd - 2 + n \in 0..(n - 3) /\ D6(arr, s, r - pd - 2 + n) = r
    BY <1>1, <1>3, SMTT(60)
  <2>3. n \in Nat /\ pd \in 0..(n - 1) /\ r \in 0..(n - 1) /\ r # pd
    BY <1>1
  <2>4. pd # n - 1 => r # pd + 1
    BY <1>1, <1>3
  <2>5. r > pd + 1 \/ r < pd
    BY <2>3, <2>4
  <2> QED BY <2>1, <2>2, <2>5
<1>4. CASE arr.layout \in {4, 5}
  <2> DEFINE k == IF arr.layout = 4 THEN r - 2 ELSE r
  <2>1. k \in 0..(n - 3) /\ D6(arr, s, k) = r
    BY <1>1, <1>4
  <2> QED BY <2>1
<1>5. CASE arr.layout = 10
  <2>1. r > pd => r - pd - 1 \in 0..(n - 3) /\ D6(arr, s, r - pd - 1) = r
    BY <1>1, <1>5
  <2>2. r < pd => r - pd - 1 + n \in 0..(n - 3) /\ D6(arr, s, r - pd - 1 + n) = r
    BY <1>1, <1>5
  <2> QED BY <1>1, <2>1, <2>2
<1>6. CASE arr.layout \in {16, 17, 20}
  <2> DEFINE k == IF r > pd THEN r - 1 ELSE r
  <2>1. k \in 0..(n - 3) /\ D6(arr, s, k) = r
    BY <1>1, <1>6
  <2> QED BY <2>1
<1>7. CASE arr.layout \in {18, 19}
  <2>1. r > pd => r - pd - 1 \in 0..(n - 3) /\ D6(arr, s, r - pd - 1) = r
    BY <1>1, <1>7
  <2>2. r < pd => r - pd - 1 + (n - 1) \in 0..(n - 3) /\ D6(arr, s, r - pd - 1 + (n - 1)) = r
    BY <1>1, <1>7
  <2> QED BY <1>1, <2>1, <2>2
<1> QED
  BY <1>1, <1>2, <1>3, <1>4, <1>5, <1>6, <1>7

-----------------------------------------------------------------------------
(* Quotients, which the geometry is made of.                                *)

(* The lesser of a piece's run and what is left of the array (_read).       *)
LEMMA MinTwo == \A a, b \in Int : Min({a, b}) = IF a <= b THEN a ELSE b
  BY DEF Min

(* A number is its quotient and its remainder.                              *)
LEMMA DivMod ==
    ASSUME NEW a \in Nat, NEW b \in Nat \ {0}
    PROVE  /\ a \div b \in Nat /\ a % b \in 0..(b - 1)
           /\ a = b * (a \div b) + (a % b)
  BY SMTT(60)

(* Which are the only ones it is made of.                                   *)
LEMMA DivModUnique ==
    ASSUME NEW q \in Nat, NEW b \in Nat \ {0}, NEW r \in 0..(b - 1)
    PROVE  (b * q + r) \div b = q /\ (b * q + r) % b = r
<1>1. b * q + r \in Nat
  BY SMTT(30)
<1> QED BY <1>1, SMTT(60)

(* A row of c after another ends at most where the last of b rows does.     *)
LEMMA Product ==
    ASSUME NEW a \in Nat, NEW b \in Nat, NEW c \in Nat, a < b
    PROVE  a * c + c <= b * c
<1> DEFINE d == b - 1 - a
<1>1. d \in Nat /\ b = a + 1 + d
  OBVIOUS
<1> HIDE DEF d
<1>2. (a + 1 + d) * c = a * c + c + d * c /\ d * c >= 0
  BY <1>1, SMTT(60)
<1> QED BY <1>1, <1>2

(* The products the geometry is made of are natural numbers.                *)
LEMMA ProductNat == \A a, b \in Nat : a * b \in Nat /\ a * b = b * a
  BY SMTT(30)

(* Of whole rows, the quotient is their number.                              *)
LEMMA DivExact ==
    ASSUME NEW q \in Nat, NEW b \in Nat \ {0}
    PROVE  (q * b) \div b = q /\ (q * b) % b = 0
<1>1. (b * q + 0) \div b = q /\ (b * q + 0) % b = 0
  BY DivModUnique
<1>2. b * q + 0 = q * b
  BY ProductNat
<1> QED BY <1>1, <1>2

(* Below a quotient times its divisor, the quotient is below.               *)
LEMMA DivBelow ==
    ASSUME NEW a \in Nat, NEW b \in Nat \ {0}, NEW m \in Nat, a < m * b
    PROVE  a \div b < m
<1> DEFINE q == a \div b
<1>1. q \in Nat /\ a % b \in 0..(b - 1) /\ a = b * q + (a % b)
  BY DivMod
<1> HIDE DEF q
<1>2. SUFFICES ASSUME ~(q < m) PROVE FALSE
  BY DEF q
<1>3. m * b <= q * b
  <2>1. CASE q = m
    BY <2>1
  <2>2. CASE q > m
    BY <1>1, <2>2, Product, ProductNat
  <2> QED BY <1>1, <1>2, <2>1, <2>2
<1>4. b * q = q * b /\ q * b \in Nat /\ m * b \in Nat
  BY <1>1, ProductNat
<1> QED BY <1>1, <1>3, <1>4

-----------------------------------------------------------------------------
(* RAID10 in near positions: those of the copies of a chunk side by side,   *)
(* row after row over the members.                                          *)

Array10(x) ==
    /\ x.level = "10"
    /\ x.n \in Nat \ {0} /\ x.chunk \in Nat \ {0} /\ x.dev \in Nat
    /\ x.layout.near \in Nat \ {0} /\ x.layout.far \in Nat \ {0}
    /\ x.layout.near * x.layout.far <= x.n
    /\ x.layout.offset \in BOOLEAN
    /\ x.layout.offset => x.n % x.layout.near = 0

(* The rows of near copies on a member, in each of its far copies.          *)
Rows(x) == (x.dev \div x.chunk) \div x.layout.far

(* Far copy f of the chunk in near position l, and byte w of it.            *)
RowOf(x, l, f) == IF x.layout.offset THEN (l \div x.n) * x.layout.far + f
                  ELSE (l \div x.n) + f * Rows(x)
RoleOf(x, l, f) == ((l % x.n) + f * x.layout.near) % x.n
CopyAt(x, l, f, w) == [role |-> RoleOf(x, l, f), at |-> w + RowOf(x, l, f) * x.chunk]

(* The far copies are a stride of whole rows apart (copies10, _setup).      *)
LEMMA StrideOf ==
    ASSUME NEW x, Array10(x)
    PROVE  Stride(x) = IF x.layout.offset THEN x.chunk ELSE Rows(x) * x.chunk
<1> DEFINE n == x.n
           near == x.layout.near
           far == x.layout.far
           d == Rows(x)
           chunks == (d * n) \div near
           e == (d * n) % near
<1>1. /\ n \in Nat \ {0} /\ near \in Nat \ {0} /\ far \in Nat \ {0} /\ near * far <= n
      /\ x.dev \in Nat /\ x.chunk \in Nat \ {0}
  BY DEF Array10
<1>2. d \in Nat
  BY <1>1, DivMod DEF Rows
<1>3. chunks \in Nat /\ e \in 0..(near - 1) /\ d * n = near * chunks + e
  BY <1>1, <1>2, ProductNat, DivMod
<1>4. (chunks * near) * far + n - 1 = n * (d * far) + (n - 1 - e * far)
  <2> HIDE DEF chunks, e, d
  <2>1. (chunks * near) * far = (d * n - e) * far
    BY <1>1, <1>2, <1>3, ProductNat
  <2>2. (d * n - e) * far = n * (d * far) - e * far
    BY <1>1, <1>2, <1>3, SMTT(60)
  <2>3. e * far \in Nat /\ n * (d * far) \in Nat
    BY <1>1, <1>2, <1>3, ProductNat
  <2> QED BY <1>1, <2>1, <2>2, <2>3
<1>5. n - 1 - e * far \in 0..(n - 1)
  <2> HIDE DEF e
  <2>1. e * far + far <= near * far
    BY <1>1, <1>3, Product
  <2>2. e * far \in Nat
    BY <1>1, <1>3, ProductNat
  <2> QED BY <1>1, <2>1, <2>2
<1>6. ((chunks * near) * far + n - 1) \div n = d * far
  <2> DEFINE r == n - 1 - e * far
  <2>1. r \in 0..(n - 1)
    BY <1>5
  <2> HIDE DEF r, chunks, d, e
  <2>2. (n * (d * far) + r) \div n = d * far
    BY <1>1, <1>2, <2>1, ProductNat, DivModUnique
  <2> QED BY <1>4, <2>2 DEF r
<1>7. (d * far) \div far = d
  BY <1>1, <1>2, DivExact
<1>8. Stride(x) = IF x.layout.offset THEN x.chunk
                  ELSE ((((chunks * near) * far + n - 1) \div n) \div far) * x.chunk
  BY DEF Stride, Rows
<1> QED BY <1>6, <1>7, <1>8
(* Copies10 is the far copies of its near positions.                        *)
LEMMA CopiesAre ==
    ASSUME NEW x, Array10(x), NEW y \in Nat
    PROVE  Copies10(x, y) =
             {CopyAt(x, (y \div x.chunk) * x.layout.near + i, f, y % x.chunk) :
                 i \in 0..(x.layout.near - 1), f \in 0..(x.layout.far - 1)}
<1> DEFINE n == x.n
           near == x.layout.near
           far == x.layout.far
           w == y % x.chunk
           c == (y \div x.chunk) * near
<1>1. /\ n \in Nat \ {0} /\ near \in Nat \ {0} /\ far \in Nat \ {0} /\ near * far <= n
      /\ x.dev \in Nat /\ x.chunk \in Nat \ {0} /\ near <= n
  <2>1. near <= near * far
    <3>1. near * 1 <= near * far
      BY ProductNat, Product DEF Array10
    <3> QED BY <3>1 DEF Array10
  <2> QED BY <2>1 DEF Array10
<1>2. w \in 0..(x.chunk - 1) /\ c \in Nat
  BY <1>1, DivMod, ProductNat
<1>3. c \div n \in Nat /\ c % n \in 0..(n - 1) /\ c = n * (c \div n) + (c % n)
  BY <1>1, <1>2, DivMod
<1>4. ASSUME NEW f \in 0..(far - 1)
      PROVE  f * near \in 0..(n - near)
  <2>1. near \in Nat /\ far \in Nat /\ f \in Nat /\ f < far /\ near * far <= n
    BY <1>1
  <2> HIDE DEF near, far, n
  <2>2. f * near + near <= far * near
    BY <2>1, Product
  <2>3. far * near = near * far /\ f * near \in Nat /\ far * near \in Nat
    BY <2>1, ProductNat
  <2> QED BY <1>1, <2>1, <2>2, <2>3
<1>5. ASSUME NEW i \in 0..(near - 1), (c % n) + i < n
      PROVE  (c + i) \div n = c \div n /\ (c + i) % n = (c % n) + i
  <2> DEFINE q == c \div n
             r == (c % n) + i
  <2>1. q \in Nat /\ r \in 0..(n - 1) /\ c + i = n * q + r
    BY <1>1, <1>3, <1>5
  <2> HIDE DEF q, r
  <2>2. (n * q + r) \div n = q /\ (n * q + r) % n = r
    BY <1>1, <2>1, DivModUnique
  <2> QED BY <2>1, <2>2 DEF q, r
<1>6. ASSUME NEW i \in 0..(near - 1), (c % n) + i >= n
      PROVE  (c + i) \div n = (c \div n) + 1 /\ (c + i) % n = (c % n) + i - n
  <2> DEFINE q == (c \div n) + 1
             r == (c % n) + i - n
  <2>1. r \in 0..(n - 1) /\ q \in Nat
    BY <1>1, <1>3, <1>6
  <2>2. c + i = n * q + r
    <3> DEFINE v == c \div n
    <3>1. v \in Nat /\ c = n * v + (c % n)
      BY <1>3
    <3>2. n * (v + 1) = n * v + n /\ n * v \in Nat
      <4> HIDE DEF v
      <4> QED BY <1>1, <3>1, SMTT(30)
    <3>3. q = v + 1 /\ r = (c % n) + i - n
      OBVIOUS
    <3> HIDE DEF v, q, r, c
    <3>4. n * q = n * v + n
      BY <3>2, <3>3
    <3>5. c \in Nat /\ c % n \in Nat /\ n \in Nat /\ i \in Nat
      BY <1>1, <1>2, <1>3
    <3> HIDE DEF n
    <3> QED BY <3>1, <3>2, <3>3, <3>4, <3>5
  <2> HIDE DEF q, r
  <2>3. (n * q + r) \div n = q /\ (n * q + r) % n = r
    BY <1>1, <2>1, DivModUnique
  <2> QED BY <2>2, <2>3 DEF q, r
<1>7. ASSUME NEW i \in 0..(near - 1), x.layout.offset
      PROVE  (c % n) + i < n
  <2> DEFINE m == n \div near
             k == y \div x.chunk
             q == c \div n
             z == k - m * q
  <2>1. m \in Nat /\ n = near * m
    <3>1. n % near = 0
      BY <1>7 DEF Array10
    <3>2. m \in Nat /\ n = near * m + (n % near)
      BY <1>1, DivMod
    <3>3. near * m \in Nat
      BY <1>1, <3>2, ProductNat
    <3> HIDE DEF m
    <3> QED BY <3>1, <3>2, <3>3
  <2>2. k \in Nat /\ q \in Nat /\ c = k * near
    BY <1>1, <1>3, DivMod
  <2>3. c % n = near * z
    <3>1. c = n * q + (c % n) /\ c % n \in 0..(n - 1)
      BY <1>3
    <3> HIDE DEF m, k, q, c
    <3>2. (near * m) * q = near * (m * q) /\ near * (k - m * q) = near * k - near * (m * q)
          /\ near * k = k * near /\ n * q = (near * m) * q
      BY <1>1, <2>1, <2>2, SMTT(60)
    <3> QED BY <3>1, <3>2, <1>1, <2>1, <2>2
  <2>4. c % n \in 0..(n - 1)
    BY <1>3
  <2>5. z \in Int
    <3> HIDE DEF m, k, q
    <3> QED BY <2>1, <2>2
  <2> HIDE DEF m, k, q, z, c
  <2>6. near * z + near <= near * m
    <3>1. SUFFICES ASSUME ~(z < m) PROVE FALSE
      <4>1. ASSUME z < m, z < 0
            PROVE  near * z < 0
        BY <1>1, <2>5, <4>1, SMTT(60)
      <4>2. ASSUME z < m, z >= 0
            PROVE  z * near + near <= m * near /\ z * near = near * z /\ m * near = near * m
        BY <1>1, <2>1, <2>5, <4>2, Product, ProductNat
      <4> QED BY <4>1, <4>2, <2>3, <2>4, <2>5, <1>1, <2>1
    <3>2. m * near <= z * near
      <4>1. m = z \/ (m < z /\ m * near + near <= z * near)
        BY <3>1, <2>1, <2>5, <1>1, Product
      <4> QED BY <4>1, <1>1, <2>1, <2>5, ProductNat
    <3> QED BY <3>2, <2>1, <2>3, <2>4, <2>5, <1>1, ProductNat
  <2> QED BY <1>1, <2>1, <2>3, <2>4, <2>6
<1> DEFINE old(i, f) ==
              LET dev == (c % n) + i
              IN [role |-> (dev + f * near) % n,
                  at |-> w + ((c \div n) * (IF x.layout.offset THEN far ELSE 1)) * x.chunk
                         + (IF dev >= n THEN x.chunk ELSE 0) + f * Stride(x)]
           new(i, f) == CopyAt(x, c + i, f, w)
<1>8. ASSUME NEW i \in 0..(near - 1), NEW f \in 0..(far - 1)
      PROVE  old(i, f) = new(i, f)
  <2> DEFINE row == c \div n
             dev == (c % n) + i
  <2>1. (dev + f * near) % n = RoleOf(x, c + i, f)
    <3>1. CASE dev < n
      BY <1>5, <3>1 DEF RoleOf
    <3>2. CASE dev >= n
      <4> DEFINE u == dev + f * near
      <4>1. u \in n..(2 * n - 1) /\ u - n \in 0..(n - 1)
        BY <1>1, <1>3, <1>4, <3>2
      <4>2. ((c + i) % n) + f * near = u - n
        BY <1>1, <1>3, <1>4, <1>6, <3>2
      <4> HIDE DEF u
      <4>3. u % n = u - n /\ (u - n) % n = u - n
        BY <1>1, <4>1, ModOnce, ModBelow
      <4> QED BY <4>2, <4>3 DEF RoleOf, u
    <3> QED BY <1>1, <1>3, <3>1, <3>2
  <2>2. w + (row * (IF x.layout.offset THEN far ELSE 1)) * x.chunk
          + (IF dev >= n THEN x.chunk ELSE 0) + f * Stride(x)
        = w + RowOf(x, c + i, f) * x.chunk
    <3>1. row \in Nat /\ Rows(x) \in Nat /\ f \in Nat
      <4>1. x.dev \div x.chunk \in Nat
        BY <1>1, DivMod
      <4>2. Rows(x) \in Nat
        BY <1>1, <4>1, DivMod DEF Rows
      <4> QED BY <1>1, <1>3, <4>2
    <3>2. CASE x.layout.offset
      <4>1. RowOf(x, c + i, f) = row * far + f /\ ~(dev >= n) /\ Stride(x) = x.chunk
        BY <1>1, <1>3, <1>5, <1>7, <3>2, StrideOf DEF RowOf
      <4> HIDE DEF row, dev, w, c
      <4>2. (row * far + f) * x.chunk = (row * far) * x.chunk + f * x.chunk
        BY <1>1, <3>1, SMTT(60)
      <4> QED BY <1>1, <1>2, <3>1, <3>2, <4>1, <4>2, ProductNat
    <3>3. CASE ~x.layout.offset
      <4> DEFINE up == IF dev >= n THEN 1 ELSE 0
      <4>1. RowOf(x, c + i, f) = row + up + f * Rows(x) /\ Stride(x) = Rows(x) * x.chunk
        BY <1>1, <1>3, <1>5, <1>6, <3>3, StrideOf DEF RowOf
      <4>2. (IF dev >= n THEN x.chunk ELSE 0) = up * x.chunk /\ up \in Nat
        BY <1>1
      <4> HIDE DEF row, dev, w, c, up
      <4>3. (row + up + f * Rows(x)) * x.chunk
            = (row * 1) * x.chunk + up * x.chunk + f * (Rows(x) * x.chunk)
        BY <1>1, <3>1, <4>2, SMTT(60)
      <4>4. (row * 1) * x.chunk \in Nat /\ up * x.chunk \in Nat /\ f * (Rows(x) * x.chunk) \in Nat
        BY <1>1, <3>1, <4>2, ProductNat
      <4> QED BY <1>1, <1>2, <3>3, <4>1, <4>2, <4>3, <4>4
    <3> QED BY <3>2, <3>3 DEF Array10
  <2> QED BY <2>1, <2>2 DEF CopyAt
<1> DEFINE Old == {old(i, f) : i \in 0..(near - 1), f \in 0..(far - 1)}
           New == {new(i, f) : i \in 0..(near - 1), f \in 0..(far - 1)}
<1>9. Copies10(x, y) = Old
  BY DEF Copies10
<1>10. Old = New
  <2> HIDE DEF old, new, near, far
  <2> QED BY <1>8
<1> HIDE DEF Old
<1> QED BY <1>9, <1>10

(* The near positions of the array are in the rows of its members (_setup). *)
LEMMA NearPosition ==
    ASSUME NEW x, Array10(x), NEW y \in Nat, y < Size(x), NEW i \in 0..(x.layout.near - 1)
    PROVE  LET l == (y \div x.chunk) * x.layout.near + i
           IN l \in Nat /\ l \div x.n \in 0..(Rows(x) - 1) /\ l % x.n \in 0..(x.n - 1)
<1> DEFINE n == x.n
           near == x.layout.near
           k == y \div x.chunk
           l == k * near + i
           all == Rows(x) * n
<1>1. n \in Nat \ {0} /\ near \in Nat \ {0} /\ x.chunk \in Nat \ {0} /\ Rows(x) \in Nat
  <2>1. x.dev \div x.chunk \in Nat
    BY DivMod DEF Array10
  <2> QED BY <2>1, DivMod DEF Array10, Rows
<1>2. all \in Nat /\ all \div near \in Nat /\ all % near \in Nat /\ all = near * (all \div near) + (all % near)
  <2>1. all \in Nat
    BY <1>1, ProductNat
  <2> HIDE DEF all
  <2>2. all \div near \in Nat /\ all % near \in 0..(near - 1) /\ all = near * (all \div near) + (all % near)
    BY <1>1, <2>1, DivMod
  <2> QED BY <1>1, <2>1, <2>2
<1>3. y < (all \div near) * x.chunk
  BY DEF Size, Array10, Rows
<1>4. k \in Nat /\ k < all \div near
  BY <1>1, <1>2, <1>3, DivMod, DivBelow
<1>5. k * near + near <= (all \div near) * near
  BY <1>1, <1>2, <1>4, Product
<1>6. l \in Nat /\ l < all
  <2> DEFINE m == all \div near
  <2>1. m * near = near * m /\ near * m \in Nat /\ k * near \in Nat
    BY <1>1, <1>2, <1>4, ProductNat
  <2> HIDE DEF m, k, all
  <2>2. k * near + near <= near * m /\ near * m <= all
    <3>1. all = near * m + (all % near) /\ all % near \in Nat /\ k * near + near <= m * near
      BY <1>2, <1>5 DEF m
    <3> QED BY <3>1, <2>1, <1>1, <1>2
  <2>3. i \in Nat /\ near \in Nat /\ i < near
    BY <1>1
  <2> HIDE DEF near
  <2> QED BY <1>2, <2>1, <2>2, <2>3
<1> HIDE DEF l
<1>7. l \div n < Rows(x) /\ l \div n \in Nat /\ l % n \in 0..(n - 1)
  BY <1>1, <1>6, DivBelow, DivMod
<1> QED BY <1>1, <1>6, <1>7 DEF l

(* A row of a member is one row of the near copies in one of the far ones,  *)
(* and is inside the member (copies10).                                     *)
LEMMA RowsApart ==
    ASSUME NEW x, Array10(x),
           NEW a \in Nat, NEW e \in Nat, a \div x.n \in 0..(Rows(x) - 1), e \div x.n \in 0..(Rows(x) - 1),
           NEW f \in 0..(x.layout.far - 1), NEW h \in 0..(x.layout.far - 1)
    PROVE  /\ RowOf(x, a, f) \in 0..(Rows(x) * x.layout.far - 1)
           /\ RowOf(x, a, f) = RowOf(x, e, h) => a \div x.n = e \div x.n /\ f = h
<1> DEFINE far == x.layout.far
           d == Rows(x)
           u == a \div x.n
           v == e \div x.n
<1>1. far \in Nat \ {0} /\ d \in Nat \ {0} /\ u \in 0..(d - 1) /\ v \in 0..(d - 1)
  <2>1. x.dev \div x.chunk \in Nat
    BY DivMod DEF Array10
  <2>2. d \in Nat
    BY <2>1, DivMod DEF Array10, Rows
  <2> QED BY <2>2 DEF Array10
<1>2. CASE x.layout.offset
  <2>1. RowOf(x, a, f) = far * u + f /\ RowOf(x, e, h) = far * v + h
    <3>1. RowOf(x, a, f) = u * far + f /\ RowOf(x, e, h) = v * far + h
      BY <1>2 DEF RowOf
    <3> HIDE DEF u, v
    <3> QED BY <1>1, <3>1, ProductNat
  <2> HIDE DEF u, v, d, far
  <2>2. u * far + far <= d * far /\ u * far \in Nat /\ u * far = far * u /\ d * far \in Nat
    BY <1>1, Product, ProductNat
  <2>3. RowOf(x, a, f) \in 0..(d * far - 1)
    BY <1>1, <2>1, <2>2 DEF far
  <2>4. (far * u + f) \div far = u /\ (far * u + f) % far = f
        /\ (far * v + h) \div far = v /\ (far * v + h) % far = h
    <3>1. u \in Nat /\ v \in Nat /\ f \in 0..(far - 1) /\ h \in 0..(far - 1)
      BY <1>1 DEF far
    <3> QED BY <1>1, <3>1, DivModUnique
  <2>5. RowOf(x, a, f) = RowOf(x, e, h) => u = v /\ f = h
    BY <2>1, <2>4
  <2> QED BY <2>3, <2>5 DEF u, v, d, far
<1>3. CASE ~x.layout.offset
  <2>1. RowOf(x, a, f) = d * f + u /\ RowOf(x, e, h) = d * h + v
    <3>1. RowOf(x, a, f) = u + f * d /\ RowOf(x, e, h) = v + h * d
      BY <1>3 DEF RowOf
    <3>2. f * d = d * f /\ h * d = d * h /\ f * d \in Nat /\ h * d \in Nat
      BY <1>1, ProductNat
    <3> HIDE DEF u, v, d
    <3> QED BY <1>1, <3>1, <3>2
  <2> HIDE DEF u, v, d, far
  <2>2. f * d + d <= far * d /\ f * d \in Nat /\ f * d = d * f /\ d * far = far * d /\ d * far \in Nat
    BY <1>1, Product, ProductNat DEF far
  <2>3. RowOf(x, a, f) \in 0..(d * far - 1)
    BY <1>1, <2>1, <2>2
  <2>4. (d * f + u) \div d = f /\ (d * f + u) % d = u
        /\ (d * h + v) \div d = h /\ (d * h + v) % d = v
    <3>1. f \in Nat /\ h \in Nat
      BY <1>1
    <3> QED BY <1>1, <3>1, DivModUnique
  <2>5. RowOf(x, a, f) = RowOf(x, e, h) => u = v /\ f = h
    BY <2>1, <2>4
  <2> QED BY <2>3, <2>5 DEF u, v, d, far
<1> QED BY <1>2, <1>3 DEF Array10

(* The far copies turn the near ones round the members, none onto another.  *)
LEMMA RolesApart ==
    ASSUME NEW x, Array10(x), NEW a \in Nat, NEW e \in Nat, NEW f \in 0..(x.layout.far - 1)
    PROVE  /\ RoleOf(x, a, f) \in 0..(x.n - 1)
           /\ RoleOf(x, a, f) = RoleOf(x, e, f) => a % x.n = e % x.n
<1> DEFINE n == x.n
           near == x.layout.near
           far == x.layout.far
           t == f * near
           u == (a % n) + t
           v == (e % n) + t
<1>1. n \in Nat \ {0} /\ near \in Nat \ {0} /\ far \in Nat \ {0} /\ near * far <= n
  BY DEF Array10
<1>2. a % n \in 0..(n - 1) /\ e % n \in 0..(n - 1)
  BY <1>1, DivMod
<1>3. t \in 0..(n - 1)
  <2>1. near \in Nat /\ far \in Nat /\ f \in Nat /\ f < far /\ near * far <= n
    BY <1>1
  <2> HIDE DEF near, far, n
  <2>2. f * near + near <= far * near
    BY <2>1, Product
  <2>3. far * near = near * far /\ f * near \in Nat /\ far * near \in Nat
    BY <2>1, ProductNat
  <2> QED BY <1>1, <2>1, <2>2, <2>3
<1>4. u \in 0..(2 * n - 1) /\ v \in 0..(2 * n - 1)
  BY <1>1, <1>2, <1>3
<1>5. RoleOf(x, a, f) = u % n /\ RoleOf(x, e, f) = v % n
  BY DEF RoleOf
<1> HIDE DEF u, v
<1>6. (u % n = IF u < n THEN u ELSE u - n) /\ (v % n = IF v < n THEN v ELSE v - n)
  BY <1>1, <1>4, ModRound
<1>7. (u % n = v % n => a % n = e % n) /\ u % n \in 0..(n - 1)
  <2>1. u = (a % n) + t /\ v = (e % n) + t
    BY DEF u, v
  <2> HIDE DEF t
  <2> QED BY <1>1, <1>2, <1>3, <1>4, <1>6, <2>1
<1> QED BY <1>5, <1>7

-----------------------------------------------------------------------------
(* Where a byte of a chunk lies, in rows of chunks.                         *)

(* The bytes up to the end of a chunk are in it (Run).                      *)
LEMMA InOneChunk ==
    ASSUME NEW b \in Nat \ {0}, NEW y \in Nat, NEW i \in 0..(b - (y % b) - 1)
    PROVE  (y + i) \div b = y \div b /\ (y + i) % b = (y % b) + i
<1> DEFINE q == y \div b
           r == (y % b) + i
<1>1. q \in Nat /\ y % b \in 0..(b - 1) /\ y = b * q + (y % b)
  BY DivMod
<1>2. r \in 0..(b - 1)
  BY <1>1
<1>3. b * q \in Nat
  BY <1>1, ProductNat
<1>4. y + i = b * q + r
  <2> HIDE DEF q
  <2> QED BY <1>1, <1>3
<1> HIDE DEF q, r
<1>5. (b * q + r) \div b = q /\ (b * q + r) % b = r
  BY <1>1, <1>2, DivModUnique
<1> QED BY <1>4, <1>5 DEF q, r

(* A byte of a row of chunks is that of no other (place, copies10, stripe). *)
LEMMA RowAndByte ==
    ASSUME NEW b \in Nat \ {0}, NEW v \in 0..(b - 1), NEW w \in 0..(b - 1),
           NEW a \in Nat, NEW c \in Nat
    PROVE  v + a * b = w + c * b => v = w /\ a = c
<1>1. (b * a + v) \div b = a /\ (b * a + v) % b = v /\ (b * c + w) \div b = c /\ (b * c + w) % b = w
  BY DivModUnique
<1>2. a * b = b * a /\ c * b = b * c /\ a * b \in Nat /\ c * b \in Nat
  BY ProductNat
<1> QED BY <1>1, <1>2

(* And lies before the rows' end.                                           *)
LEMMA RowInside ==
    ASSUME NEW b \in Nat \ {0}, NEW w \in 0..(b - 1), NEW m \in Nat, NEW a \in 0..(m - 1)
    PROVE  w + a * b \in 0..(m * b - 1)
<1>1. a * b + b <= m * b /\ a * b \in Nat /\ m * b \in Nat
  BY Product, ProductNat
<1> QED BY <1>1

(* A byte of the array is known by its chunk and where it is in it.         *)
LEMMA ChunkAndByte ==
    ASSUME NEW b \in Nat \ {0}, NEW y \in Nat, NEW z \in Nat,
           y \div b = z \div b, y % b = z % b
    PROVE  y = z
<1>1. y = b * (y \div b) + (y % b) /\ z = b * (z \div b) + (z % b)
  BY DivMod
<1> QED BY <1>1

-----------------------------------------------------------------------------
(* RAID10.                                                                  *)

(* What a copy is: a near position of the chunk and a far copy.             *)
LEMMA CopyOf ==
    ASSUME NEW x, Array10(x), NEW y \in Nat, y < Size(x), NEW p \in Copies10(x, y)
    PROVE  \E i \in 0..(x.layout.near - 1), f \in 0..(x.layout.far - 1) :
              LET l == (y \div x.chunk) * x.layout.near + i
              IN /\ p = CopyAt(x, l, f, y % x.chunk)
                 /\ l \in Nat /\ l \div x.n \in 0..(Rows(x) - 1)
<1>1. PICK i \in 0..(x.layout.near - 1), f \in 0..(x.layout.far - 1) :
         p = CopyAt(x, (y \div x.chunk) * x.layout.near + i, f, y % x.chunk)
  BY CopiesAre
<1> QED BY <1>1, NearPosition

(* The copies of two bytes of the array are apart (copies10).               *)
LEMMA CopiesApart ==
    ASSUME NEW x, Array10(x), NEW y \in Nat, NEW z \in Nat, y < Size(x), z < Size(x), y # z,
           NEW p \in Copies10(x, y), NEW q \in Copies10(x, z)
    PROVE  p.role # q.role \/ p.at # q.at
<1> DEFINE near == x.layout.near
           far == x.layout.far
           l(t, i) == (t \div x.chunk) * near + i
<1>0. x.chunk \in Nat \ {0} /\ near \in Nat \ {0} /\ x.n \in Nat \ {0}
  BY DEF Array10
<1>1. PICK i \in 0..(near - 1), f \in 0..(far - 1) :
         p = CopyAt(x, l(y, i), f, y % x.chunk) /\ l(y, i) \in Nat
         /\ l(y, i) \div x.n \in 0..(Rows(x) - 1)
  BY CopyOf
<1>2. PICK j \in 0..(near - 1), h \in 0..(far - 1) :
         q = CopyAt(x, l(z, j), h, z % x.chunk) /\ l(z, j) \in Nat
         /\ l(z, j) \div x.n \in 0..(Rows(x) - 1)
  BY CopyOf
<1>3. SUFFICES ASSUME p.role = q.role, p.at = q.at PROVE FALSE
  OBVIOUS
<1> DEFINE a == l(y, i)
           c == l(z, j)
<1>4. y % x.chunk \in 0..(x.chunk - 1) /\ z % x.chunk \in 0..(x.chunk - 1)
      /\ y \div x.chunk \in Nat /\ z \div x.chunk \in Nat
  BY <1>0, DivMod
<1>5. a \in Nat /\ c \in Nat /\ a \div x.n \in 0..(Rows(x) - 1) /\ c \div x.n \in 0..(Rows(x) - 1)
      /\ p = CopyAt(x, a, f, y % x.chunk) /\ q = CopyAt(x, c, h, z % x.chunk)
  BY <1>1, <1>2
<1> HIDE DEF a, c
<1>6. RowOf(x, a, f) \in Nat /\ RowOf(x, c, h) \in Nat
      /\ (RowOf(x, a, f) = RowOf(x, c, h) => a \div x.n = c \div x.n /\ f = h)
  BY <1>5, RowsApart
<1>7. (y % x.chunk) + RowOf(x, a, f) * x.chunk = (z % x.chunk) + RowOf(x, c, h) * x.chunk
  BY <1>3, <1>5 DEF CopyAt
<1>8. y % x.chunk = z % x.chunk /\ RowOf(x, a, f) = RowOf(x, c, h)
  <2> DEFINE v == y % x.chunk
             w == z % x.chunk
             r == RowOf(x, a, f)
             t == RowOf(x, c, h)
  <2>1. v \in 0..(x.chunk - 1) /\ w \in 0..(x.chunk - 1) /\ r \in Nat /\ t \in Nat
        /\ v + r * x.chunk = w + t * x.chunk
    BY <1>4, <1>6, <1>7
  <2> HIDE DEF v, w, r, t
  <2>2. v = w /\ r = t
    BY <1>0, <2>1, RowAndByte
  <2> QED BY <2>2 DEF v, w, r, t
<1>9. a \div x.n = c \div x.n /\ f = h /\ RoleOf(x, a, f) = RoleOf(x, c, f)
  BY <1>3, <1>5, <1>6, <1>8 DEF CopyAt
<1>10. a = c
  <2>1. a % x.n = c % x.n
    BY <1>5, <1>9, RolesApart, Zenon
  <2> QED BY <1>0, <1>5, <1>9, <2>1, ChunkAndByte, Zenon
<1>11. y \div x.chunk = z \div x.chunk
  <2> DEFINE s == y \div x.chunk
             t == z \div x.chunk
  <2>1. i + s * near = j + t * near
    <3>1. s * near + i = t * near + j
      BY <1>10 DEF a, c
    <3>2. s * near \in Nat /\ t * near \in Nat
      BY <1>0, <1>4, ProductNat
    <3> HIDE DEF s, t
    <3> QED BY <1>0, <3>1, <3>2
  <2>2. s \in Nat /\ t \in Nat
    BY <1>4
  <2> HIDE DEF s, t
  <2>3. s = t
    BY <1>0, <2>1, <2>2, RowAndByte
  <2> QED BY <2>3 DEF s, t
<1> QED BY <1>0, <1>8, <1>11, ChunkAndByte

(* A copy is inside a member (copies10).                                    *)
LEMMA CopyInside ==
    ASSUME NEW x, Array10(x), NEW y \in Nat, y < Size(x), NEW p \in Copies10(x, y)
    PROVE  p.role \in 0..(x.n - 1) /\ p.at \in 0..(x.dev - 1)
<1>0. x.chunk \in Nat \ {0} /\ x.dev \in Nat /\ x.layout.far \in Nat \ {0}
  BY DEF Array10
<1>1. PICK a \in Nat, f \in 0..(x.layout.far - 1) :
         p = CopyAt(x, a, f, y % x.chunk) /\ a \div x.n \in 0..(Rows(x) - 1)
  BY CopyOf
<1>2. RowOf(x, a, f) \in 0..(Rows(x) * x.layout.far - 1) /\ RoleOf(x, a, f) \in 0..(x.n - 1)
  BY <1>1, RowsApart, RolesApart
<1> DEFINE e == x.dev \div x.chunk
           d == e \div x.layout.far
           m == d * x.layout.far
<1>3. e \in Nat /\ x.dev % x.chunk \in 0..(x.chunk - 1) /\ x.dev = x.chunk * e + (x.dev % x.chunk)
  BY <1>0, DivMod
<1> HIDE DEF e
<1>4. m \in Nat /\ m <= e
  <2>1. d \in Nat /\ e % x.layout.far \in 0..(x.layout.far - 1) /\ e = x.layout.far * d + (e % x.layout.far)
    BY <1>0, <1>3, DivMod
  <2> HIDE DEF d
  <2>2. m = x.layout.far * d /\ m \in Nat
    BY <1>0, <2>1, ProductNat
  <2> QED BY <1>0, <1>3, <2>1, <2>2
<1>5. RowOf(x, a, f) \in 0..(m - 1)
  BY <1>2 DEF Rows, e
<1> HIDE DEF m
<1>6. y % x.chunk \in 0..(x.chunk - 1)
  BY <1>0, DivMod
<1>7. (y % x.chunk) + RowOf(x, a, f) * x.chunk \in 0..(m * x.chunk - 1)
  BY <1>0, <1>4, <1>5, <1>6, RowInside
<1>8. m * x.chunk <= x.dev /\ m * x.chunk \in Nat
  <2>1. m * x.chunk <= e * x.chunk
    <3>1. m < e => m * x.chunk + x.chunk <= e * x.chunk
      <4>1. m \in Nat /\ e \in Nat /\ x.chunk \in Nat
        BY <1>0, <1>3, <1>4
      <4> QED BY <4>1, Product, Zenon
    <3> QED BY <1>0, <1>3, <1>4, <3>1, ProductNat
  <2>2. e * x.chunk = x.chunk * e /\ e * x.chunk \in Nat /\ m * x.chunk \in Nat
    BY <1>0, <1>3, <1>4, ProductNat
  <2> QED BY <1>0, <1>3, <2>1, <2>2
<1>9. p.at \in 0..(m * x.chunk - 1) /\ p.role \in 0..(x.n - 1)
  BY <1>1, <1>2, <1>7 DEF CopyAt
<1> QED BY <1>0, <1>8, <1>9

-----------------------------------------------------------------------------
(* RAID4, RAID5 and RAID6.                                                  *)

ArrayP(x) == (Array5(x) \/ Array6(x)) /\ x.chunk \in Nat \ {0} /\ x.dev \in Nat

(* The member data chunk k of stripe s is on.                               *)
DataOf(x, s, k) == IF x.level = "6" THEN D6(x, s, k) ELSE D5(x, s, k)

(* The chunk of a byte is in a stripe of the members (stripe, _setup).      *)
LEMMA StripeOf ==
    ASSUME NEW x, ArrayP(x), NEW y \in Nat
    PROVE  LET c == y \div x.chunk
               s == c \div DataDisks(x)
               k == c % DataDisks(x)
           IN /\ DataDisks(x) \in Nat \ {0}
              /\ c \in Nat /\ s \in Nat /\ k \in 0..(DataDisks(x) - 1)
              /\ y % x.chunk \in 0..(x.chunk - 1)
              /\ Stripe(x, y).role = DataOf(x, s, k)
              /\ Stripe(x, y).at = (y % x.chunk) + s * x.chunk
              /\ y < Size(x) => s \in 0..((x.dev \div x.chunk) - 1)
<1> DEFINE c == y \div x.chunk
           s == c \div DataDisks(x)
           k == c % DataDisks(x)
           e == x.dev \div x.chunk
<1>1. DataDisks(x) \in Nat \ {0} /\ x.chunk \in Nat \ {0} /\ x.dev \in Nat
  BY DEF ArrayP, Array5, Array6, DataDisks, Parities
<1>2. c \in Nat /\ y % x.chunk \in 0..(x.chunk - 1)
  BY <1>1, DivMod
<1>3. s \in Nat /\ k \in 0..(DataDisks(x) - 1)
  <2> HIDE DEF c
  <2> QED BY <1>1, <1>2, DivMod
<1>4. Stripe(x, y).role = DataOf(x, s, k) /\ Stripe(x, y).at = s * x.chunk + (y % x.chunk)
  BY DEF Stripe, DataOf
<1>5. Stripe(x, y).at = (y % x.chunk) + s * x.chunk
  <2>1. s * x.chunk \in Nat
    BY <1>1, <1>3, ProductNat
  <2> HIDE DEF s
  <2> QED BY <1>2, <1>4, <2>1
<1>6. ASSUME y < Size(x) PROVE s < e
  <2>1. e \in Nat /\ x.dev % x.chunk \in 0..(x.chunk - 1) /\ x.dev = x.chunk * e + (x.dev % x.chunk)
    BY <1>1, DivMod
  <2>2. Size(x) = Floor(x.dev, x.chunk) * DataDisks(x)
    BY DEF Size, ArrayP, Array5, Array6
  <2> HIDE DEF e, s, c
  <2>3. Floor(x.dev, x.chunk) = x.chunk * e
    <3>1. x.chunk * e \in Nat
      BY <1>1, <2>1, ProductNat
    <3> QED BY <1>1, <2>1, <3>1 DEF Floor
  <2>4. (x.chunk * e) * DataDisks(x) = (e * DataDisks(x)) * x.chunk
    BY <1>1, <2>1, SMTT(30)
  <2>5. e * DataDisks(x) \in Nat
    BY <1>1, <2>1, ProductNat
  <2>6. y < (e * DataDisks(x)) * x.chunk
    BY <1>6, <2>2, <2>3, <2>4
  <2>7. c < e * DataDisks(x)
    BY <1>1, <2>5, <2>6, DivBelow DEF c
  <2> QED BY <1>1, <1>2, <2>1, <2>7, DivBelow DEF s
<1>7. e \in Nat
  BY <1>1, DivMod
<1> HIDE DEF s, e
<1>8. y < Size(x) => s \in 0..(e - 1)
  BY <1>3, <1>6, <1>7
<1> QED BY <1>1, <1>2, <1>3, <1>4, <1>5, <1>8 DEF s, e

(* The chunks of a stripe are on members of their own (stripe).             *)
LEMMA DataApart ==
    ASSUME NEW x, ArrayP(x), NEW s \in Nat,
           NEW j \in 0..(DataDisks(x) - 1), NEW k \in 0..(DataDisks(x) - 1)
    PROVE  DataOf(x, s, j) \in 0..(x.n - 1) /\ (DataOf(x, s, j) = DataOf(x, s, k) => j = k)
<1>1. CASE Array5(x)
  <2>1. DataOf(x, s, j) = D5(x, s, j) /\ DataOf(x, s, k) = D5(x, s, k)
    BY <1>1 DEF DataOf, Array5
  <2> QED BY <1>1, <2>1, StripeApart5
<1>2. CASE Array6(x)
  <2>1. DataOf(x, s, j) = D6(x, s, j) /\ DataOf(x, s, k) = D6(x, s, k)
    BY <1>2 DEF DataOf, Array6
  <2> QED BY <1>2, <2>1, StripeApart6
<1> QED BY <1>1, <1>2 DEF ArrayP

(* Two bytes of the array are at bytes of the members apart (stripe).       *)
LEMMA StripesApart ==
    ASSUME NEW x, ArrayP(x), NEW y \in Nat, NEW z \in Nat, y # z
    PROVE  Stripe(x, y).role # Stripe(x, z).role \/ Stripe(x, y).at # Stripe(x, z).at
<1> DEFINE c(t) == t \div x.chunk
           s(t) == c(t) \div DataDisks(x)
           k(t) == c(t) % DataDisks(x)
           w(t) == t % x.chunk
<1>0. x.chunk \in Nat \ {0} /\ DataDisks(x) \in Nat \ {0}
  BY StripeOf DEF ArrayP
<1>1. ASSUME NEW t \in Nat
      PROVE  /\ c(t) \in Nat /\ s(t) \in Nat /\ k(t) \in 0..(DataDisks(x) - 1)
             /\ w(t) \in 0..(x.chunk - 1)
             /\ Stripe(x, t).role = DataOf(x, s(t), k(t))
             /\ Stripe(x, t).at = w(t) + s(t) * x.chunk
  BY StripeOf
<1>2. SUFFICES ASSUME Stripe(x, y).role = Stripe(x, z).role, Stripe(x, y).at = Stripe(x, z).at
               PROVE  FALSE
  OBVIOUS
<1>3. w(y) = w(z) /\ s(y) = s(z)
  <2> DEFINE u == w(y)
             v == w(z)
             a == s(y)
             e == s(z)
  <2>1. u \in 0..(x.chunk - 1) /\ v \in 0..(x.chunk - 1) /\ a \in Nat /\ e \in Nat
        /\ u + a * x.chunk = v + e * x.chunk
    BY <1>1, <1>2, Zenon
  <2> HIDE DEF u, v, a, e
  <2>2. u = v /\ a = e
    BY <1>0, <2>1, RowAndByte
  <2> QED BY <2>2 DEF u, v, a, e
<1>4. k(y) = k(z)
  <2> DEFINE a == s(y)
             i == k(y)
             j == k(z)
  <2>1. a \in Nat /\ i \in 0..(DataDisks(x) - 1) /\ j \in 0..(DataDisks(x) - 1)
        /\ DataOf(x, a, i) = DataOf(x, a, j)
    BY <1>1, <1>2, <1>3, Zenon
  <2> HIDE DEF a, i, j
  <2>2. i = j
    BY <2>1, DataApart
  <2> QED BY <2>2 DEF i, j
<1>5. c(y) = c(z)
  <2> HIDE DEF c
  <2> QED BY <1>0, <1>1, <1>3, <1>4, ChunkAndByte DEF s, k
<1> QED BY <1>0, <1>3, <1>5, ChunkAndByte

(* And inside the members (stripe).                                         *)
LEMMA StripeInside ==
    ASSUME NEW x, ArrayP(x), NEW y \in Nat, y < Size(x)
    PROVE  Stripe(x, y).role \in 0..(x.n - 1) /\ Stripe(x, y).at \in 0..(x.dev - 1)
<1> DEFINE e == x.dev \div x.chunk
           s == (y \div x.chunk) \div DataDisks(x)
           k == (y \div x.chunk) % DataDisks(x)
           w == y % x.chunk
<1>0. x.chunk \in Nat \ {0} /\ x.dev \in Nat
  BY DEF ArrayP
<1>1. /\ s \in 0..(e - 1) /\ k \in 0..(DataDisks(x) - 1) /\ w \in 0..(x.chunk - 1) /\ s \in Nat
      /\ Stripe(x, y).role = DataOf(x, s, k) /\ Stripe(x, y).at = w + s * x.chunk
  BY StripeOf
<1>2. e \in Nat /\ x.dev % x.chunk \in 0..(x.chunk - 1) /\ x.dev = x.chunk * e + (x.dev % x.chunk)
  BY <1>0, DivMod
<1> HIDE DEF e, s, k, w
<1>3. w + s * x.chunk \in 0..(e * x.chunk - 1)
  BY <1>0, <1>1, <1>2, RowInside
<1>4. e * x.chunk = x.chunk * e /\ e * x.chunk \in Nat
  BY <1>0, <1>2, ProductNat
<1>5. Stripe(x, y).role \in 0..(x.n - 1)
  BY <1>1, DataApart
<1> QED BY <1>0, <1>1, <1>2, <1>3, <1>4, <1>5

-----------------------------------------------------------------------------
(* linear and RAID0: parts one after the other, members or zones, each of   *)
(* them as long as f says.                                                  *)

(* The first part that ends past a byte begins before it.                   *)
LEMMA FirstPart ==
    ASSUME NEW f, NEW n \in Nat, Numbered(f, n), NEW y \in Nat, NEW i \in 1..n,
           y < SumTo(f, i), \A j \in 1..n : y < SumTo(f, j) => i <= j
    PROVE  SumTo(f, i - 1) <= y
<1>1. Numbered(f, i - 1) /\ i - 1 \in Nat
  BY DEF Numbered
<1>2. SumTo(f, i - 1) \in Nat
  BY <1>1, SumToIs
<1>3. CASE i - 1 = 0
  BY <1>3, SumToZero
<1>4. CASE i - 1 \in 1..n
  BY <1>2, <1>4
<1> QED BY <1>1, <1>3, <1>4

(* Where a part begins and ends.                                            *)
LEMMA PartIs ==
    ASSUME NEW f, NEW n \in Nat, Numbered(f, n), NEW i \in 1..n
    PROVE  /\ SumTo(f, i - 1) \in Nat /\ SumTo(f, i) \in Nat /\ f[i] \in Nat
           /\ SumTo(f, i) = SumTo(f, i - 1) + f[i]
<1> DEFINE k == i - 1
<1>1. k \in Nat /\ k + 1 = i /\ i \in Nat /\ Numbered(f, i) /\ f[i] \in Nat
  BY DEF Numbered
<1> HIDE DEF k
<1>2. SumTo(f, k) \in Nat /\ SumTo(f, k + 1) = SumTo(f, k) + f[k + 1]
  BY <1>1, SumToNext
<1> QED BY <1>1, <1>2 DEF k

(* No byte is in two parts.                                                 *)
LEMMA PartsApart ==
    ASSUME NEW f, NEW n \in Nat, Numbered(f, n), NEW i \in 1..n, NEW j \in 1..n, NEW y \in Nat,
           SumTo(f, i - 1) <= y, y < SumTo(f, i), SumTo(f, j - 1) <= y, y < SumTo(f, j)
    PROVE  i = j
<1>1. \A a \in 1..n : SumTo(f, a) \in Nat /\ SumTo(f, a - 1) \in Nat
  BY PartIs
<1>2. ASSUME NEW a \in 1..n, NEW b \in 1..n, a < b PROVE SumTo(f, a) <= SumTo(f, b - 1)
  <2>1. a \in 0..n /\ b - 1 \in a..n
    BY <1>2
  <2> QED BY <2>1, SumToGrows
<1> QED BY <1>1, <1>2

(* Rounded down to the chunk, a size is one of whole chunks (_setup).       *)
LEMMA FloorIs ==
    ASSUME NEW b \in Nat, NEW c \in Nat \ {0}
    PROVE  Floor(b, c) \in 0..b /\ b \div c \in Nat /\ Floor(b, c) = c * (b \div c)
<1> DEFINE q == b \div c
<1>1. q \in Nat /\ b % c \in 0..(c - 1) /\ b = c * q + (b % c)
  BY DivMod
<1>2. c * q \in Nat
  BY <1>1, ProductNat
<1> HIDE DEF q
<1> QED BY <1>1, <1>2 DEF Floor, q

ArrayL(x) ==
    /\ x.level = "linear"
    /\ x.n \in Nat /\ x.chunk \in Nat /\ x.members \in [1..x.n -> Nat]

Lengths(x) == [i \in 1..x.n |-> LinearSize(x, i - 1)]

(* What each member gives a linear array.                                   *)
LEMMA LengthsAre ==
    ASSUME NEW x, ArrayL(x)
    PROVE  /\ Numbered(Lengths(x), x.n)
           /\ \A r \in RolesOf(x) : /\ r + 1 \in 1..x.n /\ SizeOf(x, r) \in Nat
                                     /\ Lengths(x)[r + 1] <= SizeOf(x, r)
<1>1. ASSUME NEW i \in 1..x.n
      PROVE  SizeOf(x, i - 1) \in Nat /\ Lengths(x)[i] \in 0..SizeOf(x, i - 1)
  <2>1. SizeOf(x, i - 1) \in Nat
    BY DEF ArrayL, SizeOf
  <2>2. Lengths(x)[i] = LinearSize(x, i - 1)
    BY DEF Lengths
  <2>3. x.chunk # 0 => Floor(SizeOf(x, i - 1), x.chunk) \in 0..SizeOf(x, i - 1)
    BY <2>1, FloorIs DEF ArrayL
  <2> QED BY <2>1, <2>2, <2>3 DEF LinearSize
<1>2. ASSUME NEW r \in RolesOf(x) PROVE r + 1 \in 1..x.n /\ (r + 1) - 1 = r
  BY DEF RolesOf, ArrayL
<1>3. Numbered(Lengths(x), x.n)
  BY <1>1 DEF Numbered
<1>4. ASSUME NEW r \in RolesOf(x)
      PROVE  SizeOf(x, r) \in Nat /\ Lengths(x)[r + 1] <= SizeOf(x, r)
  <2>1. SizeOf(x, (r + 1) - 1) \in Nat /\ Lengths(x)[r + 1] \in 0..SizeOf(x, (r + 1) - 1)
    BY <1>1, <1>2
  <2> QED BY <1>2, <2>1
<1> QED BY <1>2, <1>3, <1>4

(* Where a byte of a linear array is (place).                               *)
LEMMA PlaceL ==
    ASSUME NEW x, ArrayL(x), NEW y \in Nat, y < Size(x)
    PROVE  LET r == LinearPlace(x, y).role
           IN /\ r \in RolesOf(x)
              /\ SumTo(Lengths(x), r) <= y /\ y < SumTo(Lengths(x), r + 1)
              /\ LinearPlace(x, y).at = y - SumTo(Lengths(x), r)
              /\ LinearPlace(x, y).run = SumTo(Lengths(x), r + 1) - y
<1> DEFINE f == Lengths(x)
           S == {r \in RolesOf(x) : y < LinearEnd(x, r)}
           role == Min(S)
           start == IF role = 0 THEN 0 ELSE LinearEnd(x, role - 1)
<1>0. Numbered(f, x.n) /\ x.n \in Nat
  BY LengthsAre DEF ArrayL
<1>1. \A r : LinearEnd(x, r) = SumTo(f, r + 1)
  BY DEF LinearEnd, Lengths
<1>2. LinearPlace(x, y) = [role |-> role, at |-> y - start, run |-> LinearEnd(x, role) - y]
  BY DEF LinearPlace
<1> HIDE DEF f
<1>3. y < SumTo(f, x.n)
  <2>1. Size(x) = SumTo(f, (x.n - 1) + 1) /\ (x.n - 1) + 1 = x.n
    BY <1>0, <1>1 DEF Size, ArrayL
  <2> QED BY <2>1
<1>4. S \subseteq Nat /\ S # {}
  <2>1. x.n # 0
    BY <1>3, SumToZero
  <2>2. x.n - 1 \in RolesOf(x) /\ (x.n - 1) + 1 = x.n
    BY <1>0, <2>1 DEF RolesOf
  <2>3. x.n - 1 \in S
    BY <1>1, <1>3, <2>2
  <2> QED BY <2>3 DEF RolesOf
<1>5. role \in S /\ \A r \in S : role <= r
  BY <1>4, MinIsOne
<1> HIDE DEF role
<1>6. role \in RolesOf(x) /\ y < SumTo(f, role + 1) /\ role \in Nat /\ role + 1 \in 1..x.n
  BY <1>0, <1>1, <1>5 DEF RolesOf
<1>7. ASSUME NEW j \in 1..x.n, y < SumTo(f, j) PROVE role + 1 <= j
  <2>1. j - 1 \in RolesOf(x) /\ (j - 1) + 1 = j
    BY <1>0 DEF RolesOf
  <2>2. role <= j - 1
    BY <1>1, <1>5, <1>7, <2>1
  <2> QED BY <1>6, <2>2
<1>8. SumTo(f, (role + 1) - 1) <= y
  BY <1>0, <1>6, <1>7, FirstPart
<1>9. (role + 1) - 1 = role /\ (role - 1) + 1 = role
  BY <1>6
<1>10. start = SumTo(f, role)
  BY <1>1, <1>9, SumToZero
<1> HIDE DEF start
<1> QED BY <1>1, <1>2, <1>6, <1>8, <1>9, <1>10 DEF f

(* A byte of a member is that of one byte of a linear array (place).        *)
LEMMA LinearApart ==
    ASSUME NEW x, ArrayL(x), NEW y \in Nat, NEW z \in Nat, y < Size(x), z < Size(x),
           LinearPlace(x, y).role = LinearPlace(x, z).role,
           LinearPlace(x, y).at = LinearPlace(x, z).at
    PROVE  y = z
<1> DEFINE r == LinearPlace(x, y).role
           f == Lengths(x)
<1>1. /\ r \in RolesOf(x) /\ LinearPlace(x, y).at = y - SumTo(f, r)
      /\ LinearPlace(x, z).at = z - SumTo(f, r)
  BY PlaceL
<1>2. r + 1 \in 1..x.n /\ x.n \in Nat /\ Numbered(f, x.n) /\ (r + 1) - 1 = r
  BY <1>1, LengthsAre DEF ArrayL, RolesOf
<1>3. SumTo(f, r) \in Nat
  <2>1. SumTo(f, (r + 1) - 1) \in Nat
    BY <1>2, PartIs
  <2> QED BY <1>2, <2>1
<1>4. y - SumTo(f, r) = z - SumTo(f, r)
  BY <1>1
<1> HIDE DEF f, r
<1> QED BY <1>3, <1>4

(* It is inside the member (place).                                         *)
LEMMA LinearInside ==
    ASSUME NEW x, ArrayL(x), NEW y \in Nat, y < Size(x)
    PROVE  /\ LinearPlace(x, y).role \in RolesOf(x)
           /\ LinearPlace(x, y).at \in Nat
           /\ LinearPlace(x, y).at < SizeOf(x, LinearPlace(x, y).role)
           /\ LinearPlace(x, y).run \in Nat \ {0}
<1> DEFINE r == LinearPlace(x, y).role
           f == Lengths(x)
<1>1. /\ r \in RolesOf(x) /\ SumTo(f, r) <= y /\ y < SumTo(f, r + 1)
      /\ LinearPlace(x, y).at = y - SumTo(f, r)
      /\ LinearPlace(x, y).run = SumTo(f, r + 1) - y
  BY PlaceL
<1>2. /\ r + 1 \in 1..x.n /\ x.n \in Nat /\ Numbered(f, x.n) /\ (r + 1) - 1 = r
      /\ SizeOf(x, r) \in Nat /\ f[r + 1] <= SizeOf(x, r)
  <2>1. Numbered(f, x.n) /\ x.n \in Nat
    BY LengthsAre DEF ArrayL
  <2>2. r + 1 \in 1..x.n /\ SizeOf(x, r) \in Nat /\ f[r + 1] <= SizeOf(x, r)
    BY <1>1, LengthsAre
  <2>3. (r + 1) - 1 = r
    BY <1>1 DEF RolesOf
  <2> QED BY <2>1, <2>2, <2>3
<1>3. /\ SumTo(f, r) \in Nat /\ f[r + 1] \in Nat /\ SumTo(f, r + 1) = SumTo(f, r) + f[r + 1]
  <2>1. /\ SumTo(f, (r + 1) - 1) \in Nat /\ f[r + 1] \in Nat
        /\ SumTo(f, r + 1) = SumTo(f, (r + 1) - 1) + f[r + 1]
    BY <1>2, PartIs
  <2> QED BY <1>2, <2>1
<1> HIDE DEF f
<1>4. y - SumTo(f, r) \in Nat /\ y - SumTo(f, r) < SizeOf(x, r)
      /\ SumTo(f, r + 1) - y \in Nat \ {0}
  BY <1>1, <1>2, <1>3
<1> QED BY <1>1, <1>4

(* And straight on to the end of the member (place).                        *)
LEMMA LinearStraight ==
    ASSUME NEW x, ArrayL(x), NEW y \in Nat, y < Size(x), NEW i \in 0..(LinearPlace(x, y).run - 1)
    PROVE  /\ LinearPlace(x, y + i).role = LinearPlace(x, y).role
           /\ LinearPlace(x, y + i).at = LinearPlace(x, y).at + i
<1> DEFINE r == LinearPlace(x, y).role
           s == LinearPlace(x, y + i).role
           f == Lengths(x)
<1>1. /\ r \in RolesOf(x) /\ SumTo(f, r) <= y /\ y < SumTo(f, r + 1)
      /\ LinearPlace(x, y).at = y - SumTo(f, r)
      /\ LinearPlace(x, y).run = SumTo(f, r + 1) - y
  BY PlaceL
<1>2. Numbered(f, x.n) /\ x.n \in Nat /\ \A k \in RolesOf(x) : k + 1 \in 1..x.n /\ (k + 1) - 1 = k
  BY LengthsAre DEF ArrayL, RolesOf
<1>3. ASSUME NEW k \in RolesOf(x) PROVE SumTo(f, k) \in Nat /\ SumTo(f, k + 1) \in Nat
  <2>1. SumTo(f, (k + 1) - 1) \in Nat /\ SumTo(f, k + 1) \in Nat
    BY <1>2, PartIs
  <2> QED BY <1>2, <2>1
<1>4. y + i \in Nat /\ i \in Nat /\ y + i < SumTo(f, r + 1) /\ SumTo(f, r) <= y + i
  BY <1>1, <1>3
<1>5. SumTo(f, r + 1) <= Size(x)
  <2>1. Size(x) = SumTo(f, x.n)
    <3>1. Size(x) = SumTo(f, (x.n - 1) + 1) /\ (x.n - 1) + 1 = x.n
      BY <1>2 DEF Size, ArrayL, LinearEnd, Lengths
    <3> QED BY <3>1
  <2>2. r + 1 \in 0..x.n /\ x.n \in (r + 1)..x.n
    BY <1>1, <1>2
  <2>3. SumTo(f, r + 1) <= SumTo(f, x.n)
    BY <1>2, <2>2, SumToGrows
  <2> QED BY <2>1, <2>3
<1>6. Size(x) \in Nat
  <2>1. Size(x) = SumTo(f, x.n)
    <3>1. Size(x) = SumTo(f, (x.n - 1) + 1) /\ (x.n - 1) + 1 = x.n
      BY <1>2 DEF Size, ArrayL, LinearEnd, Lengths
    <3> QED BY <3>1
  <2> QED BY <1>2, <2>1, SumToIs
<1>7. y + i < Size(x)
  BY <1>1, <1>3, <1>4, <1>5, <1>6
<1>8. /\ s \in RolesOf(x) /\ SumTo(f, s) <= y + i /\ y + i < SumTo(f, s + 1)
      /\ LinearPlace(x, y + i).at = (y + i) - SumTo(f, s)
  BY <1>4, <1>7, PlaceL
<1> HIDE DEF r, s, f
<1>9. r + 1 = s + 1
  <2>1. /\ SumTo(f, (r + 1) - 1) <= y + i /\ SumTo(f, (s + 1) - 1) <= y + i
        /\ r + 1 \in 1..x.n /\ s + 1 \in 1..x.n
    BY <1>1, <1>2, <1>4, <1>8
  <2> QED BY <1>2, <1>4, <1>8, <2>1, PartsApart
<1>10. r = s
  <2>1. r \in Int /\ s \in Int
    BY <1>1, <1>8 DEF RolesOf
  <2> QED BY <1>9, <2>1
<1>11. (y + i) - SumTo(f, s) = (y - SumTo(f, r)) + i
  BY <1>1, <1>3, <1>4, <1>10
<1> QED BY <1>1, <1>8, <1>10, <1>11 DEF r, s

-----------------------------------------------------------------------------
(* RAID0: the zones one after the other, and in each rows of chunks over    *)
(* the members that reach to it.                                            *)

(* Whole chunks before a byte do not change where it is in its own.         *)
LEMMA ChunksBefore ==
    ASSUME NEW c \in Nat \ {0}, NEW e \in Nat, NEW a \in Nat
    PROVE  (c * e + a) \div c = e + (a \div c) /\ (c * e + a) % c = a % c
<1> DEFINE q == a \div c
           w == a % c
<1>1. q \in Nat /\ w \in 0..(c - 1) /\ a = c * q + w
  BY DivMod
<1> HIDE DEF q, w
<1>2. c * e + a = c * (e + q) + w /\ e + q \in Nat
  BY <1>1, SMTT(30)
<1>3. (c * (e + q) + w) \div c = e + q /\ (c * (e + q) + w) % c = w
  BY <1>1, <1>2, DivModUnique
<1> QED BY <1>2, <1>3 DEF q, w

(* The row of a byte is the row of its chunk.                               *)
LEMMA RowOfChunk ==
    ASSUME NEW c \in Nat \ {0}, NEW m \in Nat \ {0}, NEW a \in Nat
    PROVE  a \div (c * m) = (a \div c) \div m
<1> DEFINE q == a \div c
           w == a % c
           u == q \div m
           v == q % m
<1>1. q \in Nat /\ w \in 0..(c - 1) /\ a = c * q + w
  BY DivMod
<1>2. u \in Nat /\ v \in 0..(m - 1) /\ q = m * u + v
  BY <1>1, DivMod
<1> HIDE DEF q, w, u, v
<1>3. v * c + c <= m * c
  BY <1>2, Product
<1>4. m * c = c * m /\ v * c = c * v /\ c * v \in Nat /\ c * m \in Nat \ {0}
  BY <1>2, SMTT(30)
<1>5. c * v + w \in 0..(c * m - 1)
  BY <1>1, <1>3, <1>4
<1>6. a = (c * m) * u + (c * v + w)
  BY <1>1, <1>2, SMTT(60)
<1>7. ((c * m) * u + (c * v + w)) \div (c * m) = u
  BY <1>2, <1>4, <1>5, DivModUnique
<1> QED BY <1>6, <1>7 DEF q, u

(* Two chunks of a row are not on one member, wherever the row is counted   *)
(* from.                                                                    *)
LEMMA ColumnsApart ==
    ASSUME NEW m \in Nat \ {0}, NEW b \in Nat, NEW p \in Nat, NEW q \in Nat,
           p \div m = q \div m, (b + p) % m = (b + q) % m
    PROVE  p = q
<1> DEFINE A == (b + p) \div m
           B == (b + q) \div m
           r == (b + p) % m
           u == p \div m
<1>1. A \in Nat /\ B \in Nat /\ r \in 0..(m - 1) /\ b + p = m * A + r /\ b + q = m * B + r
  <2>1. b + p \in Nat /\ b + q \in Nat
    OBVIOUS
  <2>2. A \in Nat /\ r \in 0..(m - 1) /\ b + p = m * A + r
    BY <2>1, DivMod
  <2>3. B \in Nat /\ b + q = m * B + ((b + q) % m)
    BY <2>1, DivMod
  <2> QED BY <2>2, <2>3
<1>2. /\ u \in Nat /\ p % m \in 0..(m - 1) /\ q % m \in 0..(m - 1)
      /\ p = m * u + (p % m) /\ q = m * u + (q % m) /\ m * u \in Nat
  BY DivMod, ProductNat
<1> HIDE DEF A, B, r, u
<1>3. p - q < m /\ q - p < m
  BY <1>2
<1>4. /\ A < B => A * m + m <= B * m
      /\ B < A => B * m + m <= A * m
      /\ A * m = m * A /\ B * m = m * B /\ m * A \in Nat /\ m * B \in Nat
  BY <1>1, Product, ProductNat
<1>5. p - q = m * A - m * B
  BY <1>1, <1>4
<1>6. ~(A < B) /\ ~(B < A)
  BY <1>3, <1>4, <1>5
<1>7. A = B
  BY <1>1, <1>6
<1> QED BY <1>4, <1>5, <1>7

Array0(x) ==
    /\ x.level = "0"
    /\ x.n \in Nat /\ x.chunk \in Nat \ {0} /\ x.members \in [1..x.n -> Nat]

StripedSet(x) == {Striped(x, r) : r \in RolesOf(x)}

(* What of a member is striped is whole chunks of it (_raid0).              *)
LEMMA StripedIs ==
    ASSUME NEW x, Array0(x), NEW r \in RolesOf(x)
    PROVE  /\ SizeOf(x, r) \in Nat /\ Striped(x, r) \in 0..SizeOf(x, r)
           /\ Multiple(Striped(x, r), x.chunk)
<1>1. SizeOf(x, r) \in Nat
  BY DEF Array0, SizeOf, RolesOf
<1>2. /\ Floor(SizeOf(x, r), x.chunk) \in 0..SizeOf(x, r) /\ SizeOf(x, r) \div x.chunk \in Nat
      /\ Floor(SizeOf(x, r), x.chunk) = x.chunk * (SizeOf(x, r) \div x.chunk)
  BY <1>1, FloorIs DEF Array0
<1> QED BY <1>1, <1>2 DEF Striped, Multiple

(* The heights are those of the members, upwards (_raid0).                  *)
LEMMA HeightsAre ==
    ASSUME NEW x, Array0(x)
    PROVE  /\ Len(Heights(x)) \in Nat /\ Zones(x) = 1..Len(Heights(x))
           /\ \A z \in Zones(x) : Heights(x)[z] \in Nat /\ Multiple(Heights(x)[z], x.chunk)
           /\ \A y, z \in Zones(x) : y < z => Heights(x)[y] < Heights(x)[z]
           /\ \A r \in RolesOf(x) : \E z \in Zones(x) : Heights(x)[z] = Striped(x, r)
<1> DEFINE S == StripedSet(x)
           f == [r \in RolesOf(x) |-> Striped(x, r)]
           h == Heights(x)
<1>1. S \subseteq Nat /\ \A a \in S : Multiple(a, x.chunk)
  BY StripedIs DEF StripedSet
<1>2. IsFiniteSet(S)
  <2>1. f \in Surjection(RolesOf(x), S)
    BY DEF Surjection, StripedSet
  <2>2. IsFiniteSet(RolesOf(x))
    BY FS_Interval DEF RolesOf, Array0
  <2> HIDE DEF f, S
  <2> QED BY <2>1, <2>2, FS_Surjection
<1>3. h = Ascending(S)
  BY DEF Heights, StripedSet
<1> DEFINE n == Cardinality(S)
<1> HIDE DEF S, h
<1>4. /\ n \in Nat /\ h \in [1..n -> S]
      /\ \A i, j \in 1..n : i < j => h[i] < h[j]
      /\ \A a \in S : \E i \in 1..n : h[i] = a
  BY <1>1, <1>2, <1>3, AscendingIs
<1> HIDE DEF n
<1>5. Len(h) = n /\ DOMAIN h = 1..n
  BY <1>4
<1>6. \A r \in RolesOf(x) : Striped(x, r) \in S
  BY DEF S, StripedSet
<1> QED BY <1>1, <1>4, <1>5, <1>6 DEF h, Zones

(* A zone begins where the one before it ends, or at the first sector.      *)
LEMMA ZoneStartIs ==
    ASSUME NEW x, Array0(x), NEW z \in Zones(x)
    PROVE  /\ ZoneStart(x, z) \in Nat /\ ZoneStart(x, z) <= Heights(x)[z]
           /\ Heights(x)[z] \in Nat
           /\ Multiple(ZoneStart(x, z), x.chunk) /\ Multiple(Heights(x)[z] - ZoneStart(x, z), x.chunk)
           /\ \A y \in Zones(x) : y < z => Heights(x)[y] <= ZoneStart(x, z)
<1> DEFINE h == Heights(x)
           s == ZoneStart(x, z)
<1>0. x.chunk \in Nat \ {0}
  BY DEF Array0
<1>1. /\ Len(h) \in Nat /\ Zones(x) = 1..Len(h) /\ z \in 1..Len(h)
      /\ \A y \in Zones(x) : h[y] \in Nat /\ Multiple(h[y], x.chunk)
      /\ \A y, w \in Zones(x) : y < w => h[y] < h[w]
  BY HeightsAre
<1>2. s = IF z = 1 THEN 0 ELSE h[z - 1]
  BY DEF ZoneStart
<1> HIDE DEF h, s
<1>3. s \in Nat /\ s <= h[z] /\ Multiple(s, x.chunk)
  <2>1. CASE z = 1
    <3>1. 0 = x.chunk * 0 /\ 0 \in Nat
      BY <1>0
    <3> QED BY <1>1, <1>2, <2>1, <3>1 DEF Multiple
  <2>2. CASE z # 1
    <3>1. z - 1 \in Zones(x) /\ z - 1 < z
      BY <1>1, <2>2
    <3> QED BY <1>1, <1>2, <2>2, <3>1
  <2> QED BY <2>1, <2>2
<1>4. Multiple(h[z] - s, x.chunk)
  <2>1. PICK d \in Nat : h[z] = x.chunk * d
    BY <1>1 DEF Multiple
  <2>2. PICK e \in Nat : s = x.chunk * e
    BY <1>3 DEF Multiple
  <2>3. h[z] - s = x.chunk * (d - e)
    BY <1>0, <2>1, <2>2, SMTT(30)
  <2>4. e <= d
    <3>1. d < e => d * x.chunk + x.chunk <= e * x.chunk
      BY <1>0, Product
    <3>2. d * x.chunk = x.chunk * d /\ e * x.chunk = x.chunk * e
      BY <1>0, ProductNat
    <3> QED BY <1>0, <1>1, <1>3, <2>1, <2>2, <3>1, <3>2
  <2>5. d - e \in Nat
    BY <2>4
  <2> QED BY <2>3, <2>5 DEF Multiple
<1>5. ASSUME NEW y \in Zones(x), y < z PROVE h[y] <= s
  <2>1. z # 1 /\ z - 1 \in Zones(x) /\ y \in Nat
    BY <1>1, <1>5
  <2>2. CASE y = z - 1
    BY <1>1, <1>2, <2>1, <2>2
  <2>3. CASE y # z - 1
    <3>1. y < z - 1
      BY <1>1, <1>5, <2>1, <2>3
    <3> QED BY <1>1, <1>2, <2>1, <3>1
  <2> QED BY <2>2, <2>3
<1> QED BY <1>1, <1>3, <1>4, <1>5 DEF h, s

(* The members of a zone, each once, reach to its end (_raid0).             *)
LEMMA DevsAre ==
    ASSUME NEW x, Array0(x), NEW z \in Zones(x)
    PROVE  /\ Len(ZoneDevs(x, z)) \in Nat
           /\ ZoneDevs(x, z) \in [1..Len(ZoneDevs(x, z)) -> RolesOf(x)]
           /\ \A i, j \in 1..Len(ZoneDevs(x, z)) : ZoneDevs(x, z)[i] = ZoneDevs(x, z)[j] => i = j
           /\ \A i \in 1..Len(ZoneDevs(x, z)) : Heights(x)[z] <= Striped(x, ZoneDevs(x, z)[i])
<1> DEFINE S == {r \in RolesOf(x) : Striped(x, r) > ZoneStart(x, z)}
           d == ZoneDevs(x, z)
           n == Cardinality(S)
<1>1. S \subseteq RolesOf(x) /\ RolesOf(x) \subseteq Nat
  BY DEF RolesOf
<1>2. IsFiniteSet(S)
  <2>1. IsFiniteSet(RolesOf(x))
    BY FS_Interval DEF RolesOf, Array0
  <2> QED BY <1>1, <2>1, FS_Subset
<1>3. d = Ascending(S)
  BY DEF ZoneDevs
<1>4. ASSUME NEW r \in S PROVE Heights(x)[z] <= Striped(x, r)
  <2>1. r \in RolesOf(x) /\ Striped(x, r) > ZoneStart(x, z)
    OBVIOUS
  <2>2. PICK y \in Zones(x) : Heights(x)[y] = Striped(x, r)
    BY <2>1, HeightsAre
  <2>3. /\ Zones(x) \subseteq Nat /\ Heights(x)[z] \in Nat /\ Heights(x)[y] \in Nat
        /\ z < y => Heights(x)[z] < Heights(x)[y]
    BY HeightsAre
  <2>4. ZoneStart(x, z) \in Nat /\ (y < z => Heights(x)[y] <= ZoneStart(x, z))
    BY ZoneStartIs
  <2>5. ~(y < z)
    BY <2>1, <2>2, <2>3, <2>4
  <2>6. y = z \/ z < y
    BY <2>3, <2>5
  <2> QED BY <2>2, <2>3, <2>6
<1> HIDE DEF S, d
<1>5. /\ n \in Nat /\ d \in [1..n -> S] /\ \A i, j \in 1..n : i < j => d[i] < d[j]
  BY <1>1, <1>2, <1>3, AscendingIs
<1> HIDE DEF n
<1>6. Len(d) = n
  BY <1>5
<1>7. ASSUME NEW i \in 1..n, NEW j \in 1..n, d[i] = d[j] PROVE i = j
  <2>1. d[i] \in Nat /\ d[j] \in Nat /\ i \in Nat /\ j \in Nat
    BY <1>1, <1>5
  <2>2. ~(i < j) /\ ~(j < i)
    BY <1>5, <1>7, <2>1
  <2> QED BY <2>1, <2>2
<1>8. \A i \in 1..n : d[i] \in S
  BY <1>5
<1>9. d \in [1..n -> RolesOf(x)]
  BY <1>1, <1>5
<1> QED BY <1>4, <1>5, <1>6, <1>7, <1>8, <1>9 DEF d

(* How much of the array each zone is.                                      *)
Deep(x) ==
    [y \in Zones(x) |-> (Heights(x)[y] - ZoneStart(x, y)) * Len(ZoneDevs(x, y))]

From(x, z) == SumTo(Deep(x), z - 1)

(* The zones lie one after the other (_raid0).                              *)
LEMMA ZonesAre ==
    ASSUME NEW x, Array0(x)
    PROVE  /\ Numbered(Deep(x), Len(Heights(x)))
           /\ \A z \in Zones(x) :
                 /\ z \in 1..Len(Heights(x))
                 /\ From(x, z) \in Nat /\ Multiple(From(x, z), x.chunk) /\ ZoneEnd(x, z) \in Nat
                 /\ ZoneEnd(x, z)
                       = From(x, z) + (Heights(x)[z] - ZoneStart(x, z)) * Len(ZoneDevs(x, z))
                 /\ Multiple(ZoneEnd(x, z), x.chunk)
<1> DEFINE f == Deep(x)
           n == Len(Heights(x))
<1>1. n \in Nat /\ Zones(x) = 1..n /\ x.chunk \in Nat
  BY HeightsAre DEF Array0
<1>2. ASSUME NEW z \in Zones(x)
      PROVE  /\ f[z] = (Heights(x)[z] - ZoneStart(x, z)) * Len(ZoneDevs(x, z))
             /\ f[z] \in Nat /\ Multiple(f[z], x.chunk)
  <2>1. /\ Len(ZoneDevs(x, z)) \in Nat /\ Heights(x)[z] - ZoneStart(x, z) \in Nat
        /\ Multiple(Heights(x)[z] - ZoneStart(x, z), x.chunk)
    BY ZoneStartIs, DevsAre
  <2>2. PICK e \in Nat : Heights(x)[z] - ZoneStart(x, z) = x.chunk * e
    BY <2>1 DEF Multiple
  <2>3. f[z] = (Heights(x)[z] - ZoneStart(x, z)) * Len(ZoneDevs(x, z))
    BY DEF Deep
  <2>4. e * Len(ZoneDevs(x, z)) \in Nat /\ f[z] = x.chunk * (e * Len(ZoneDevs(x, z)))
    <3> DEFINE m == Len(ZoneDevs(x, z))
    <3>1. m \in Nat /\ f[z] = (x.chunk * e) * m
      BY <2>1, <2>2, <2>3
    <3> HIDE DEF m, f
    <3>2. (x.chunk * e) * m = x.chunk * (e * m) /\ e * m \in Nat
      BY <1>1, <3>1, SMTT(30)
    <3> QED BY <3>1, <3>2 DEF m
  <2>5. f[z] \in Nat
    BY <1>1, <2>4, ProductNat
  <2> QED BY <2>3, <2>4, <2>5 DEF Multiple
<1> HIDE DEF f
<1>3. Numbered(f, n)
  BY <1>1, <1>2 DEF Numbered
<1>4. ASSUME NEW k \in 0..n PROVE Multiple(SumTo(f, k), x.chunk)
  <2>1. k \in Nat /\ Numbered(f, k) /\ \A j \in 1..k : Multiple(f[j], x.chunk)
    BY <1>1, <1>2 DEF Numbered
  <2> QED BY <1>1, <2>1, SumToWhole
<1>5. \A z : ZoneEnd(x, z) = SumTo(f, z)
  BY DEF ZoneEnd, Deep, f
<1>6. ASSUME NEW z \in Zones(x)
      PROVE  /\ z \in 1..n /\ z - 1 \in 0..n /\ z \in 0..n
             /\ SumTo(f, z - 1) \in Nat /\ SumTo(f, z) \in Nat
             /\ SumTo(f, z) = SumTo(f, z - 1) + f[z]
  <2>1. z \in 1..n /\ z - 1 \in 0..n /\ z \in 0..n
    BY <1>1
  <2> QED BY <1>1, <1>3, <2>1, PartIs
<1> QED BY <1>2, <1>3, <1>4, <1>5, <1>6 DEF From, f

(* The zone a byte is in, and the chunk of the zone.                        *)
ZoneOf(x, y) == Min({z \in Zones(x) : y < ZoneEnd(x, z)})
ChunkIn(x, y) == (y - From(x, ZoneOf(x, y))) \div x.chunk

(* What a chunk of the zone is counted from, to tell its member.            *)
Base(x, z) ==
    IF x.layout = 2 /\ ZoneLayoutMatters(x) THEN 0 ELSE From(x, z) \div x.chunk

(* A byte is in the first zone that ends past it (place).                   *)
LEMMA ZoneOfIs ==
    ASSUME NEW x, Array0(x), NEW y \in Nat, y < Size(x)
    PROVE  /\ ZoneOf(x, y) \in Zones(x)
           /\ From(x, ZoneOf(x, y)) <= y /\ y < ZoneEnd(x, ZoneOf(x, y))
<1> DEFINE f == Deep(x)
           n == Len(Heights(x))
           S == {z \in Zones(x) : y < ZoneEnd(x, z)}
           z == ZoneOf(x, y)
<1>1. n \in Nat /\ Zones(x) = 1..n /\ Numbered(f, n)
  BY HeightsAre, ZonesAre
<1>2. \A k : ZoneEnd(x, k) = SumTo(f, k)
  BY DEF ZoneEnd, Deep
<1>3. y < ZoneEnd(x, n)
  BY DEF Size, Array0
<1> HIDE DEF f, n
<1>4. n # 0
  BY <1>2, <1>3, SumToZero
<1>5. S \subseteq Nat /\ S # {}
  <2>1. n \in S
    BY <1>1, <1>3, <1>4
  <2> QED BY <1>1, <2>1
<1>6. z \in S /\ \A k \in S : z <= k
  BY <1>5, MinIsOne DEF ZoneOf
<1> HIDE DEF z
<1>7. z \in 1..n /\ y < SumTo(f, z) /\ \A k \in 1..n : y < SumTo(f, k) => z <= k
  BY <1>1, <1>2, <1>6
<1>8. SumTo(f, z - 1) <= y
  BY <1>1, <1>7, FirstPart
<1> QED BY <1>1, <1>2, <1>7, <1>8 DEF From, f, z

(* No other zone has it.                                                    *)
LEMMA OneZone ==
    ASSUME NEW x, Array0(x), NEW y \in Nat, y < Size(x), NEW z \in Zones(x),
           From(x, z) <= y, y < ZoneEnd(x, z)
    PROVE  ZoneOf(x, y) = z
<1> DEFINE f == Deep(x)
           n == Len(Heights(x))
           w == ZoneOf(x, y)
<1>1. n \in Nat /\ Zones(x) = 1..n /\ Numbered(f, n)
  BY HeightsAre, ZonesAre
<1>2. \A k : ZoneEnd(x, k) = SumTo(f, k) /\ From(x, k) = SumTo(f, k - 1)
  BY DEF ZoneEnd, Deep, From
<1>3. w \in Zones(x) /\ From(x, w) <= y /\ y < ZoneEnd(x, w)
  BY ZoneOfIs
<1> HIDE DEF f, n, w
<1>4. w \in 1..n /\ z \in 1..n /\ SumTo(f, w - 1) <= y /\ y < SumTo(f, w)
      /\ SumTo(f, z - 1) <= y /\ y < SumTo(f, z)
  BY <1>1, <1>2, <1>3
<1>5. w = z
  BY <1>1, <1>4, PartsApart
<1> QED BY <1>5 DEF w

(* Byte y in chunk q of zone z, over m members: the chunk is in row q div m *)
(* of the zone, and the row is below its end.                               *)
Placed(x, y, z, m, q) ==
    /\ m \in Nat \ {0} /\ q \in Nat /\ Base(x, z) \in Nat
    /\ From(x, z) \in Nat /\ y - From(x, z) \in Nat
    /\ (y - From(x, z)) % x.chunk = y % x.chunk
    /\ q \div m \in Nat
    /\ (q \div m) * x.chunk + x.chunk <= Heights(x)[z] - ZoneStart(x, z)
    /\ Raid0Place(x, y) =
          [role |-> ZoneDevs(x, z)[((Base(x, z) + q) % m) + 1],
           at |-> ZoneStart(x, z) + (q \div m) * x.chunk + (y % x.chunk),
           run |-> Min({x.chunk - (y % x.chunk), ZoneEnd(x, z) - y})]

(* Where a byte of a RAID0 array is (place).                                *)
LEMMA Place0 ==
    ASSUME NEW x, Array0(x), NEW y \in Nat, y < Size(x),
           NEW z, z = ZoneOf(x, y), NEW m, m = Len(ZoneDevs(x, z)),
           NEW q, q = ChunkIn(x, y)
    PROVE  Placed(x, y, z, m, q)
<1> DEFINE c == x.chunk
           a == From(x, z)
           o == y - a
           height == Heights(x)[z] - ZoneStart(x, z)
           s == IF x.layout = 2 /\ ZoneLayoutMatters(x) THEN o ELSE y
<1>1. z \in Zones(x) /\ a <= y /\ y < ZoneEnd(x, z)
  BY ZoneOfIs
<1>2. c \in Nat \ {0}
  BY DEF Array0
<1>3. /\ a \in Nat /\ Multiple(a, c) /\ ZoneEnd(x, z) = a + height * m /\ ZoneEnd(x, z) \in Nat
  BY <1>1, ZonesAre
<1>4. m \in Nat /\ height \in Nat /\ Multiple(height, c)
  BY <1>1, ZoneStartIs, DevsAre
<1>5. a = IF z = 1 THEN 0 ELSE ZoneEnd(x, z - 1)
  BY SumToZero DEF From, ZoneEnd, Deep
<1>6. Raid0Place(x, y) =
        [role |-> ZoneDevs(x, z)[((s \div c) % m) + 1],
         at |-> ZoneStart(x, z) + (o \div (c * m)) * c + (s % c),
         run |-> Min({c - (s % c), ZoneEnd(x, z) - y})]
  BY <1>5 DEF Raid0Place, ZoneOf
<1>7. q = o \div c /\ Base(x, z) = IF x.layout = 2 /\ ZoneLayoutMatters(x) THEN 0 ELSE a \div c
  BY DEF ChunkIn, Base
<1> HIDE DEF c, a, height
<1>8. PICK e \in Nat : a = c * e
  BY <1>3 DEF Multiple
<1>9. o \in Nat /\ y = c * e + o /\ c * e \in Nat
  BY <1>1, <1>3, <1>8
<1>10. q \in Nat /\ y \div c = e + q /\ y % c = o % c
  <2> HIDE DEF o
  <2>1. (c * e + o) \div c = e + (o \div c) /\ (c * e + o) % c = o % c
    BY <1>2, <1>9, ChunksBefore
  <2>2. o \div c \in Nat
    BY <1>2, <1>9, DivMod
  <2> QED BY <1>7, <1>9, <2>1, <2>2
<1>11. a \div c = e
  <2>1. (c * e + 0) \div c = e
    <3>1. 0 \in 0..(c - 1)
      BY <1>2
    <3> QED BY <1>2, <1>8, <3>1, DivModUnique
  <2> QED BY <1>8, <1>9, <2>1
<1>12. s % c = y % c /\ s \div c = Base(x, z) + q /\ Base(x, z) \in Nat
  <2>1. CASE x.layout = 2 /\ ZoneLayoutMatters(x)
    BY <1>7, <1>10, <2>1
  <2>2. CASE ~(x.layout = 2 /\ ZoneLayoutMatters(x))
    BY <1>7, <1>10, <1>11, <2>2
  <2> QED BY <2>1, <2>2
<1>13. o < height * m /\ height * m \in Nat
  <2>1. height * m \in Nat
    BY <1>4, ProductNat
  <2> QED BY <1>1, <1>3, <1>9, <2>1
<1>14. m # 0
  <2>1. height * 0 = 0
    BY <1>4
  <2> QED BY <1>9, <1>13, <2>1
<1>15. PICK k \in Nat : height = c * k
  BY <1>4 DEF Multiple
<1>16. q \div m \in Nat /\ o \div (c * m) = q \div m
  <2> HIDE DEF o
  <2>1. o \div (c * m) = (o \div c) \div m
    BY <1>2, <1>4, <1>9, <1>14, RowOfChunk
  <2>2. q \div m \in Nat
    BY <1>4, <1>10, <1>14, DivMod
  <2> QED BY <1>7, <2>1, <2>2
<1>17. q \div m < k
  <2> HIDE DEF o
  <2>1. c * m \in Nat \ {0} /\ height * m = k * (c * m)
    BY <1>2, <1>4, <1>14, <1>15, SMTT(30)
  <2>2. o \div (c * m) < k
    BY <1>9, <1>13, <1>15, <2>1, DivBelow
  <2> QED BY <1>16, <2>2
<1>18. (q \div m) * c + c <= height
  <2> DEFINE row == q \div m
  <2>1. row \in Nat /\ row < k
    BY <1>16, <1>17
  <2> HIDE DEF row
  <2>2. row * c + c <= k * c /\ k * c = c * k
    BY <1>2, <1>15, <2>1, Product, ProductNat
  <2> QED BY <1>15, <2>2 DEF row
<1>19. Raid0Place(x, y) =
        [role |-> ZoneDevs(x, z)[((Base(x, z) + q) % m) + 1],
         at |-> ZoneStart(x, z) + (q \div m) * c + (y % c),
         run |-> Min({c - (y % c), ZoneEnd(x, z) - y})]
  <2> HIDE DEF o, s
  <2> QED BY <1>6, <1>12, <1>16
<1>20. o % c = y % c
  BY <1>10
<1> QED BY <1>3, <1>4, <1>7, <1>9, <1>10, <1>12, <1>14, <1>16, <1>18, <1>19, <1>20
        DEF c, a, height, Placed

(* A byte is inside the member (place).                                     *)
LEMMA Inside0 ==
    ASSUME NEW x, Array0(x), NEW y \in Nat, y < Size(x)
    PROVE  LET z == ZoneOf(x, y)
               p == Raid0Place(x, y)
           IN /\ p.role \in RolesOf(x)
              /\ ZoneStart(x, z) <= p.at /\ p.at < Heights(x)[z]
              /\ p.at \in Nat /\ p.at < SizeOf(x, p.role)
              /\ p.run \in Nat \ {0}
<1> DEFINE z == ZoneOf(x, y)
           d == ZoneDevs(x, z)
           m == Len(d)
           c == x.chunk
           row == ChunkIn(x, y) \div m
           col == ((Base(x, z) + ChunkIn(x, y)) % m) + 1
           start == ZoneStart(x, z)
           h == Heights(x)[z]
           w == y % c
           p == Raid0Place(x, y)
           left == ZoneEnd(x, z) - y
<1>1. z \in Zones(x) /\ y < ZoneEnd(x, z)
  BY ZoneOfIs
<1>2. c \in Nat \ {0} /\ w \in 0..(c - 1)
  BY DivMod DEF Array0
<1>3. start \in Nat /\ h \in Nat
  BY <1>1, ZoneStartIs
<1>4. /\ m \in Nat \ {0} /\ row \in Nat /\ Base(x, z) + ChunkIn(x, y) \in Nat
      /\ row * c + c <= h - start
      /\ p = [role |-> d[col], at |-> start + row * c + w, run |-> Min({c - w, left})]
  <2> DEFINE q == ChunkIn(x, y)
  <2>1. z = ZoneOf(x, y) /\ m = Len(ZoneDevs(x, z)) /\ q = ChunkIn(x, y)
    OBVIOUS
  <2> HIDE DEF z, m, q
  <2>2. Placed(x, y, z, m, q)
    BY <2>1, Place0
  <2>3. /\ m \in Nat \ {0} /\ q \in Nat /\ Base(x, z) \in Nat /\ q \div m \in Nat
        /\ (q \div m) * c + c <= h - start
        /\ p = [role |-> d[((Base(x, z) + q) % m) + 1], at |-> start + (q \div m) * c + w,
                run |-> Min({c - w, left})]
    BY <2>2 DEF Placed
  <2>4. Base(x, z) + q \in Nat
    BY <2>3
  <2> QED BY <2>3, <2>4 DEF q
<1>5. left \in Nat \ {0}
  BY <1>1, ZonesAre
<1>6. col \in 1..m
  <2>1. (Base(x, z) + ChunkIn(x, y)) % m \in 0..(m - 1)
    BY <1>4, DivMod
  <2> HIDE DEF m
  <2> QED BY <1>4, <2>1
<1>7. d[col] \in RolesOf(x) /\ h <= Striped(x, d[col])
  <2> HIDE DEF col, z
  <2> QED BY <1>1, <1>6, DevsAre
<1>8. SizeOf(x, d[col]) \in Nat /\ Striped(x, d[col]) \in 0..SizeOf(x, d[col])
  BY <1>7, StripedIs
<1>9. row * c \in Nat
  BY <1>2, <1>4, ProductNat
<1> HIDE DEF z, d, m, c, row, col, start, h, w, p, left
<1>10. p.at = start + row * c + w /\ p.role = d[col] /\ p.run = Min({c - w, left})
  BY <1>4
<1>11. start <= p.at /\ p.at < h /\ p.at \in Nat
  BY <1>2, <1>3, <1>4, <1>9, <1>10
<1>12. p.run \in Nat \ {0}
  BY <1>2, <1>5, <1>10, MinTwo
<1>13. p.at \in Nat /\ p.at < SizeOf(x, p.role)
  BY <1>3, <1>7, <1>8, <1>10, <1>11
<1> QED BY <1>7, <1>10, <1>11, <1>12, <1>13 DEF z, start, h, p

(* A byte of a member is that of one byte of the array (place).             *)
LEMMA Apart0 ==
    ASSUME NEW x, Array0(x), NEW y \in Nat, NEW u \in Nat, y < Size(x), u < Size(x),
           Raid0Place(x, y).role = Raid0Place(x, u).role,
           Raid0Place(x, y).at = Raid0Place(x, u).at
    PROVE  y = u
<1> DEFINE z == ZoneOf(x, y)
           v == ZoneOf(x, u)
           c == x.chunk
           d == ZoneDevs(x, z)
           m == Len(d)
           q == ChunkIn(x, y)
           r == ChunkIn(x, u)
           b == Base(x, z)
           a == From(x, z)
           start == ZoneStart(x, z)
<1>1. z \in Zones(x) /\ v \in Zones(x) /\ Zones(x) \subseteq Nat
  BY ZoneOfIs, HeightsAre
<1>2. z = v
  <2> DEFINE at == Raid0Place(x, y).at
             bt == Raid0Place(x, u).at
  <2>1. ZoneStart(x, z) <= at /\ at < Heights(x)[z] /\ at \in Int
    BY Inside0
  <2>2. ZoneStart(x, v) <= bt /\ bt < Heights(x)[v]
    BY Inside0
  <2>3. at = bt
    OBVIOUS
  <2>4. /\ ZoneStart(x, z) \in Nat /\ Heights(x)[z] \in Nat
        /\ v < z => Heights(x)[v] <= ZoneStart(x, z)
    BY <1>1, ZoneStartIs
  <2>5. /\ ZoneStart(x, v) \in Nat /\ Heights(x)[v] \in Nat
        /\ z < v => Heights(x)[z] <= ZoneStart(x, v)
    BY <1>1, ZoneStartIs
  <2> HIDE DEF z, v, at, bt
  <2>6. ~(z < v) /\ ~(v < z)
    BY <2>1, <2>2, <2>3, <2>4, <2>5
  <2>7. z \in Nat /\ v \in Nat
    BY <1>1
  <2> QED BY <2>6, <2>7
<1>3. c \in Nat \ {0} /\ y % c \in 0..(c - 1) /\ u % c \in 0..(c - 1) /\ start \in Nat
  BY <1>1, DivMod, ZoneStartIs DEF Array0
<1>4. /\ m \in Nat \ {0} /\ q \in Nat /\ b \in Nat /\ q \div m \in Nat
      /\ y - a \in Nat /\ a \in Nat /\ (y - a) % c = y % c
      /\ Raid0Place(x, y).role = d[((b + q) % m) + 1]
      /\ Raid0Place(x, y).at = start + (q \div m) * c + (y % c)
  <2>1. z = ZoneOf(x, y) /\ m = Len(ZoneDevs(x, z)) /\ q = ChunkIn(x, y)
    OBVIOUS
  <2> HIDE DEF z, m, q
  <2>2. Placed(x, y, z, m, q)
    BY <2>1, Place0
  <2> QED BY <2>2 DEF Placed
<1>5. /\ r \in Nat /\ r \div m \in Nat
      /\ u - a \in Nat /\ (u - a) % c = u % c
      /\ Raid0Place(x, u).role = d[((b + r) % m) + 1]
      /\ Raid0Place(x, u).at = start + (r \div m) * c + (u % c)
  <2>1. z = ZoneOf(x, u) /\ m = Len(ZoneDevs(x, z)) /\ r = ChunkIn(x, u)
    BY <1>2
  <2> HIDE DEF z, m, r
  <2>2. Placed(x, u, z, m, r)
    BY <2>1, Place0
  <2> QED BY <2>2 DEF Placed
<1>6. q = (y - a) \div c /\ r = (u - a) \div c
  BY <1>2 DEF ChunkIn
<1>7. /\ \A i \in 1..m : \A j \in 1..m : d[i] = d[j] => i = j
  BY <1>1, DevsAre
<1> HIDE DEF z, v, d, m, q, r, b, a, start, c
<1>8. q \div m = r \div m /\ y % c = u % c
  <2> DEFINE k == q \div m
             l == r \div m
             e == y % c
             f == u % c
  <2>1. k \in Nat /\ l \in Nat /\ e \in 0..(c - 1) /\ f \in 0..(c - 1)
        /\ start + k * c + e = start + l * c + f
    BY <1>3, <1>4, <1>5
  <2>2. k * c \in Nat /\ l * c \in Nat
    BY <1>3, <2>1, ProductNat
  <2> HIDE DEF k, l, e, f
  <2>3. e + k * c = f + l * c
    BY <1>3, <2>1, <2>2
  <2>4. e = f /\ k = l
    BY <1>3, <2>1, <2>3, RowAndByte
  <2> QED BY <2>4 DEF k, l, e, f
<1>9. (b + q) % m = (b + r) % m
  <2> DEFINE i == (b + q) % m
             j == (b + r) % m
  <2>1. i \in 0..(m - 1) /\ j \in 0..(m - 1)
    <3>1. b + q \in Nat /\ b + r \in Nat
      BY <1>4, <1>5
    <3> QED BY <1>4, <3>1, DivMod
  <2>2. d[i + 1] = d[j + 1]
    BY <1>4, <1>5
  <2> HIDE DEF i, j
  <2>3. i + 1 \in 1..m /\ j + 1 \in 1..m
    BY <1>4, <2>1
  <2>4. i + 1 = j + 1
    BY <1>7, <2>2, <2>3
  <2>5. i = j
    BY <2>1, <2>4
  <2> QED BY <2>5 DEF i, j
<1>10. q = r
  BY <1>4, <1>5, <1>8, <1>9, ColumnsApart
<1>11. y - a = u - a
  <2>1. (y - a) \div c = (u - a) \div c /\ (y - a) % c = (u - a) % c
    BY <1>4, <1>5, <1>6, <1>8, <1>10
  <2> QED BY <1>3, <1>4, <1>5, <2>1, ChunkAndByte
<1> QED BY <1>4, <1>11

(* Up to the end of its chunk, or of the zone, it goes straight on (place). *)
LEMMA Straight0 ==
    ASSUME NEW x, Array0(x), NEW y \in Nat, y < Size(x), NEW i \in 0..(Raid0Place(x, y).run - 1)
    PROVE  /\ Raid0Place(x, y + i).role = Raid0Place(x, y).role
           /\ Raid0Place(x, y + i).at = Raid0Place(x, y).at + i
<1> DEFINE z == ZoneOf(x, y)
           c == x.chunk
           d == ZoneDevs(x, z)
           m == Len(d)
           q == ChunkIn(x, y)
           b == Base(x, z)
           a == From(x, z)
           start == ZoneStart(x, z)
           end == ZoneEnd(x, z)
<1>1. z \in Zones(x) /\ a <= y /\ y < end
  BY ZoneOfIs
<1>2. end \in Nat /\ start \in Nat /\ c \in Nat \ {0} /\ y % c \in 0..(c - 1)
  BY <1>1, DivMod, ZonesAre, ZoneStartIs DEF Array0
<1>3. /\ q \in Nat /\ q \div m \in Nat /\ y - a \in Nat /\ a \in Nat /\ (y - a) % c = y % c
      /\ Raid0Place(x, y).role = d[((b + q) % m) + 1]
      /\ Raid0Place(x, y).at = start + (q \div m) * c + (y % c)
      /\ Raid0Place(x, y).run = Min({c - (y % c), end - y})
  <2>1. z = ZoneOf(x, y) /\ m = Len(ZoneDevs(x, z)) /\ q = ChunkIn(x, y)
    OBVIOUS
  <2> HIDE DEF z, m, q
  <2>2. Placed(x, y, z, m, q)
    BY <2>1, Place0
  <2> QED BY <2>2 DEF Placed
<1>4. Raid0Place(x, y).run <= c - (y % c) /\ Raid0Place(x, y).run <= end - y
      /\ Raid0Place(x, y).run \in Nat
  <2> DEFINE k == c - (y % c)
             l == end - y
  <2>1. k \in Nat /\ l \in Nat
    <3> HIDE DEF c, end
    <3> QED BY <1>1, <1>2
  <2>2. Raid0Place(x, y).run = Min({k, l})
    BY <1>3
  <2> HIDE DEF k, l
  <2>3. Raid0Place(x, y).run <= k /\ Raid0Place(x, y).run <= l /\ Raid0Place(x, y).run \in Nat
    BY <2>1, <2>2, MinTwo
  <2> QED BY <2>3 DEF k, l
<1>5. i \in Nat /\ i \in 0..(c - (y % c) - 1) /\ y + i \in Nat /\ a <= y + i /\ y + i < end
  <2> DEFINE run == Raid0Place(x, y).run
             w == y % c
  <2>1. i \in 0..(run - 1) /\ run \in Nat /\ run <= c - w /\ run <= end - y /\ w \in Nat
    BY <1>2, <1>4
  <2>2. a \in Nat /\ a <= y /\ y < end /\ end \in Nat /\ c \in Nat
    BY <1>1, <1>2, <1>3
  <2> HIDE DEF run, w, a, c, end
  <2>3. i \in 0..(c - w - 1) /\ y + i \in Nat /\ a <= y + i /\ y + i < end
    BY <2>1, <2>2
  <2> QED BY <2>3 DEF w
<1>6. y + i < Size(x)
  <2> DEFINE n == Len(Heights(x))
             f == Deep(x)
  <2>1. n \in Nat /\ Numbered(f, n) /\ z \in 0..n /\ n \in z..n
    BY <1>1, HeightsAre, ZonesAre
  <2>2. end = SumTo(f, z) /\ Size(x) = SumTo(f, n)
    BY DEF Array0, Size, ZoneEnd, Deep
  <2> HIDE DEF n, f, z, end
  <2>3. end <= Size(x) /\ Size(x) \in Nat
    BY <2>1, <2>2, SumToGrows, SumToIs
  <2> QED BY <1>2, <1>5, <2>3
<1>7. ZoneOf(x, y + i) = z
  <2> HIDE DEF z
  <2> QED BY <1>1, <1>5, <1>6, OneZone
<1>8. (y + i) % c = (y % c) + i
  BY <1>2, <1>5, InOneChunk
<1>9. ChunkIn(x, y + i) = q
  <2>1. q = (y - a) \div c /\ ChunkIn(x, y + i) = ((y + i) - a) \div c
    BY <1>7 DEF ChunkIn
  <2> HIDE DEF a, c, q, z
  <2>2. (y + i) - a = (y - a) + i /\ i \in 0..(c - ((y - a) % c) - 1)
    BY <1>3, <1>5
  <2>3. ((y - a) + i) \div c = (y - a) \div c
    BY <1>2, <1>3, <2>2, InOneChunk
  <2> QED BY <2>1, <2>2, <2>3
<1>10. /\ Raid0Place(x, y + i).role = d[((b + q) % m) + 1]
      /\ Raid0Place(x, y + i).at = start + (q \div m) * c + ((y + i) % c)
  <2> DEFINE t == y + i
  <2>1. /\ t \in Nat /\ t < Size(x)
        /\ z = ZoneOf(x, t) /\ m = Len(ZoneDevs(x, z)) /\ q = ChunkIn(x, t)
    BY <1>5, <1>6, <1>7, <1>9
  <2> HIDE DEF z, m, q, t
  <2>2. Placed(x, t, z, m, q)
    BY <2>1, Place0
  <2>3. /\ Raid0Place(x, t).role = d[((b + q) % m) + 1]
        /\ Raid0Place(x, t).at = start + (q \div m) * c + (t % c)
    BY <2>2 DEF Placed
  <2> QED BY <2>3 DEF t
<1>11. (q \div m) * c \in Nat
  BY <1>2, <1>3, ProductNat
<1> DEFINE k == (q \div m) * c
           w == y % c
<1>12. start + k + ((y + i) % c) = (start + k + w) + i
  <2>1. (y + i) % c = w + i /\ w \in Nat /\ k \in Nat /\ start \in Nat
    BY <1>2, <1>8, <1>11
  <2> HIDE DEF k, w, start, c
  <2> QED BY <1>5, <2>1
<1> HIDE DEF k, w, start, c, d, m, q, b
<1> QED BY <1>3, <1>10, <1>12 DEF k, w

-----------------------------------------------------------------------------
(* LVM: the segments of a volume, each over areas of physical volumes.      *)

(* A product of a sum, and of a product, which extents are counted in.      *)
LEMMA ProductSum == \A a, b, c \in Nat : (a + b) * c = a * c + b * c
  BY SMTT(30)

(* In either order.                                                         *)
LEMMA ProductOf == \A a, b, c \in Nat : (a * b) * c = a * (b * c)
  BY SMTT(30)

(* More of them are longer.                                                 *)
LEMMA ProductGrows ==
    ASSUME NEW a \in Nat, NEW b \in Nat, NEW c \in Nat, a <= b
    PROVE  a * c \in Nat /\ b * c \in Nat /\ a * c <= b * c
<1>1. a * c \in Nat /\ b * c \in Nat
  BY ProductNat
<1>2. CASE a = b
  BY <1>1, <1>2
<1>3. CASE a < b
  BY <1>1, <1>3, Product
<1> QED BY <1>1, <1>2, <1>3

(* Byte b of stripes of st bytes over n areas is on area k, at z there.     *)
StripeFor(n, st, b) == (b \div st) % n
InStripe(n, st, b) == ((b \div st) \div n) * st + (b % st)

(* It is inside the area, of rows rows.                                     *)
LEMMA StripeInArea ==
    ASSUME NEW n \in Nat \ {0}, NEW st \in Nat \ {0}, NEW rows \in Nat, NEW b \in Nat, b < (rows * n) * st
    PROVE  /\ StripeFor(n, st, b) \in 0..(n - 1)
           /\ InStripe(n, st, b) \in Nat /\ InStripe(n, st, b) < rows * st
<1> DEFINE c == b \div st
           q == c \div n
           w == b % st
<1>1. c \in Nat /\ w \in 0..(st - 1) /\ rows * n \in Nat
  BY DivMod, ProductNat
<1>2. c < rows * n
  BY <1>1, DivBelow
<1> HIDE DEF c
<1>3. c % n \in 0..(n - 1) /\ q \in Nat
  BY <1>1, DivMod
<1>4. q < rows
  BY <1>1, <1>2, DivBelow
<1>5. q * st + st <= rows * st /\ q * st \in Nat /\ rows * st \in Nat
  BY <1>3, <1>4, Product, ProductNat
<1> HIDE DEF q, w
<1>6. q * st + w \in Nat /\ q * st + w < rows * st
  BY <1>1, <1>5
<1> QED BY <1>3, <1>6 DEF StripeFor, InStripe, c, q, w

(* And a byte of the area is that of one byte of the stripes.               *)
LEMMA StripeOnce ==
    ASSUME NEW n \in Nat \ {0}, NEW st \in Nat \ {0}, NEW a \in Nat, NEW b \in Nat,
           StripeFor(n, st, a) = StripeFor(n, st, b), InStripe(n, st, a) = InStripe(n, st, b)
    PROVE  a = b
<1> DEFINE c(y) == y \div st
           q(y) == c(y) \div n
           w(y) == y % st
           k(y) == c(y) % n
<1>1. ASSUME NEW y \in Nat
      PROVE  /\ c(y) \in Nat /\ w(y) \in 0..(st - 1) /\ y = st * c(y) + w(y)
             /\ q(y) \in Nat /\ k(y) \in 0..(n - 1) /\ c(y) = n * q(y) + k(y)
  <2>1. c(y) \in Nat /\ w(y) \in 0..(st - 1) /\ y = st * c(y) + w(y)
    BY DivMod
  <2> HIDE DEF c
  <2>2. q(y) \in Nat /\ k(y) \in 0..(n - 1) /\ c(y) = n * q(y) + k(y)
    BY <2>1, DivMod
  <2> QED BY <2>1, <2>2
<1>2. k(a) = k(b) /\ q(a) * st + w(a) = q(b) * st + w(b)
  BY DEF StripeFor, InStripe
<1> HIDE DEF c, q, w, k
<1>3. ASSUME NEW y \in Nat PROVE (st * q(y) + w(y)) \div st = q(y) /\ (st * q(y) + w(y)) % st = w(y)
  <2>1. q(y) \in Nat /\ w(y) \in 0..(st - 1)
    BY <1>1
  <2>2. PICK e, r : e = q(y) /\ r = w(y)
    OBVIOUS
  <2> QED BY <2>1, <2>2, DivModUnique
<1>4. st * q(a) = q(a) * st /\ st * q(b) = q(b) * st
  BY <1>1, ProductNat
<1>5. q(a) = q(b) /\ w(a) = w(b)
  BY <1>2, <1>3, <1>4
<1>6. c(a) = c(b)
  BY <1>1, <1>2, <1>5
<1> QED BY <1>1, <1>5, <1>6

(* i bytes on in the same stripe.                                           *)
LEMMA StripeStraight ==
    ASSUME NEW n \in Nat \ {0}, NEW st \in Nat \ {0}, NEW b \in Nat, NEW i \in 0..(st - (b % st) - 1)
    PROVE  /\ StripeFor(n, st, b + i) = StripeFor(n, st, b)
           /\ InStripe(n, st, b + i) = InStripe(n, st, b) + i
<1> DEFINE c == b \div st
           w == b % st
           q == c \div n
<1>1. c \in Nat /\ w \in 0..(st - 1) /\ b = st * c + w
  BY DivMod
<1>0. i \in 0..(st - w - 1)
  OBVIOUS
<1>2. w + i \in 0..(st - 1) /\ st * c \in Nat /\ i \in Nat
  <2> HIDE DEF c, w
  <2> QED BY <1>0, <1>1, ProductNat
<1> HIDE DEF c, w
<1>3. (st * c + (w + i)) \div st = c /\ (st * c + (w + i)) % st = w + i
  BY <1>1, <1>2, DivModUnique
<1>4. b + i = st * c + (w + i)
  BY <1>1, <1>2
<1>5. (b + i) \div st = c /\ (b + i) % st = w + i
  BY <1>3, <1>4
<1>6. q \in Nat /\ q * st \in Nat
  <2>1. q \in Nat
    BY <1>1, DivMod
  <2> QED BY <2>1, ProductNat
<1>7. InStripe(n, st, b + i) = q * st + (w + i) /\ InStripe(n, st, b) = q * st + w
  BY <1>5 DEF InStripe, c, w, q
<1> HIDE DEF q
<1>8. q * st + (w + i) = (q * st + w) + i
  BY <1>1, <1>2, <1>6
<1> QED BY <1>5, <1>7, <1>8 DEF StripeFor, c

(* A segment that is read: its areas are physical volumes in the image, and *)
(* stripes divide what it has of each.                                      *)
SegOK(v, s, size) ==
    /\ s \in Segment /\ Len(s.areas) \in Nat \ {0}
    /\ Len(s.areas) # 1 =>
          /\ s.stripe # 0
          /\ s.count % Len(s.areas) = 0
          /\ ((s.count \div Len(s.areas)) * v.ext) % s.stripe = 0
    /\ \A k \in 1..Len(s.areas) :
          At(v, s.areas[k]) \in Nat /\ At(v, s.areas[k]) + (s.count \div Len(s.areas)) * v.ext <= size

AreasApart(v, s, a, t, b) ==
    \/ At(v, a) + (s.count \div Len(s.areas)) * v.ext <= At(v, b)
    \/ At(v, b) + (t.count \div Len(t.areas)) * v.ext <= At(v, a)

(* A volume that is read: its segments are one after the other, and no two  *)
(* of its areas have a sector of the image in common.                       *)
VolumeOK(v, segs, size) ==
    /\ v.ext \in Nat \ {0} /\ size \in Nat
    /\ segs \in Seq(Segment) /\ Len(segs) # 0
    /\ \A i \in 1..Len(segs) : SegOK(v, segs[i], size) /\ segs[i].start = Before(segs, i)
    /\ \A i, j \in 1..Len(segs) :
          \A k \in 1..Len(segs[i].areas), l \in 1..Len(segs[j].areas) :
             <<i, k>> # <<j, l>> => AreasApart(v, segs[i], segs[i].areas[k], segs[j], segs[j].areas[l])

(* What stripes and sectors of an area a segment has.                       *)
StripeSize(v, s) == IF Len(s.areas) = 1 THEN s.count * v.ext ELSE s.stripe
AreaSize(v, s) == (s.count \div Len(s.areas)) * v.ext

(* Where byte x of a segment is: on which area, and there.                  *)
AreaFor(v, s, x) == StripeFor(Len(s.areas), StripeSize(v, s), x) + 1
InArea(v, s, x) == InStripe(Len(s.areas), StripeSize(v, s), x)
Spot(v, s, x) == At(v, s.areas[AreaFor(v, s, x)]) + InArea(v, s, x)

(* A segment is rows of stripes over its areas, and has as many on each.    *)
LEMMA StripesOf ==
    ASSUME NEW v, NEW s, NEW size \in Nat, v.ext \in Nat \ {0}, SegOK(v, s, size), s.count # 0
    PROVE  /\ Len(s.areas) \in Nat \ {0} /\ StripeSize(v, s) \in Nat \ {0} /\ AreaSize(v, s) \in Nat
           /\ s.count * v.ext \in Nat
           /\ \E rows \in Nat : /\ AreaSize(v, s) = rows * StripeSize(v, s)
                                /\ s.count * v.ext = (rows * Len(s.areas)) * StripeSize(v, s)
<1>1. s.count \in Nat /\ s.stripe \in Nat /\ Len(s.areas) \in Nat \ {0}
  BY DEF SegOK, Segment
<1>2. PICK n, c, st, e : n = Len(s.areas) /\ c = s.count /\ st = s.stripe /\ e = v.ext
  OBVIOUS
<1>3. n \in Nat \ {0} /\ c \in Nat \ {0} /\ st \in Nat /\ e \in Nat \ {0}
  BY <1>1, <1>2
<1>4. c * e \in Nat /\ c * e # 0
  <2>1. 0 * e + e <= c * e /\ 0 * e = 0 /\ c * e \in Nat
    BY <1>3, Product, ProductNat
  <2> QED BY <1>3, <2>1
<1>5. CASE n = 1
  <2>1. c \div n = c
    BY <1>3, <1>5, SMTT(30)
  <2>2. 1 * (c * e) = c * e /\ (1 * 1) * (c * e) = c * e
    BY <1>4
  <2> QED BY <1>1, <1>2, <1>3, <1>4, <1>5, <2>1, <2>2 DEF StripeSize, AreaSize
<1>6. CASE n # 1
  <2> DEFINE per == c \div n
             rows == (per * e) \div st
  <2>1. st # 0 /\ c % n = 0 /\ (per * e) % st = 0
    BY <1>2, <1>6 DEF SegOK
  <2>2. per \in Nat /\ c = n * per
    <3>1. per \in Nat /\ c % n \in 0..(n - 1) /\ c = n * per + (c % n)
      BY <1>3, DivMod
    <3>2. n * per \in Nat
      BY <1>3, <3>1, ProductNat
    <3> QED BY <2>1, <3>1, <3>2
  <2> HIDE DEF per
  <2>3. per * e \in Nat
    BY <1>3, <2>2, ProductNat
  <2>4. rows \in Nat /\ per * e = st * rows
    <3>1. PICK b : b = per * e
      OBVIOUS
    <3>2. b \div st \in Nat /\ b = st * (b \div st) + (b % st)
      BY <1>3, <2>1, <2>3, <3>1, DivMod
    <3>3. st * (b \div st) \in Nat /\ b % st = 0
      BY <1>3, <2>1, <3>1, <3>2, ProductNat
    <3> QED BY <2>3, <3>1, <3>2, <3>3
  <2> HIDE DEF rows
  <2>5. c * e = n * (per * e)
    BY <1>3, <2>2, ProductOf
  <2>6. n * (per * e) = (rows * n) * st
    BY <1>3, <2>4, ProductOf, ProductNat
  <2>7. st * rows = rows * st
    BY <1>3, <2>4, ProductNat
  <2>8. StripeSize(v, s) = st /\ AreaSize(v, s) = per * e
    BY <1>2, <1>6 DEF StripeSize, AreaSize, per
  <2> QED BY <1>2, <1>3, <1>4, <2>1, <2>3, <2>4, <2>5, <2>6, <2>7, <2>8
<1> QED BY <1>5, <1>6

(* A byte of a segment is inside an area of it, and no other byte is there. *)
LEMMA SpotIs ==
    ASSUME NEW v, NEW s, NEW size \in Nat, v.ext \in Nat \ {0}, SegOK(v, s, size),
           NEW x \in Nat, x < s.count * v.ext
    PROVE  /\ AreaFor(v, s, x) \in 1..Len(s.areas) /\ InArea(v, s, x) \in Nat
           /\ InArea(v, s, x) < AreaSize(v, s)
           /\ Spot(v, s, x) \in Nat /\ Spot(v, s, x) < size
<1>0. s.count # 0 /\ s.count \in Nat
  <2>1. 0 * v.ext = 0
    OBVIOUS
  <2> QED BY <2>1 DEF SegOK, Segment
<1>1. PICK n, st, a, t : n = Len(s.areas) /\ st = StripeSize(v, s) /\ a = AreaSize(v, s) /\ t = s.count * v.ext
  OBVIOUS
<1>2. n \in Nat \ {0} /\ st \in Nat \ {0} /\ a \in Nat
  BY <1>0, <1>1, StripesOf
<1>3. PICK rows \in Nat : a = rows * st /\ t = (rows * n) * st
  BY <1>0, <1>1, StripesOf
<1>4. x < (rows * n) * st
  BY <1>1, <1>3
<1>5. /\ StripeFor(n, st, x) \in 0..(n - 1)
      /\ InStripe(n, st, x) \in Nat /\ InStripe(n, st, x) < a
  BY <1>2, <1>3, <1>4, StripeInArea
<1>6. AreaFor(v, s, x) \in 1..n /\ InArea(v, s, x) \in Nat /\ InArea(v, s, x) < a
  BY <1>1, <1>2, <1>5 DEF AreaFor, InArea
<1>7. /\ At(v, s.areas[AreaFor(v, s, x)]) \in Nat
      /\ At(v, s.areas[AreaFor(v, s, x)]) + a <= size
  BY <1>1, <1>6 DEF SegOK, AreaSize
<1> QED BY <1>1, <1>2, <1>6, <1>7 DEF Spot

(* No two bytes of a volume are in one place (stripes, areas).              *)
LEMMA SpotsApart ==
    ASSUME NEW v, NEW segs, NEW size, VolumeOK(v, segs, size),
           NEW i \in 1..Len(segs), NEW j \in 1..Len(segs), NEW x \in Nat, NEW y \in Nat,
           x < segs[i].count * v.ext, y < segs[j].count * v.ext,
           Spot(v, segs[i], x) = Spot(v, segs[j], y)
    PROVE  i = j /\ x = y
<1>1. PICK s, t : s = segs[i] /\ t = segs[j]
  OBVIOUS
<1>2. /\ SegOK(v, s, size) /\ SegOK(v, t, size) /\ size \in Nat /\ v.ext \in Nat \ {0}
  BY <1>1 DEF VolumeOK
<1>3. PICK k, l : k = AreaFor(v, s, x) /\ l = AreaFor(v, t, y)
  OBVIOUS
<1>4. /\ k \in 1..Len(s.areas) /\ InArea(v, s, x) \in Nat /\ InArea(v, s, x) < AreaSize(v, s)
      /\ l \in 1..Len(t.areas) /\ InArea(v, t, y) \in Nat /\ InArea(v, t, y) < AreaSize(v, t)
  BY <1>1, <1>2, <1>3, SpotIs
<1>5. PICK a, b : a = At(v, s.areas[k]) /\ b = At(v, t.areas[l])
  OBVIOUS
<1>6. a \in Nat /\ b \in Nat /\ a + InArea(v, s, x) = b + InArea(v, t, y)
  BY <1>1, <1>2, <1>3, <1>4, <1>5 DEF SegOK, Spot
<1>7. <<i, k>> = <<j, l>>
  <2>1. SUFFICES ASSUME <<i, k>> # <<j, l>> PROVE FALSE
    OBVIOUS
  <2>2. AreasApart(v, s, s.areas[k], t, t.areas[l])
    BY <1>1, <1>4, <2>1 DEF VolumeOK
  <2>3. a + AreaSize(v, s) <= b \/ b + AreaSize(v, t) <= a
    BY <1>5, <2>2 DEF AreasApart, AreaSize
  <2>4. PICK p, q, ps, qs : p = InArea(v, s, x) /\ q = InArea(v, t, y) /\ ps = AreaSize(v, s) /\ qs = AreaSize(v, t)
    OBVIOUS
  <2>5. ps \in Nat /\ qs \in Nat
    <3>1. s.count # 0 /\ t.count # 0
      <4>1. 0 * v.ext = 0
        BY <1>2
      <4> QED BY <1>1, <4>1
    <3> QED BY <1>2, <2>4, <3>1, StripesOf
  <2> QED BY <1>4, <1>6, <2>3, <2>4, <2>5
<1>8. i = j /\ k = l /\ s = t /\ a = b
  BY <1>1, <1>5, <1>7
<1>9. InArea(v, s, x) = InArea(v, s, y)
  BY <1>4, <1>6, <1>8
<1>10. Len(s.areas) \in Nat \ {0} /\ StripeSize(v, s) \in Nat \ {0}
  <2>1. s.count # 0
    <3>1. 0 * v.ext = 0
      BY <1>2
    <3> QED BY <1>1, <3>1
  <2> QED BY <1>2, <2>1, StripesOf
<1>11. StripeFor(Len(s.areas), StripeSize(v, s), x) = StripeFor(Len(s.areas), StripeSize(v, s), y)
  <2>1. ASSUME NEW c \in Nat PROVE StripeFor(Len(s.areas), StripeSize(v, s), c) \in Int
    <3>1. c \div StripeSize(v, s) \in Nat
      BY <1>10, DivMod
    <3>2. (c \div StripeSize(v, s)) % Len(s.areas) \in 0..(Len(s.areas) - 1)
      BY <1>10, <3>1, DivMod
    <3>3. StripeFor(Len(s.areas), StripeSize(v, s), c) \in 0..(Len(s.areas) - 1)
      BY <3>2 DEF StripeFor
    <3> QED BY <1>10, <3>3
  <2> QED BY <1>3, <1>8, <2>1 DEF AreaFor
<1> QED BY <1>8, <1>9, <1>10, <1>11, StripeOnce DEF InArea

(* The segment a sector of the volume is in.                                *)
Counts(segs) == [j \in DOMAIN segs |-> segs[j].count]

In(v, s, y) == s.start * v.ext <= y /\ y < (s.start + s.count) * v.ext

(* A segment starts after the extents of those before it (_lvm_layout).     *)
LEMMA CountsAre ==
    ASSUME NEW v, NEW segs, NEW size, VolumeOK(v, segs, size)
    PROVE  /\ Numbered(Counts(segs), Len(segs)) /\ Len(segs) \in Nat
           /\ \A i : Before(segs, i) = SumTo(Counts(segs), i - 1)
           /\ \A i \in 1..Len(segs) :
                 /\ segs[i].count \in Nat /\ segs[i].start \in Nat
                 /\ Counts(segs)[i] = segs[i].count
                 /\ segs[i].start = SumTo(Counts(segs), i - 1)
                 /\ segs[i].start + segs[i].count = SumTo(Counts(segs), i)
<1>1. segs \in Seq(Segment) /\ Len(segs) \in Nat /\ DOMAIN segs = 1..Len(segs)
  BY DEF VolumeOK
<1>2. \A i \in 1..Len(segs) : segs[i].count \in Nat /\ segs[i].start \in Nat /\ Counts(segs)[i] = segs[i].count
  <2>1. ASSUME NEW i \in 1..Len(segs) PROVE segs[i].count \in Nat /\ segs[i].start \in Nat
    <3>1. segs[i] \in Segment
      BY <1>1
    <3> QED BY <3>1 DEF Segment
  <2> QED BY <1>1, <2>1 DEF Counts
<1>3. Numbered(Counts(segs), Len(segs))
  BY <1>2 DEF Numbered
<1>4. \A i : Before(segs, i) = SumTo(Counts(segs), i - 1)
  BY DEF Before, Counts
<1>5. ASSUME NEW i \in 1..Len(segs)
      PROVE  /\ segs[i].start = SumTo(Counts(segs), i - 1)
             /\ segs[i].start + segs[i].count = SumTo(Counts(segs), i)
  <2>1. segs[i].start = SumTo(Counts(segs), i - 1)
    BY <1>4 DEF VolumeOK
  <2> QED BY <1>1, <1>2, <1>3, <2>1, PartIs
<1> QED BY <1>1, <1>2, <1>3, <1>4, <1>5

(* Every sector of the volume is in a segment.                              *)
LEMMA SegmentOf ==
    ASSUME NEW v, NEW segs, NEW size, VolumeOK(v, segs, size), NEW y \in Nat, y < Sectors(v, segs)
    PROVE  \E i \in 1..Len(segs) : In(v, segs[i], y)
<1> DEFINE f == Counts(segs)
           e == y \div v.ext
           S == {i \in 1..Len(segs) : e < SumTo(f, i)}
<1>1. /\ Numbered(f, Len(segs)) /\ Len(segs) \in Nat /\ v.ext \in Nat \ {0}
      /\ \A i \in 1..Len(segs) :
            /\ segs[i].count \in Nat /\ segs[i].start \in Nat
            /\ segs[i].start = SumTo(f, i - 1) /\ segs[i].start + segs[i].count = SumTo(f, i)
  <2>1. v.ext \in Nat \ {0}
    BY DEF VolumeOK
  <2> QED BY <2>1, CountsAre
<1>2. SumTo(f, Len(segs)) \in Nat /\ y < SumTo(f, Len(segs)) * v.ext
  <2>1. Sectors(v, segs) = SumTo(f, (Len(segs) + 1) - 1) * v.ext /\ (Len(segs) + 1) - 1 = Len(segs)
    BY <1>1, CountsAre DEF Sectors
  <2> QED BY <1>1, <2>1, SumToIs
<1>3. e \in Nat /\ y % v.ext \in 0..(v.ext - 1) /\ y = v.ext * e + (y % v.ext) /\ e < SumTo(f, Len(segs))
  BY <1>1, <1>2, DivMod, DivBelow
<1> HIDE DEF f, e
<1>4. Len(segs) \in S
  BY <1>1, <1>3 DEF VolumeOK
<1>5. PICK i \in S : \A j \in S : i <= j
  <2>1. S \subseteq Nat
    OBVIOUS
  <2> QED BY <1>4, <2>1, LeastOf
<1>6. SumTo(f, i - 1) <= e
  BY <1>1, <1>3, <1>5, FirstPart
<1>7. PICK a, b, x : a = segs[i].start /\ b = segs[i].start + segs[i].count /\ x = v.ext
  OBVIOUS
<1>8. a \in Nat /\ b \in Nat /\ x \in Nat \ {0} /\ a <= e /\ e < b
  BY <1>1, <1>5, <1>6, <1>7
<1>9. a * x <= e * x /\ e * x + x <= b * x /\ a * x \in Nat /\ e * x \in Nat /\ b * x \in Nat
  BY <1>3, <1>8, Product, ProductGrows
<1>10. x * e = e * x
  BY <1>3, <1>8, ProductNat
<1>11. a * x <= y /\ y < b * x
  <2>1. PICK p, w : p = x * e /\ w = y % x
    OBVIOUS
  <2>2. w \in 0..(x - 1) /\ y = p + w
    BY <1>3, <1>7, <2>1
  <2>3. PICK ax, bx, ex : ax = a * x /\ bx = b * x /\ ex = e * x
    OBVIOUS
  <2>4. ax <= ex /\ ex + x <= bx /\ ax \in Nat /\ ex \in Nat /\ bx \in Nat /\ p = ex
    BY <1>9, <1>10, <2>1, <2>3
  <2>5. ax <= y /\ y < bx
    BY ONLY <2>2, <2>4, <1>8
  <2> QED BY <2>3, <2>5
<1> QED BY <1>5, <1>7, <1>11 DEF In

(* And in one only.                                                         *)
LEMMA OneSegment ==
    ASSUME NEW v, NEW segs, NEW size, VolumeOK(v, segs, size), NEW y \in Nat,
           NEW i \in 1..Len(segs), NEW j \in 1..Len(segs), In(v, segs[i], y), In(v, segs[j], y)
    PROVE  i = j
<1> DEFINE f == Counts(segs)
<1>1. /\ Numbered(f, Len(segs)) /\ Len(segs) \in Nat /\ v.ext \in Nat \ {0}
      /\ \A k \in 1..Len(segs) :
            /\ segs[k].count \in Nat /\ segs[k].start \in Nat
            /\ segs[k].start = SumTo(f, k - 1) /\ segs[k].start + segs[k].count = SumTo(f, k)
  <2>1. v.ext \in Nat \ {0}
    BY DEF VolumeOK
  <2> QED BY <2>1, CountsAre
<1> HIDE DEF f
<1>2. ASSUME NEW k \in 1..Len(segs), NEW l \in 1..Len(segs), k < l
      PROVE  ~(In(v, segs[k], y) /\ In(v, segs[l], y))
  <2>1. k \in 0..Len(segs) /\ l - 1 \in k..Len(segs)
    BY <1>1, <1>2
  <2>2. segs[k].start + segs[k].count <= segs[l].start
    BY <1>1, <2>1, SumToGrows
  <2>3. PICK a, b, x : a = segs[k].start + segs[k].count /\ b = segs[l].start /\ x = v.ext
    OBVIOUS
  <2>4. a \in Nat /\ b \in Nat /\ x \in Nat /\ a <= b
    <3>1. segs[k].count \in Nat /\ segs[k].start \in Nat /\ segs[l].start \in Nat
      BY <1>1
    <3>2. a \in Nat
      BY <2>3, <3>1
    <3> QED BY <1>1, <2>2, <2>3, <3>1, <3>2
  <2>5. a * x <= b * x /\ a * x \in Nat /\ b * x \in Nat
    BY <2>4, ProductGrows
  <2> QED BY <2>3, <2>5 DEF In
<1> QED BY <1>1, <1>2

(* The sector of a segment: the device mapper's.                            *)
LEMMA MappedIs ==
    ASSUME NEW v, NEW segs, NEW size, VolumeOK(v, segs, size), NEW y \in Nat,
           NEW i \in 1..Len(segs), In(v, segs[i], y)
    PROVE  /\ Mapped(v, segs, y) = Spot(v, segs[i], y - segs[i].start * v.ext)
           /\ y - segs[i].start * v.ext \in Nat
           /\ y - segs[i].start * v.ext < segs[i].count * v.ext
<1> DEFINE chosen == CHOOSE j \in DOMAIN segs :
                        segs[j].start * v.ext <= y /\ y < (segs[j].start + segs[j].count) * v.ext
<1>1. DOMAIN segs = 1..Len(segs) /\ SegOK(v, segs[i], size) /\ v.ext \in Nat \ {0} /\ size \in Nat
  BY DEF VolumeOK
<1>2. chosen = i
  <2>1. chosen \in DOMAIN segs /\ In(v, segs[chosen], y)
    BY <1>1 DEF In
  <2> HIDE DEF chosen
  <2> QED BY <1>1, <2>1, OneSegment
<1>3. PICK s, x : s = segs[i] /\ x = y - segs[i].start * v.ext
  OBVIOUS
<1>4. x \in Nat /\ x < s.count * v.ext
  <2>1. PICK a, b, e : a = s.start /\ b = s.count /\ e = v.ext
    OBVIOUS
  <2>2. a \in Nat /\ b \in Nat /\ e \in Nat
    BY <1>1, <1>3, <2>1, CountsAre
  <2>3. (a + b) * e = a * e + b * e /\ a * e \in Nat /\ b * e \in Nat
    BY <2>2, ProductSum, ProductNat
  <2> QED BY <1>3, <2>1, <2>3 DEF In
<1>5. PICK n, st, c : n = Len(s.areas) /\ st = StripeSize(v, s) /\ c = x \div st
  OBVIOUS
<1>6. Mapped(v, segs, y) = At(v, s.areas[(c % n) + 1]) + (c \div n) * st + (x % st)
  <2> HIDE DEF chosen
  <2>1. Mapped(v, segs, y) =
          LET t == segs[chosen]
              z == y - t.start * v.ext
              m == Len(t.areas)
              stripe == IF m = 1 THEN t.count * v.ext ELSE t.stripe
              d == z \div stripe
          IN At(v, t.areas[(d % m) + 1]) + (d \div m) * stripe + (z % stripe)
    BY DEF Mapped, chosen
  <2> QED BY <1>2, <1>3, <1>5, <2>1 DEF StripeSize
<1>7. Spot(v, s, x) = At(v, s.areas[(c % n) + 1]) + ((c \div n) * st + (x % st))
  BY <1>5 DEF Spot, AreaFor, InArea, StripeFor, InStripe
<1>8. n \in Nat \ {0} /\ st \in Nat \ {0} /\ (c % n) + 1 \in 1..n
  <2>1. s.count # 0
    <3>1. 0 * v.ext = 0
      BY <1>1
    <3> QED BY <1>4, <3>1
  <2>2. n \in Nat \ {0} /\ st \in Nat \ {0}
    BY <1>1, <1>3, <1>5, <2>1, StripesOf
  <2>3. c \in Nat
    BY <1>4, <1>5, <2>2, DivMod
  <2>4. c % n \in 0..(n - 1)
    BY <2>2, <2>3, DivMod
  <2> QED BY <2>2, <2>4
<1>9. c \in Nat /\ x % st \in Nat /\ c \div n \in Nat
  <2>1. x \div st \in Nat /\ x % st \in 0..(st - 1)
    BY <1>4, <1>8, DivMod
  <2>2. c \in Nat /\ x % st \in Nat
    BY <1>5, <2>1
  <2> QED BY <1>8, <2>2, DivMod
<1>10. PICK a, b, w : a = At(v, s.areas[(c % n) + 1]) /\ b = (c \div n) * st /\ w = x % st
  OBVIOUS
<1>11. a \in Nat /\ b \in Nat /\ w \in Nat
  BY <1>1, <1>3, <1>5, <1>8, <1>9, <1>10, ProductNat DEF SegOK
<1>12. a + b + w = a + (b + w)
  BY <1>11
<1> QED BY <1>3, <1>4, <1>6, <1>7, <1>10, <1>12

-----------------------------------------------------------------------------
(* Its map: runs, each of a segment or of some that go straight on.         *)
MapRun == [start : Nat, size : Nat, stripe : Nat, bases : Seq(Nat) \ {<<>>}]

Sizes(map) == [i \in DOMAIN map |-> map[i].size]

(* The runs lie one after the other from the start of the volume.           *)
MapOK(map) ==
    /\ map \in Seq(MapRun)
    /\ \A j \in 1..Len(map) : map[j].start = SumTo(Sizes(map), j - 1)

(* A segment is a run, or a part of one that goes straight on.              *)
Covers(r, v, s) ==
    \/ r = RunOf(v, s)
    \/ /\ r.stripe = 0 /\ Len(s.areas) = 1
       /\ r.start <= s.start * v.ext
       /\ s.start * v.ext + s.count * v.ext <= r.start + r.size
       /\ r.bases[1] + (s.start * v.ext - r.start) = At(v, s.areas[1])

MapOf(map, v, segs, n) ==
    /\ MapOK(map)
    /\ SumTo(Sizes(map), Len(map)) = SumTo(Counts(segs), n) * v.ext
    /\ \A k \in 1..n : \E j \in 1..Len(map) : Covers(map[j], v, segs[k])

(* The sizes of the runs of a map are numbers.                              *)
LEMMA SizesAre ==
    ASSUME NEW map, map \in Seq(MapRun)
    PROVE  /\ Numbered(Sizes(map), Len(map)) /\ Len(map) \in Nat /\ DOMAIN map = 1..Len(map)
           /\ \A j \in 1..Len(map) : map[j] \in MapRun /\ Sizes(map)[j] = map[j].size
<1>1. Len(map) \in Nat /\ DOMAIN map = 1..Len(map) /\ \A j \in 1..Len(map) : map[j] \in MapRun
  OBVIOUS
<1>2. \A j \in 1..Len(map) : Sizes(map)[j] = map[j].size
  BY <1>1 DEF Sizes
<1>3. Numbered(Sizes(map), Len(map))
  BY <1>1, <1>2 DEF Numbered, MapRun
<1> QED BY <1>1, <1>2, <1>3

(* What the run of a segment has of it (_lvm_layout).                       *)
LEMMA RunOfIs ==
    ASSUME NEW v, NEW s, NEW size, v.ext \in Nat \ {0}, SegOK(v, s, size)
    PROVE  /\ RunOf(v, s) \in MapRun
           /\ RunOf(v, s).start = s.start * v.ext /\ RunOf(v, s).size = s.count * v.ext
           /\ RunOf(v, s).stripe = (IF Len(s.areas) = 1 THEN 0 ELSE s.stripe)
           /\ Len(RunOf(v, s).bases) = Len(s.areas)
           /\ \A k \in 1..Len(s.areas) : RunOf(v, s).bases[k] = At(v, s.areas[k])
           /\ RunOf(v, s).stripe = 0 => Len(s.areas) = 1
<1>1. /\ s.start \in Nat /\ s.count \in Nat /\ s.stripe \in Nat /\ Len(s.areas) \in Nat \ {0}
      /\ Len(s.areas) # 1 => s.stripe # 0
      /\ \A k \in 1..Len(s.areas) : At(v, s.areas[k]) \in Nat
      /\ DOMAIN s.areas = 1..Len(s.areas)
  BY DEF SegOK, Segment
<1> DEFINE b == [i \in DOMAIN s.areas |-> At(v, s.areas[i])]
<1>2. b \in Seq(Nat) /\ Len(b) = Len(s.areas) /\ \A k \in 1..Len(s.areas) : b[k] = At(v, s.areas[k])
  <2>1. b = [i \in 1..Len(s.areas) |-> At(v, s.areas[i])]
    BY <1>1
  <2> HIDE DEF b
  <2>2. b \in [1..Len(s.areas) -> Nat]
    BY <1>1, <2>1
  <2> QED BY <1>1, <2>1, <2>2
<1>3. s.start * v.ext \in Nat /\ s.count * v.ext \in Nat
  BY <1>1, ProductNat
<1> HIDE DEF b
<1>5. b # <<>>
  BY <1>1, <1>2
<1>4. RunOf(v, s) = [start |-> s.start * v.ext, size |-> s.count * v.ext,
                     stripe |-> IF Len(s.areas) = 1 THEN 0 ELSE s.stripe, bases |-> b]
  BY DEF RunOf, b
<1> QED BY <1>1, <1>2, <1>3, <1>4, <1>5 DEF MapRun

(* One segment more.                                                        *)
Joined(out, next) ==
    IF out # <<>> /\ Joins(out[Len(out)], next)
    THEN [out EXCEPT ![Len(out)].size = @ + next.size] ELSE Append(out, next)

(* A segment more leaves a map of them all, a run that goes straight on     *)
(* from the one before it among them (_lvm_layout).                         *)
LEMMA JoinedKeeps ==
    ASSUME NEW v, NEW segs, NEW size, VolumeOK(v, segs, size), NEW n \in Nat, n + 1 \in 1..Len(segs),
           NEW map, MapOf(map, v, segs, n)
    PROVE  MapOf(Joined(map, RunOf(v, segs[n + 1])), v, segs, n + 1)
<1>1. PICK s, next, m : s = segs[n + 1] /\ next = RunOf(v, s) /\ m = Joined(map, next)
  OBVIOUS
<1>2. /\ SegOK(v, s, size) /\ v.ext \in Nat \ {0} /\ size \in Nat
      /\ \A k \in 1..Len(segs) : SegOK(v, segs[k], size)
  BY <1>1 DEF VolumeOK
<1>3. /\ s.start = SumTo(Counts(segs), n) /\ s.start + s.count = SumTo(Counts(segs), n + 1)
      /\ s.start \in Nat /\ s.count \in Nat
  <2>1. (n + 1) - 1 = n
    OBVIOUS
  <2> QED BY <1>1, <2>1, CountsAre
<1>4. /\ next \in MapRun /\ next.start = s.start * v.ext /\ next.size = s.count * v.ext
      /\ next.stripe = 0 => Len(s.areas) = 1
      /\ Len(s.areas) = 1 => next.bases[1] = At(v, s.areas[1])
      /\ next.start \in Nat /\ next.size \in Nat
  <2>1. /\ next \in MapRun /\ next.start = s.start * v.ext /\ next.size = s.count * v.ext
        /\ next.stripe = 0 => Len(s.areas) = 1
        /\ Len(s.areas) = 1 => next.bases[1] = At(v, s.areas[1])
    BY <1>1, <1>2, RunOfIs
  <2> QED BY <2>1 DEF MapRun
<1>5. /\ Numbered(Sizes(map), Len(map)) /\ Len(map) \in Nat /\ DOMAIN map = 1..Len(map)
      /\ map \in Seq(MapRun)
      /\ \A j \in 1..Len(map) : map[j] \in MapRun /\ Sizes(map)[j] = map[j].size
                                /\ map[j].start = SumTo(Sizes(map), j - 1)
  BY SizesAre DEF MapOf, MapOK
<1>6. SumTo(Sizes(map), Len(map)) = next.start
  BY <1>3, <1>4 DEF MapOf
<1>7. SumTo(Counts(segs), n + 1) * v.ext = next.start + next.size
  BY <1>2, <1>3, <1>4, ProductSum
<1>8. \A k \in 1..n : \E j \in 1..Len(map) : Covers(map[j], v, segs[k])
  BY DEF MapOf
<1>9. CASE ~(map # <<>> /\ Joins(map[Len(map)], next))
  <2>1. m = Append(map, next)
    BY <1>1, <1>9 DEF Joined
  <2>2. /\ m \in Seq(MapRun) /\ Len(m) = Len(map) + 1
        /\ \A j \in 1..Len(map) : m[j] = map[j]
        /\ m[Len(map) + 1] = next
    BY <1>4, <1>5, <2>1
  <2>3. Numbered(Sizes(m), Len(m)) /\ \A j \in 1..Len(m) : Sizes(m)[j] = m[j].size
    BY <2>2, SizesAre
  <2>4. ASSUME NEW j \in 0..Len(map) PROVE SumTo(Sizes(m), j) = SumTo(Sizes(map), j)
    <3>1. Numbered(Sizes(map), j) /\ j \in Nat
      BY <1>5 DEF Numbered
    <3>2. ASSUME NEW i \in 1..j PROVE Sizes(map)[i] = Sizes(m)[i]
      <4>1. i \in 1..Len(map) /\ i \in 1..Len(m)
        BY <1>5, <2>2
      <4> QED BY <1>5, <2>2, <2>3, <4>1
    <3>3. SameUpTo(Sizes(map), Sizes(m), j)
      BY <3>2 DEF SameUpTo
    <3> QED BY <3>1, <3>3, SumToAlike
  <2>5. ASSUME NEW j \in 1..Len(m) PROVE m[j].start = SumTo(Sizes(m), j - 1)
    <3>1. CASE j \in 1..Len(map)
      <4>1. j - 1 \in 0..Len(map) /\ m[j] = map[j]
        BY <1>5, <2>2, <3>1
      <4> QED BY <1>5, <2>4, <3>1, <4>1
    <3>2. CASE j = Len(map) + 1
      <4>1. j - 1 = Len(map) /\ Len(map) \in 0..Len(map) /\ m[j] = next
        BY <1>5, <2>2, <3>2
      <4> QED BY <1>6, <2>4, <4>1
    <3> QED BY <1>5, <2>2, <3>1, <3>2
  <2>6. SumTo(Sizes(m), Len(m)) = next.start + next.size
    <3>1. Numbered(Sizes(m), Len(map) + 1)
      BY <2>2, <2>3
    <3>2. SumTo(Sizes(m), Len(map) + 1) = SumTo(Sizes(m), Len(map)) + Sizes(m)[Len(map) + 1]
      BY <1>5, <3>1, SumToNext
    <3>3. Sizes(m)[Len(map) + 1] = next.size
      <4>1. Len(map) + 1 \in 1..Len(m)
        BY <1>5, <2>2
      <4> QED BY <2>2, <2>3, <4>1
    <3>4. Len(map) \in 0..Len(map)
      BY <1>5
    <3> QED BY <1>6, <2>2, <2>4, <3>2, <3>3, <3>4
  <2>7. ASSUME NEW k \in 1..(n + 1) PROVE \E j \in 1..Len(m) : Covers(m[j], v, segs[k])
    <3>1. CASE k \in 1..n
      <4>1. PICK j \in 1..Len(map) : Covers(map[j], v, segs[k])
        BY <1>8, <3>1
      <4>2. j \in 1..Len(m) /\ m[j] = map[j]
        BY <1>5, <2>2
      <4> QED BY <4>1, <4>2
    <3>2. CASE k = n + 1
      <4>1. Len(map) + 1 \in 1..Len(m) /\ Covers(m[Len(map) + 1], v, segs[k])
        BY <1>1, <1>5, <2>2, <3>2 DEF Covers
      <4> QED BY <4>1
    <3> QED BY <3>1, <3>2
  <2> QED BY <1>1, <1>7, <2>2, <2>5, <2>6, <2>7 DEF MapOf, MapOK
<1>10. CASE map # <<>> /\ Joins(map[Len(map)], next)
  <2>0. PICK l, last : l = Len(map) /\ last = map[l]
    OBVIOUS
  <2>1. /\ l \in 1..Len(map) /\ l \in Nat /\ last \in MapRun
        /\ last.stripe = 0 /\ next.stripe = 0 /\ last.bases[1] + last.size = next.bases[1]
    BY <1>5, <1>10, <2>0 DEF Joins
  <2>2. m = [map EXCEPT ![l].size = @ + next.size]
    BY <1>1, <1>10, <2>0 DEF Joined
  <2>3. PICK more : more = [last EXCEPT !.size = @ + next.size]
    OBVIOUS
  <2>4. /\ more \in MapRun /\ more.start = last.start /\ more.size = last.size + next.size
        /\ more.stripe = 0 /\ more.bases = last.bases
    <3>1. last.size + next.size \in Nat
      BY <1>4, <2>1 DEF MapRun
    <3>2. more = [last EXCEPT !.size = last.size + next.size]
      BY <2>3
    <3> QED BY <2>1, <3>1, <3>2 DEF MapRun
  <2>5. m = [map EXCEPT ![l] = more]
    BY <2>0, <2>2, <2>3
  <2>6. /\ m \in Seq(MapRun) /\ Len(m) = l /\ m[l] = more
        /\ \A j \in 1..l : j # l => m[j] = map[j]
    BY <1>5, <2>0, <2>1, <2>4, <2>5
  <2>7. Numbered(Sizes(m), l) /\ \A j \in 1..l : Sizes(m)[j] = m[j].size
    BY <2>6, SizesAre
  <2>8. ASSUME NEW j \in 0..(l - 1) PROVE SumTo(Sizes(m), j) = SumTo(Sizes(map), j)
    <3>1. Numbered(Sizes(map), j) /\ j \in Nat
      <4>1. \A i \in 1..j : i \in 1..Len(map)
        BY <2>0, <2>1
      <4> QED BY <1>5, <4>1 DEF Numbered
    <3>2. ASSUME NEW i \in 1..j PROVE Sizes(map)[i] = Sizes(m)[i]
      <4>1. i \in 1..Len(map) /\ i \in 1..l /\ i # l
        BY <2>0, <2>1
      <4> QED BY <1>5, <2>6, <2>7, <4>1
    <3>3. SameUpTo(Sizes(map), Sizes(m), j)
      BY <3>2 DEF SameUpTo
    <3> QED BY <3>1, <3>3, SumToAlike
  <2>9. ASSUME NEW j \in 1..l PROVE m[j].start = SumTo(Sizes(m), j - 1)
    <3>1. j - 1 \in 0..(l - 1) /\ m[j].start = map[j].start
      BY <2>0, <2>1, <2>4, <2>6
    <3> QED BY <1>5, <2>0, <2>8, <3>1
  <2>10. last.start + last.size = next.start /\ last.start \in Nat /\ last.size \in Nat
    <3>1. SumTo(Sizes(map), l) = SumTo(Sizes(map), l - 1) + Sizes(map)[l]
      BY <1>5, <2>0, <2>1, PartIs
    <3> QED BY <1>5, <1>6, <2>0, <2>1, <3>1 DEF MapRun
  <2>11. SumTo(Sizes(m), l) = next.start + next.size
    <3>1. l - 1 \in Nat /\ (l - 1) + 1 = l /\ l - 1 \in 0..(l - 1) /\ l \in 1..l
      BY <2>1
    <3>2. SumTo(Sizes(m), l) = SumTo(Sizes(m), l - 1) + Sizes(m)[l]
      BY <2>1, <2>7, <3>1, PartIs
    <3>3. SumTo(Sizes(m), l - 1) = last.start /\ Sizes(m)[l] = last.size + next.size
      BY <1>5, <2>0, <2>1, <2>4, <2>6, <2>7, <2>8, <3>1
    <3> QED BY <1>4, <2>10, <3>2, <3>3
  <2>12. ASSUME NEW k \in 1..(n + 1) PROVE \E j \in 1..l : Covers(m[j], v, segs[k])
    <3>1. CASE k = n + 1
      <4>1. Covers(more, v, s)
        <5>1. Len(s.areas) = 1 /\ next.bases[1] = At(v, s.areas[1])
          BY <1>4, <2>1
        <5>2. At(v, s.areas[1]) \in Nat
          BY <1>2, <5>1 DEF SegOK
        <5>3. last.bases[1] + (next.start - last.start) = next.bases[1]
          BY <2>1, <2>10
        <5> QED BY <1>4, <2>4, <2>10, <5>1, <5>3 DEF Covers
      <4> QED BY <1>1, <2>0, <2>1, <2>6, <3>1, <4>1
    <3>2. CASE k \in 1..n
      <4>1. PICK j \in 1..l : Covers(map[j], v, segs[k])
        BY <1>8, <2>0, <3>2
      <4>2. CASE j # l
        BY <2>6, <4>1, <4>2
      <4>3. CASE j = l
        <5>1. PICK t : t = segs[k]
          OBVIOUS
        <5>2. SegOK(v, t, size) /\ Covers(last, v, t)
          BY <1>2, <2>0, <3>2, <4>1, <4>3, <5>1
        <5>3. CASE last = RunOf(v, t)
          <6>1. /\ last.start = t.start * v.ext /\ last.size = t.count * v.ext /\ Len(t.areas) = 1
                /\ last.bases[1] = At(v, t.areas[1])
            <7>1. PICK one : one = RunOf(v, t)
              OBVIOUS
            <7>2. /\ one.start = t.start * v.ext /\ one.size = t.count * v.ext
                  /\ one.stripe = 0 => Len(t.areas) = 1
                  /\ \A i \in 1..Len(t.areas) : one.bases[i] = At(v, t.areas[i])
              BY <1>2, <5>2, <7>1, RunOfIs
            <7>3. one = last
              BY <5>3, <7>1
            <7> QED BY <2>1, <7>2, <7>3
          <6>2. At(v, t.areas[1]) \in Nat
            BY <5>2, <6>1 DEF SegOK
          <6>3. more.bases[1] + (t.start * v.ext - more.start) = At(v, t.areas[1])
            BY <2>4, <2>10, <6>1, <6>2
          <6>4. more.start <= t.start * v.ext /\ t.start * v.ext + t.count * v.ext <= more.start + more.size
            BY <1>4, <2>4, <2>10, <6>1
          <6>5. Covers(more, v, t)
            BY <2>4, <6>1, <6>3, <6>4 DEF Covers
          <6> QED BY <2>1, <2>6, <5>1, <6>5
        <5>4. CASE last # RunOf(v, t)
          <6>1. /\ Len(t.areas) = 1 /\ last.start <= t.start * v.ext
                /\ t.start * v.ext + t.count * v.ext <= last.start + last.size
                /\ last.bases[1] + (t.start * v.ext - last.start) = At(v, t.areas[1])
            BY <5>2, <5>4 DEF Covers
          <6>2. t.start * v.ext \in Nat /\ t.count * v.ext \in Nat
            BY <1>2, <5>2, RunOfIs DEF MapRun
          <6>3. t.start * v.ext + t.count * v.ext <= more.start + more.size
            BY <1>4, <2>4, <2>10, <6>1, <6>2
          <6>4. Covers(more, v, t)
            BY <2>4, <6>1, <6>3 DEF Covers
          <6> QED BY <2>1, <2>6, <5>1, <6>4
        <5> QED BY <5>3, <5>4
      <4> QED BY <4>2, <4>3
    <3> QED BY <3>1, <3>2
  <2> QED BY <1>1, <1>7, <2>6, <2>9, <2>11, <2>12 DEF MapOf, MapOK
<1> QED BY <1>1, <1>9, <1>10

(* The runs of the first segments, for each number of them.                 *)
RunsUp(runs, v, segs, n) ==
    runs = [i \in 0..n |-> IF i = 0 THEN <<>> ELSE Joined(runs[i - 1], RunOf(v, segs[i]))]

(* There is one list of them.                                               *)
LEMMA RunsExist ==
    ASSUME NEW v, NEW segs, NEW n \in Nat
    PROVE  \E runs : RunsUp(runs, v, segs, n)
<1> DEFINE Has(m) == \E runs : RunsUp(runs, v, segs, m)
           S == {m \in 0..n : ~Has(m)}
<1>1. SUFFICES ASSUME S # {} PROVE FALSE
  <2> HIDE DEF Has
  <2>1. Has(n)
    BY <1>1
  <2> QED BY <2>1 DEF Has
<1> HIDE DEF Has
<1>2. PICK m \in S : \A i \in S : m <= i
  <2>1. S \subseteq Nat
    OBVIOUS
  <2> QED BY <1>1, <2>1, LeastOf
<1>3. CASE m = 0
  <2> DEFINE runs == [j \in 0..0 |-> <<>>]
  <2>1. RunsUp(runs, v, segs, m)
    BY <1>3 DEF RunsUp
  <2> QED BY <1>2, <2>1 DEF Has
<1>4. CASE m # 0
  <2> DEFINE k == m - 1
  <2>1. k \in 0..n /\ k \in Nat /\ k + 1 = m /\ ~(m <= k)
    BY <1>2, <1>4
  <2> HIDE DEF k
  <2>2. Has(k)
    BY <1>2, <2>1
  <2>3. PICK runs : RunsUp(runs, v, segs, k)
    BY <2>2 DEF Has
  <2> DEFINE more == [j \in 0..m |-> IF j = m THEN Joined(runs[k], RunOf(v, segs[m])) ELSE runs[j]]
  <2>4. ASSUME NEW j \in 0..m
        PROVE  more[j] = IF j = 0 THEN <<>> ELSE Joined(more[j - 1], RunOf(v, segs[j]))
    <3>1. CASE j = m
      <4>1. more[j] = Joined(runs[k], RunOf(v, segs[j])) /\ j - 1 = k /\ more[k] = runs[k] /\ j # 0
        BY <2>1, <3>1
      <4> HIDE DEF more
      <4> QED BY <4>1
    <3>2. CASE j # m /\ j # 0
      <4>1. j \in 0..k /\ j - 1 \in 0..k /\ more[j] = runs[j] /\ more[j - 1] = runs[j - 1]
        BY <2>1, <3>2
      <4>2. runs[j] = Joined(runs[j - 1], RunOf(v, segs[j]))
        BY <2>3, <3>2, <4>1 DEF RunsUp
      <4> HIDE DEF more
      <4> QED BY <3>2, <4>1, <4>2
    <3>3. CASE j # m /\ j = 0
      <4>1. more[j] = runs[0] /\ runs[0] = <<>>
        BY <2>1, <2>3, <3>3 DEF RunsUp
      <4> HIDE DEF more
      <4> QED BY <3>3, <4>1
    <3> QED BY <3>1, <3>2, <3>3
  <2>5. more = [j \in 0..m |-> more[j]]
    OBVIOUS
  <2> HIDE DEF more
  <2>6. RunsUp(more, v, segs, m)
    BY <2>4, <2>5 DEF RunsUp
  <2> QED BY <1>2, <2>6 DEF Has
<1> QED BY <1>3, <1>4

(* The map of a volume has all of its segments, and is as long as they are. *)
LEMMA RunsAre ==
    ASSUME NEW v, NEW segs, NEW size, VolumeOK(v, segs, size)
    PROVE  MapOf(Runs(v, segs), v, segs, Len(segs))
<1>1. Len(segs) \in Nat
  BY CountsAre
<1> DEFINE runs == CHOOSE u : RunsUp(u, v, segs, Len(segs))
<1>2. RunsUp(runs, v, segs, Len(segs))
  BY <1>1, RunsExist
<1>3. Runs(v, segs) = runs[Len(segs)]
  BY DEF Runs, RunsUp, Joined
<1> HIDE DEF runs
<1>4. runs[0] = <<>> /\ \A i \in 1..Len(segs) : runs[i] = Joined(runs[i - 1], RunOf(v, segs[i]))
  BY <1>1, <1>2 DEF RunsUp
<1> DEFINE S == {i \in 0..Len(segs) : ~MapOf(runs[i], v, segs, i)}
<1>5. S = {}
  <2>1. SUFFICES ASSUME S # {} PROVE FALSE
    OBVIOUS
  <2>2. PICK i \in S : \A j \in S : i <= j
    <3>1. S \subseteq Nat
      OBVIOUS
    <3> QED BY <2>1, <3>1, LeastOf
  <2>3. i # 0
    <3>1. MapOf(<<>>, v, segs, 0)
      <4>1. <<>> \in Seq(MapRun) /\ Len(<<>>) = 0
        OBVIOUS
      <4>2. SumTo(Sizes(<<>>), Len(<<>>)) = 0 /\ SumTo(Counts(segs), 0) = 0
        BY <4>1, SumToZero
      <4>3. 0 * v.ext = 0
        BY DEF VolumeOK
      <4>4. \A j \in 1..0 : FALSE
        OBVIOUS
      <4> QED BY <4>1, <4>2, <4>3, <4>4 DEF MapOf, MapOK
    <3> QED BY <1>4, <2>2, <3>1
  <2> DEFINE k == i - 1
  <2>4. k \in Nat /\ k + 1 = i /\ k \in 0..Len(segs) /\ ~(i <= k) /\ i \in 1..Len(segs)
    BY <1>1, <2>2, <2>3
  <2>5. runs[i] = Joined(runs[k], RunOf(v, segs[i]))
    BY <1>4, <2>4
  <2> HIDE DEF k
  <2>6. MapOf(runs[k], v, segs, k)
    BY <2>2, <2>4
  <2>7. MapOf(runs[i], v, segs, i)
    BY <2>4, <2>5, <2>6, JoinedKeeps
  <2> QED BY <2>2, <2>7
<1>6. Len(segs) \in 0..Len(segs)
  BY <1>1
<1> QED BY <1>3, <1>5, <1>6

-----------------------------------------------------------------------------
(* Where a map has a sector.                                                *)
RunAt(map, y) == Max({i \in DOMAIN map : map[i].start <= y})

RunPlace(r, x) ==
    IF r.stripe = 0 THEN r.bases[1] + x
    ELSE r.bases[StripeFor(Len(r.bases), r.stripe, x) + 1] + InStripe(Len(r.bases), r.stripe, x)

(* Which is the run that holds the sector, and the only one (locate).       *)
LEMMA RunAtIs ==
    ASSUME NEW map, MapOK(map), NEW y \in Nat, y < SumTo(Sizes(map), Len(map))
    PROVE  /\ RunAt(map, y) \in 1..Len(map)
           /\ map[RunAt(map, y)].start <= y
           /\ y < map[RunAt(map, y)].start + map[RunAt(map, y)].size
           /\ \A j \in 1..Len(map) :
                 map[j].start <= y /\ y < map[j].start + map[j].size => j = RunAt(map, y)
<1> DEFINE S == {i \in DOMAIN map : map[i].start <= y}
           f == Sizes(map)
           i == RunAt(map, y)
<1>1. /\ Numbered(f, Len(map)) /\ Len(map) \in Nat /\ DOMAIN map = 1..Len(map)
      /\ \A j \in 1..Len(map) : map[j] \in MapRun /\ f[j] = map[j].size /\ map[j].start = SumTo(f, j - 1)
  BY SizesAre DEF MapOK
<1>2. ASSUME NEW j \in 1..Len(map)
      PROVE  /\ map[j].start \in Nat /\ map[j].size \in Nat /\ map[j].start = SumTo(f, j - 1)
             /\ map[j].start + map[j].size = SumTo(f, j)
  <2>1. map[j].start \in Nat /\ map[j].size \in Nat /\ f[j] = map[j].size /\ map[j].start = SumTo(f, j - 1)
    BY <1>1 DEF MapRun
  <2>2. SumTo(f, j) = SumTo(f, j - 1) + f[j]
    BY <1>1, PartIs
  <2> QED BY <2>1, <2>2
<1> HIDE DEF f
<1>3. Len(map) # 0
  <2>1. SumTo(f, 0) = 0
    BY SumToZero
  <2> QED BY <2>1 DEF f
<1>4. 1 \in S
  <2>1. 1 \in 1..Len(map) /\ 1 - 1 = 0
    BY <1>1, <1>3
  <2>2. map[1].start = 0
    BY <1>2, <2>1, SumToZero
  <2> QED BY <1>1, <2>1, <2>2
<1>5. i \in S /\ \A j \in S : j <= i
  <2>1. S \subseteq Nat /\ S # {} /\ \A j \in S : j <= Len(map)
    BY <1>1, <1>4
  <2>2. Max(S) \in S /\ \A j \in S : j <= Max(S)
    BY <1>1, <2>1, GreatestOf
  <2> QED BY <2>2 DEF RunAt
<1> HIDE DEF i
<1>6. i \in 1..Len(map) /\ map[i].start <= y
  BY <1>1, <1>5
<1>7. y < map[i].start + map[i].size
  <2>1. CASE i = Len(map)
    BY <1>2, <1>6, <2>1 DEF f
  <2>2. CASE i # Len(map)
    <3>1. i + 1 \in 1..Len(map) /\ (i + 1) - 1 = i /\ ~(i + 1 <= i)
      <4>1. PICK a, n : a = i /\ n = Len(map)
        OBVIOUS
      <4>2. a \in 1..n /\ n \in Nat /\ a # n
        BY <1>1, <1>6, <2>2, <4>1
      <4>3. a + 1 \in 1..n /\ (a + 1) - 1 = a /\ ~(a + 1 <= a)
        BY ONLY <4>2
      <4> QED BY <4>1, <4>3
    <3>2. i + 1 \notin S
      BY <1>5, <3>1
    <3>3. map[i + 1].start = SumTo(f, i) /\ ~(map[i + 1].start <= y) /\ map[i + 1].start \in Nat
      BY <1>1, <1>2, <3>1, <3>2
    <3> QED BY <1>2, <1>6, <3>3
  <2> QED BY <2>1, <2>2
<1>8. ASSUME NEW j \in 1..Len(map), map[j].start <= y, y < map[j].start + map[j].size PROVE j = i
  <2>1. SumTo(f, j - 1) <= y /\ y < SumTo(f, j) /\ SumTo(f, i - 1) <= y /\ y < SumTo(f, i)
    BY <1>2, <1>6, <1>7, <1>8
  <2> QED BY <1>1, <1>6, <2>1, PartsApart
<1> QED BY <1>6, <1>7, <1>8 DEF i

(* Of a segment of one area, and of the run of any.                         *)
LEMMA SpotOne ==
    ASSUME NEW v, NEW s, NEW size \in Nat, v.ext \in Nat \ {0}, SegOK(v, s, size), Len(s.areas) = 1,
           NEW x \in Nat, x < s.count * v.ext
    PROVE  Spot(v, s, x) = At(v, s.areas[1]) + x
<1>1. PICK st : st = StripeSize(v, s)
  OBVIOUS
<1>2. st \in Nat \ {0} /\ x < st
  <2>1. s.count # 0
    <3>1. 0 * v.ext = 0
      OBVIOUS
    <3> QED BY <3>1
  <2> QED BY <1>1, <2>1, StripesOf DEF StripeSize
<1>3. x = st * 0 + x /\ x \in 0..(st - 1)
  BY <1>2
<1>4. (st * 0 + x) \div st = 0 /\ (st * 0 + x) % st = x
  BY <1>2, <1>3, DivModUnique
<1>5. x \div st = 0 /\ x % st = x
  BY <1>3, <1>4
<1>6. 0 % 1 = 0 /\ 0 \div 1 = 0 /\ 0 * st = 0
  BY <1>2
<1>7. StripeFor(1, st, x) = 0 /\ InStripe(1, st, x) = x
  BY <1>5, <1>6 DEF StripeFor, InStripe
<1> QED BY <1>1, <1>7 DEF Spot, AreaFor, InArea

(* The run of a segment has a byte where the segment has.                   *)
LEMMA RunOfPlaces ==
    ASSUME NEW v, NEW s, NEW size \in Nat, v.ext \in Nat \ {0}, SegOK(v, s, size),
           NEW x \in Nat, x < s.count * v.ext
    PROVE  RunPlace(RunOf(v, s), x) = Spot(v, s, x)
<1>1. PICK r : r = RunOf(v, s)
  OBVIOUS
<1>2. /\ r.stripe = (IF Len(s.areas) = 1 THEN 0 ELSE s.stripe)
      /\ Len(r.bases) = Len(s.areas)
      /\ \A k \in 1..Len(s.areas) : r.bases[k] = At(v, s.areas[k])
  BY <1>1, RunOfIs
<1>3. CASE Len(s.areas) = 1
  BY <1>1, <1>2, <1>3, SpotOne DEF RunPlace
<1>4. CASE Len(s.areas) # 1
  <2>1. r.stripe = StripeSize(v, s) /\ r.stripe # 0
    BY <1>2, <1>4 DEF StripeSize, SegOK
  <2>2. AreaFor(v, s, x) \in 1..Len(s.areas)
    BY SpotIs
  <2> QED BY <1>1, <1>2, <2>1, <2>2 DEF RunPlace, Spot, AreaFor, InArea
<1> QED BY <1>3, <1>4

(* The run a map has a sector in has it where the device mapper has.        *)
LEMMA RunsPlace ==
    ASSUME NEW v, NEW segs, NEW size, VolumeOK(v, segs, size),
           NEW map, MapOf(map, v, segs, Len(segs)), NEW y \in Nat, y < Sectors(v, segs)
    PROVE  /\ y < SumTo(Sizes(map), Len(map))
           /\ RunPlace(map[RunAt(map, y)], y - map[RunAt(map, y)].start) = Mapped(v, segs, y)
<1>1. Len(segs) \in Nat /\ v.ext \in Nat \ {0} /\ size \in Nat
  BY CountsAre DEF VolumeOK
<1>2. y < SumTo(Sizes(map), Len(map)) /\ MapOK(map)
  <2>1. Sectors(v, segs) = SumTo(Counts(segs), (Len(segs) + 1) - 1) * v.ext /\ (Len(segs) + 1) - 1 = Len(segs)
    BY <1>1, CountsAre DEF Sectors
  <2> QED BY <2>1 DEF MapOf
<1>3. PICK k \in 1..Len(segs) : In(v, segs[k], y)
  BY SegmentOf
<1>4. PICK s, x, i : s = segs[k] /\ x = y - s.start * v.ext /\ i = RunAt(map, y)
  OBVIOUS
<1>5. /\ Mapped(v, segs, y) = Spot(v, s, x) /\ x \in Nat /\ x < s.count * v.ext
      /\ SegOK(v, s, size)
  BY <1>3, <1>4, MappedIs DEF VolumeOK
<1>6. s.start \in Nat /\ s.count \in Nat /\ s.start * v.ext \in Nat /\ s.count * v.ext \in Nat
  BY <1>1, <1>4, CountsAre, ProductNat
<1>7. PICK j \in 1..Len(map) : Covers(map[j], v, s)
  BY <1>3, <1>4 DEF MapOf
<1>8. PICK r : r = map[j]
  OBVIOUS
<1>9. r \in MapRun
  BY <1>2, <1>8, SizesAre DEF MapOK
<1>10. CASE r = RunOf(v, s)
  <2>1. r.start = s.start * v.ext /\ r.size = s.count * v.ext
    <3>1. PICK one : one = RunOf(v, s)
      OBVIOUS
    <3>2. one.start = s.start * v.ext /\ one.size = s.count * v.ext
      BY <1>1, <1>5, <3>1, RunOfIs
    <3> QED BY <1>10, <3>1, <3>2
  <2>2. r.start <= y /\ y < r.start + r.size /\ y - r.start = x
    <3>1. PICK a, b : a = s.start * v.ext /\ b = s.count * v.ext
      OBVIOUS
    <3>2. a \in Nat /\ b \in Nat /\ x = y - a /\ x < b /\ r.start = a /\ r.size = b
      BY <1>4, <1>5, <1>6, <2>1, <3>1
    <3>3. y \in Nat /\ x \in Nat
      BY <1>5
    <3>4. a <= y /\ y < a + b /\ y - a = x
      BY ONLY <3>2, <3>3
    <3> QED BY ONLY <3>2, <3>4
  <2>3. j = i
    BY <1>2, <1>4, <1>8, <2>2, RunAtIs
  <2>4. RunPlace(r, x) = Spot(v, s, x)
    BY <1>1, <1>5, <1>10, RunOfPlaces
  <2> QED BY <1>2, <1>4, <1>5, <1>8, <2>2, <2>3, <2>4
<1>11. CASE r # RunOf(v, s)
  <2>1. /\ r.stripe = 0 /\ Len(s.areas) = 1
        /\ r.start <= s.start * v.ext
        /\ s.start * v.ext + s.count * v.ext <= r.start + r.size
        /\ r.bases[1] + (s.start * v.ext - r.start) = At(v, s.areas[1])
    BY <1>7, <1>8, <1>11 DEF Covers
  <2>2. r.start \in Nat /\ r.size \in Nat /\ r.bases[1] \in Nat
    BY <1>9 DEF MapRun
  <2>3. r.start <= y /\ y < r.start + r.size
    <3>1. PICK a, b, c, d : a = s.start * v.ext /\ b = s.count * v.ext /\ c = r.start /\ d = r.size
      OBVIOUS
    <3>2. /\ a \in Nat /\ b \in Nat /\ c \in Nat /\ d \in Nat
          /\ x = y - a /\ x < b /\ c <= a /\ a + b <= c + d
      BY <1>4, <1>5, <1>6, <2>1, <2>2, <3>1
    <3>3. y \in Nat /\ x \in Nat
      BY <1>5
    <3>4. c <= y /\ y < c + d
      BY ONLY <3>2, <3>3
    <3> QED BY ONLY <3>1, <3>4
  <2>4. j = i
    BY <1>2, <1>4, <1>8, <2>3, RunAtIs
  <2>5. Spot(v, s, x) = At(v, s.areas[1]) + x
    BY <1>1, <1>5, <2>1, SpotOne
  <2>6. r.bases[1] + (y - r.start) = At(v, s.areas[1]) + x
    <3>1. PICK a, b, c, d : a = s.start * v.ext /\ b = r.bases[1] /\ c = r.start /\ d = At(v, s.areas[1])
      OBVIOUS
    <3>2. a \in Nat /\ b \in Nat /\ c \in Nat /\ b + (a - c) = d /\ x = y - a
      BY <1>4, <1>6, <2>1, <2>2, <3>1
    <3>3. b + (y - c) = d + x
      BY ONLY <3>2, y \in Nat
    <3> QED BY <3>1, <3>3
  <2>7. RunPlace(r, y - r.start) = r.bases[1] + (y - r.start)
    BY <2>1 DEF RunPlace
  <2> QED BY <1>2, <1>4, <1>5, <1>8, <2>4, <2>5, <2>6, <2>7
<1> QED BY <1>10, <1>11

-----------------------------------------------------------------------------
(* A copy of a mirror is read to the mirror's size.                         *)
CutTo(map, T) ==
    [i \in {j \in DOMAIN map : map[j].start < T} |-> [map[i] EXCEPT !.size = Min({@, T - map[i].start})]]

(* lm is map up to T.                                                       *)
CutOf(lm, map, T) ==
    /\ T \in Nat /\ MapOK(map) /\ T <= SumTo(Sizes(map), Len(map))
    /\ LvmSize(lm) = T
    /\ DOMAIN lm \subseteq 1..Len(map)
    /\ \A i \in 1..Len(map) : map[i].start < T => i \in DOMAIN lm
    /\ \A i \in DOMAIN lm :
          /\ lm[i].start = map[i].start /\ lm[i].stripe = map[i].stripe /\ lm[i].bases = map[i].bases
          /\ map[i].start < T =>
                lm[i].size = IF map[i].size <= T - map[i].start THEN map[i].size ELSE T - map[i].start

(* Where a run of a map begins and ends.                                    *)
LEMMA MapParts ==
    ASSUME NEW map, MapOK(map)
    PROVE  /\ Numbered(Sizes(map), Len(map)) /\ Len(map) \in Nat /\ DOMAIN map = 1..Len(map)
           /\ \A j \in 1..Len(map) :
                 /\ map[j] \in MapRun /\ map[j].start \in Nat /\ map[j].size \in Nat
                 /\ Sizes(map)[j] = map[j].size
                 /\ map[j].start = SumTo(Sizes(map), j - 1)
                 /\ map[j].start + map[j].size = SumTo(Sizes(map), j)
           /\ \A j \in 1..Len(map), k \in 1..Len(map) :
                 j < k => map[j].start + map[j].size <= map[k].start
<1> DEFINE f == Sizes(map)
<1>1. /\ Numbered(f, Len(map)) /\ Len(map) \in Nat /\ DOMAIN map = 1..Len(map)
      /\ \A j \in 1..Len(map) : map[j] \in MapRun /\ f[j] = map[j].size /\ map[j].start = SumTo(f, j - 1)
  BY SizesAre DEF MapOK
<1> HIDE DEF f
<1>2. ASSUME NEW j \in 1..Len(map)
      PROVE  map[j].start \in Nat /\ map[j].size \in Nat /\ map[j].start + map[j].size = SumTo(f, j)
  <2>1. map[j].start \in Nat /\ map[j].size \in Nat
    BY <1>1 DEF MapRun
  <2>2. SumTo(f, j) = SumTo(f, j - 1) + f[j]
    BY <1>1, PartIs
  <2> QED BY <1>1, <2>1, <2>2
<1>3. ASSUME NEW j \in 1..Len(map), NEW k \in 1..Len(map), j < k
      PROVE  map[j].start + map[j].size <= map[k].start
  <2>1. j \in 0..Len(map) /\ k - 1 \in j..Len(map)
    BY <1>1, <1>3
  <2>2. SumTo(f, j) <= SumTo(f, k - 1)
    BY <1>1, <2>1, SumToGrows
  <2> QED BY <1>1, <1>2, <2>2
<1> QED BY <1>1, <1>2, <1>3 DEF f

(* The whole of a map is one that is not cut.                               *)
LEMMA WholeCut ==
    ASSUME NEW map, MapOK(map)
    PROVE  CutOf(map, map, SumTo(Sizes(map), Len(map)))
<1> DEFINE T == SumTo(Sizes(map), Len(map))
<1>1. /\ Numbered(Sizes(map), Len(map)) /\ Len(map) \in Nat /\ DOMAIN map = 1..Len(map)
      /\ \A j \in 1..Len(map) :
            /\ map[j].start \in Nat /\ map[j].size \in Nat
            /\ map[j].start + map[j].size = SumTo(Sizes(map), j)
  BY MapParts
<1>2. T \in Nat
  BY <1>1, SumToIs
<1>3. ASSUME NEW j \in 1..Len(map) PROVE map[j].start + map[j].size <= T
  <2>1. j \in 0..Len(map) /\ Len(map) \in j..Len(map)
    BY <1>1
  <2>2. SumTo(Sizes(map), j) <= SumTo(Sizes(map), Len(map))
    BY <1>1, <2>1, SumToGrows
  <2> QED BY <1>1, <2>2
<1>4. LvmSize(map) = T
  BY DEF LvmSize, Sizes
<1> HIDE DEF T
<1>5. ASSUME NEW j \in 1..Len(map)
      PROVE  map[j].size = IF map[j].size <= T - map[j].start THEN map[j].size ELSE T - map[j].start
  BY <1>1, <1>2, <1>3
<1>6. T <= T
  BY <1>2
<1> QED BY <1>1, <1>2, <1>4, <1>5, <1>6 DEF CutOf, T

(* And a copy is the map up to the size of the mirror (_lvm_copy).          *)
LEMMA CutIs ==
    ASSUME NEW map, MapOK(map), NEW T \in Nat, T <= SumTo(Sizes(map), Len(map))
    PROVE  CutOf(CutTo(map, T), map, T)
<1> DEFINE f == Sizes(map)
           lm == CutTo(map, T)
           kept(i) == IF map[i].size <= T - map[i].start THEN map[i].size ELSE T - map[i].start
<1>1. /\ Numbered(f, Len(map)) /\ Len(map) \in Nat /\ DOMAIN map = 1..Len(map)
      /\ \A j \in 1..Len(map) :
            /\ map[j] \in MapRun /\ map[j].start \in Nat /\ map[j].size \in Nat /\ f[j] = map[j].size
            /\ map[j].start = SumTo(f, j - 1) /\ map[j].start + map[j].size = SumTo(f, j)
      /\ \A j \in 1..Len(map), k \in 1..Len(map) : j < k => map[j].start + map[j].size <= map[k].start
  BY MapParts
<1>2. DOMAIN lm = {j \in 1..Len(map) : map[j].start < T}
  BY <1>1 DEF CutTo
<1>3. ASSUME NEW i \in DOMAIN lm
      PROVE  /\ lm[i].start = map[i].start /\ lm[i].stripe = map[i].stripe /\ lm[i].bases = map[i].bases
             /\ lm[i].size = kept(i) /\ lm[i] \in MapRun
  <2>1. i \in 1..Len(map) /\ map[i].start < T
    BY <1>2
  <2>2. PICK r, m : r = map[i] /\ m = Min({r.size, T - r.start})
    OBVIOUS
  <2>3. r \in MapRun /\ r.size \in Nat /\ T - r.start \in Nat
    BY <1>1, <2>1, <2>2
  <2>4. m = (IF r.size <= T - r.start THEN r.size ELSE T - r.start)
    <3>1. PICK a, b : a = r.size /\ b = T - r.start
      OBVIOUS
    <3>2. a \in Int /\ b \in Int
      BY <2>3, <3>1
    <3> QED BY <2>2, <3>1, <3>2, MinTwo
  <2>5. m \in Nat /\ m = kept(i)
    BY <2>2, <2>3, <2>4
  <2>6. lm[i] = [r EXCEPT !.size = m]
    BY <1>1, <2>1, <2>2 DEF CutTo
  <2> HIDE DEF lm, kept
  <2> QED BY <2>2, <2>3, <2>5, <2>6 DEF MapRun
<1>4. LvmSize(lm) = T
  <2>1. CASE T = 0
    <3>1. DOMAIN lm = {}
      BY <1>1, <1>2, <2>1
    <3>2. lm = <<>>
      <4>1. lm = [i \in {} |-> lm[i]]
        BY <3>1 DEF CutTo
      <4> QED BY <4>1
    <3>3. LvmSize(<<>>) = 0
      <4>1. Len(<<>>) = 0
        OBVIOUS
      <4> QED BY <4>1, SumToZero DEF LvmSize
    <3> QED BY <2>1, <3>2, <3>3
  <2>2. CASE T # 0
    <3>1. T - 1 \in Nat /\ T - 1 < SumTo(Sizes(map), Len(map))
      <4>1. PICK t : t = SumTo(Sizes(map), Len(map))
        OBVIOUS
      <4>2. t \in Nat
        BY <1>1, <4>1, SumToIs
      <4> QED BY <2>2, <4>1, <4>2
    <3>2. PICK k \in 1..Len(map) : map[k].start <= T - 1 /\ T - 1 < map[k].start + map[k].size
      <4>1. PICK y : y = T - 1
        OBVIOUS
      <4> QED BY <3>1, <4>1, RunAtIs
    <3>3. map[k].start < T /\ T <= map[k].start + map[k].size
      BY <1>1, <3>2
    <3>4. DOMAIN lm = 1..k
      <4>1. ASSUME NEW j \in 1..Len(map), j <= k PROVE map[j].start < T
        BY <1>1, <3>3, <4>1
      <4>2. ASSUME NEW j \in 1..Len(map), k < j PROVE ~(map[j].start < T)
        BY <1>1, <3>3, <4>2
      <4>3. \A j : j \in 1..k <=> j \in 1..Len(map) /\ j <= k
        BY <1>1
      <4> QED BY <1>1, <1>2, <4>1, <4>2, <4>3
    <3>5. lm \in Seq(MapRun) /\ Len(lm) = k /\ k \in Nat
      <4>1. lm = [i \in 1..k |-> lm[i]]
        <5>1. lm = [i \in DOMAIN lm |-> lm[i]]
          BY DEF CutTo
        <5> HIDE DEF lm
        <5> QED BY <3>4, <5>1
      <4>2. k \in Nat
        BY <1>1
      <4>3. \A i \in 1..k : lm[i] \in MapRun
        BY <1>3, <3>4
      <4> HIDE DEF lm
      <4>4. lm \in [1..k -> MapRun]
        BY <4>1, <4>3
      <4> QED BY <4>2, <4>4
    <3> HIDE DEF lm
    <3>6. Numbered(Sizes(lm), k) /\ \A j \in 1..k : Sizes(lm)[j] = lm[j].size
      BY <3>5, SizesAre
    <3>7. k - 1 \in Nat /\ (k - 1) + 1 = k /\ k \in 1..k /\ \A j \in 1..(k - 1) : j \in 1..k /\ j \in 1..Len(map) /\ j < k
      BY <1>1, <3>2
    <3>8. SumTo(Sizes(lm), k - 1) = SumTo(f, k - 1)
      <4>1. ASSUME NEW j \in 1..(k - 1) PROVE f[j] = Sizes(lm)[j]
        <5>1. map[j].start + map[j].size <= map[k].start
          BY <1>1, <3>2, <3>7
        <5>2. j \in 1..k /\ j \in 1..Len(map)
          BY <3>7
        <5>3. map[j].start \in Nat /\ map[j].size \in Nat /\ f[j] = map[j].size /\ map[k].start \in Nat
          BY <1>1, <5>2
        <5>4. map[j].size <= T - map[j].start
          BY <3>3, <5>1, <5>3
        <5>5. Sizes(lm)[j] = lm[j].size /\ lm[j].size = kept(j)
          BY <1>3, <3>4, <3>6, <5>2
        <5> QED BY <5>3, <5>4, <5>5
      <4>2. SameUpTo(f, Sizes(lm), k - 1)
        BY <4>1 DEF SameUpTo
      <4>3. Numbered(f, k - 1)
        BY <1>1, <3>7 DEF Numbered
      <4> QED BY <3>7, <4>2, <4>3, SumToAlike
    <3>9. Sizes(lm)[k] = T - map[k].start
      <4>1. Sizes(lm)[k] = kept(k)
        BY <1>3, <3>4, <3>6, <3>7
      <4>2. map[k].start \in Nat /\ map[k].size \in Nat
        BY <1>1, <3>2
      <4>3. T - map[k].start <= map[k].size
        BY <3>3, <4>2
      <4> QED BY <4>1, <4>2, <4>3
    <3>10. SumTo(Sizes(lm), k) = SumTo(Sizes(lm), k - 1) + Sizes(lm)[k]
      BY <3>6, <3>7, <3>5, PartIs
    <3>11. LvmSize(lm) = SumTo(Sizes(lm), k)
      BY <3>5 DEF LvmSize, Sizes
    <3>12. map[k].start = SumTo(f, k - 1) /\ map[k].start \in Nat
      BY <1>1, <3>2
    <3> QED BY <3>8, <3>9, <3>10, <3>11, <3>12
  <2> QED BY <2>1, <2>2
<1> HIDE DEF lm
<1>5. DOMAIN lm \subseteq 1..Len(map) /\ \A i \in 1..Len(map) : map[i].start < T => i \in DOMAIN lm
  BY <1>2
<1> QED BY <1>3, <1>4, <1>5 DEF CutOf, lm

-----------------------------------------------------------------------------
(* The place of a sector in a map that is cut is that in the map itself, and*)
(* what lies straight on from it is of its run, stripe and volume (locate). *)
LEMMA PlaceIs ==
    ASSUME NEW lm, NEW map, NEW T, CutOf(lm, map, T), NEW y \in Nat, y < T, NEW r, NEW x,
           r = map[RunAt(map, y)], x = y - r.start
    PROVE  /\ r \in MapRun /\ x \in Nat /\ x < r.size
           /\ LvmPlace(lm, y).at = RunPlace(r, x)
           /\ LvmPlace(lm, y).run \in Nat \ {0}
           /\ y + LvmPlace(lm, y).run <= T /\ x + LvmPlace(lm, y).run <= r.size
           /\ r.stripe # 0 => (x % r.stripe) + LvmPlace(lm, y).run <= r.stripe
<1>1. T \in Nat /\ MapOK(map) /\ T <= SumTo(Sizes(map), Len(map)) /\ SumTo(Sizes(map), Len(map)) \in Nat
  <2>1. T \in Nat /\ MapOK(map) /\ T <= SumTo(Sizes(map), Len(map))
    BY DEF CutOf
  <2> QED BY <2>1, MapParts, SumToIs
<1>2. PICK i : i = RunAt(map, y)
  OBVIOUS
<1>3. i \in 1..Len(map) /\ r.start <= y /\ y < r.start + r.size
  <2>1. y < SumTo(Sizes(map), Len(map))
    BY <1>1
  <2> QED BY <1>1, <1>2, <2>1, RunAtIs
<1>4. r \in MapRun /\ r.start \in Nat /\ r.size \in Nat /\ r.stripe \in Nat
      /\ DOMAIN map = 1..Len(map) /\ \A j \in 1..Len(map) : map[j].start \in Nat
  <2>1. r \in MapRun /\ r.start \in Nat /\ r.size \in Nat
        /\ DOMAIN map = 1..Len(map) /\ \A j \in 1..Len(map) : map[j].start \in Nat
    BY <1>1, <1>2, <1>3, MapParts
  <2> QED BY <2>1 DEF MapRun
<1>5. {j \in DOMAIN lm : lm[j].start <= y} = {j \in DOMAIN map : map[j].start <= y}
  <2>1. ASSUME NEW j \in DOMAIN lm PROVE j \in DOMAIN map /\ lm[j].start = map[j].start
    BY <1>4 DEF CutOf
  <2>2. ASSUME NEW j \in DOMAIN map, map[j].start <= y PROVE j \in DOMAIN lm
    <3>1. map[j].start < T
      BY <1>1, <1>4, <2>2
    <3> QED BY <1>4, <3>1 DEF CutOf
  <2> QED BY <2>1, <2>2
<1>6. PICK cut : cut = lm[i]
  OBVIOUS
<1>7. /\ cut.start = r.start /\ cut.stripe = r.stripe /\ cut.bases = r.bases
      /\ cut.size = IF r.size <= T - r.start THEN r.size ELSE T - r.start
  <2>1. r.start < T
    BY <1>1, <1>3, <1>4
  <2>2. i \in DOMAIN lm
    BY <1>2, <1>3, <2>1 DEF CutOf
  <2> QED BY <1>2, <1>6, <2>1, <2>2 DEF CutOf
<1>8. x \in Nat /\ x < r.size
  BY <1>3, <1>4
<1>9. /\ cut.size - x \in Nat \ {0}
      /\ y + (cut.size - x) <= T /\ x + (cut.size - x) <= r.size
  <2>0. T \in Nat /\ y \in Nat /\ y < T
    BY <1>1
  <2>1. PICK a, b, s : a = r.start /\ b = r.size /\ s = cut.size
    OBVIOUS
  <2>2. a \in Nat /\ b \in Nat /\ a <= y /\ y < a + b /\ x = y - a /\ s = IF b <= T - a THEN b ELSE T - a
    BY <1>3, <1>4, <1>7, <2>1
  <2>3. s - x \in Nat \ {0} /\ y + (s - x) <= T /\ x + (s - x) <= b
    BY ONLY <2>2, <2>0
  <2> QED BY <1>1, <2>1, <2>3
<1>10. LvmPlace(lm, y) =
         LET c == x \div cut.stripe
             within == x % cut.stripe
         IN IF cut.stripe = 0 THEN [at |-> cut.bases[1] + x, run |-> cut.size - x]
            ELSE [at |-> cut.bases[(c % Len(cut.bases)) + 1] + (c \div Len(cut.bases)) * cut.stripe + within,
                  run |-> Min({cut.stripe - within, cut.size - x})]
  <2>1. lm[Max({j \in DOMAIN lm : lm[j].start <= y})] = cut
    BY <1>2, <1>5, <1>6 DEF RunAt
  <2>2. y - cut.start = x
    BY <1>7
  <2> QED BY <2>1, <2>2 DEF LvmPlace
<1>11. CASE r.stripe = 0
  <2>1. LvmPlace(lm, y) = [at |-> r.bases[1] + x, run |-> cut.size - x]
    BY <1>7, <1>10, <1>11
  <2>2. LvmPlace(lm, y).at = r.bases[1] + x /\ LvmPlace(lm, y).run = cut.size - x
    BY <2>1
  <2>3. RunPlace(r, x) = r.bases[1] + x
    BY <1>11 DEF RunPlace
  <2> QED BY <1>4, <1>8, <1>9, <1>11, <2>2, <2>3
<1>12. CASE r.stripe # 0
  <2>1. PICK n, st, c, w : n = Len(r.bases) /\ st = r.stripe /\ c = x \div st /\ w = x % st
    OBVIOUS
  <2>2. n \in Nat \ {0} /\ st \in Nat \ {0} /\ \A k \in 1..n : r.bases[k] \in Nat
    <3>1. Len(r.bases) \in Nat \ {0} /\ \A k \in 1..Len(r.bases) : r.bases[k] \in Nat
      BY <1>4 DEF MapRun
    <3> QED BY <1>4, <1>12, <2>1, <3>1
  <2>3. c \in Nat /\ w \in 0..(st - 1)
    BY <1>8, <2>1, <2>2, DivMod
  <2>4. c % n \in 0..(n - 1) /\ c \div n \in Nat
    BY <2>2, <2>3, DivMod
  <2>5. PICK b, q : b = r.bases[(c % n) + 1] /\ q = (c \div n) * st
    OBVIOUS
  <2>6. b \in Nat /\ q \in Nat
    <3>1. (c % n) + 1 \in 1..n
      BY <2>2, <2>4
    <3>2. b \in Nat
      BY <2>2, <2>5, <3>1
    <3> QED BY <2>2, <2>4, <2>5, <3>2, ProductNat
  <2>7. LvmPlace(lm, y) = [at |-> b + q + w, run |-> Min({st - w, cut.size - x})]
    BY <1>7, <1>10, <1>12, <2>1, <2>5
  <2>8. RunPlace(r, x) = b + (q + w)
    BY <1>12, <2>1, <2>5 DEF RunPlace, StripeFor, InStripe
  <2>9. PICK m : m = Min({st - w, cut.size - x})
    OBVIOUS
  <2>10. m = IF st - w <= cut.size - x THEN st - w ELSE cut.size - x
    <3>1. PICK a, d : a = st - w /\ d = cut.size - x
      OBVIOUS
    <3>2. a \in Int /\ d \in Int
      BY <1>9, <2>2, <2>3, <3>1
    <3> QED BY <2>9, <3>1, <3>2, MinTwo
  <2>11. LvmPlace(lm, y).at = b + q + w /\ LvmPlace(lm, y).run = m
    BY <2>7, <2>9
  <2>12. b + q + w = b + (q + w)
    BY <2>2, <2>3, <2>6
  <2>13. m \in Nat \ {0} /\ m <= cut.size - x /\ w + m <= st
    <3>1. PICK d : d = cut.size - x
      OBVIOUS
    <3> QED BY <1>9, <2>2, <2>3, <2>10, <3>1
  <2>14. y + m <= T /\ x + m <= r.size
    <3>1. PICK d, z : d = cut.size - x /\ z = r.size
      OBVIOUS
    <3>2. d \in Nat /\ y + d <= T /\ x + d <= z /\ m <= d /\ m \in Nat /\ z \in Nat
      BY <1>4, <1>9, <2>13, <3>1
    <3>3. y + m <= T /\ x + m <= z
      BY ONLY <3>2, <1>8, <1>1, y \in Nat
    <3> QED BY <3>1, <3>3
  <2> QED BY <1>4, <1>8, <2>1, <2>8, <2>11, <2>12, <2>13, <2>14
<1> QED BY <1>11, <1>12

(* And lies straight on in it.                                              *)
LEMMA StraightIs ==
    ASSUME NEW lm, NEW map, NEW T, CutOf(lm, map, T), NEW y \in Nat, y < T,
           NEW i \in 0..(LvmPlace(lm, y).run - 1)
    PROVE  /\ y + i \in Nat /\ y + i < T
           /\ LvmPlace(lm, y + i).at = LvmPlace(lm, y).at + i
<1>1. T \in Nat /\ MapOK(map) /\ T <= SumTo(Sizes(map), Len(map)) /\ SumTo(Sizes(map), Len(map)) \in Nat
  <2>1. T \in Nat /\ MapOK(map) /\ T <= SumTo(Sizes(map), Len(map))
    BY DEF CutOf
  <2> QED BY <2>1, MapParts, SumToIs
<1>2. PICK r, x, run, j : r = map[RunAt(map, y)] /\ x = y - r.start /\ run = LvmPlace(lm, y).run /\ j = RunAt(map, y)
  OBVIOUS
<1>3. /\ r \in MapRun /\ x \in Nat /\ x < r.size
      /\ LvmPlace(lm, y).at = RunPlace(r, x)
      /\ run \in Nat \ {0} /\ y + run <= T /\ x + run <= r.size
      /\ r.stripe # 0 => (x % r.stripe) + run <= r.stripe
  BY <1>2, PlaceIs
<1>4. r.start \in Nat /\ r.size \in Nat /\ r.stripe \in Nat /\ Len(r.bases) \in Nat \ {0}
      /\ \A k \in 1..Len(r.bases) : r.bases[k] \in Nat
  BY <1>3 DEF MapRun
<1>5. i \in Nat /\ i < run /\ y + i \in Nat /\ y + i < T /\ x + i \in Nat
      /\ r.start <= y + i /\ y + i < r.start + r.size /\ (y + i) - r.start = x + i
  <2>1. PICK a, b : a = r.start /\ b = r.size
    OBVIOUS
  <2>2. /\ a \in Nat /\ b \in Nat /\ x \in Nat /\ x = y - a /\ run \in Nat /\ y + run <= T /\ x + run <= b
        /\ i \in 0..(run - 1) /\ y \in Nat /\ T \in Nat
    BY <1>1, <1>2, <1>3, <1>4, <2>1
  <2>3. i \in Nat /\ i < run /\ y + i \in Nat /\ y + i < T /\ x + i \in Nat
        /\ a <= y + i /\ y + i < a + b /\ (y + i) - a = x + i
    BY ONLY <2>2
  <2> QED BY <2>1, <2>3
<1>6. j \in 1..Len(map)
  <2>1. y < SumTo(Sizes(map), Len(map))
    BY <1>1
  <2> QED BY <1>1, <1>2, <2>1, RunAtIs
<1>7. RunAt(map, y + i) = j
  <2>1. PICK z : z = y + i
    OBVIOUS
  <2>2. z \in Nat /\ z < SumTo(Sizes(map), Len(map)) /\ map[j].start <= z /\ z < map[j].start + map[j].size
    BY <1>1, <1>2, <1>5, <2>1
  <2> QED BY <1>1, <1>6, <2>1, <2>2, RunAtIs
<1>8. LvmPlace(lm, y + i).at = RunPlace(r, x + i)
  <2>1. PICK z, u : z = y + i /\ u = x + i
    OBVIOUS
  <2>2. z \in Nat /\ z < T /\ r = map[RunAt(map, z)] /\ u = z - r.start
    BY <1>2, <1>5, <1>7, <2>1
  <2>3. LvmPlace(lm, z).at = RunPlace(r, u)
    BY <2>2, PlaceIs
  <2> QED BY <2>1, <2>3
<1>9. RunPlace(r, x + i) = RunPlace(r, x) + i
  <2>1. CASE r.stripe = 0
    <3>1. PICK b : b = r.bases[1]
      OBVIOUS
    <3>2. b \in Nat
      <4>1. 1 \in 1..Len(r.bases)
        BY <1>4
      <4> QED BY <1>4, <3>1, <4>1
    <3>3. b + (x + i) = (b + x) + i
      BY <1>3, <1>5, <3>2
    <3> QED BY <2>1, <3>1, <3>3 DEF RunPlace
  <2>2. CASE r.stripe # 0
    <3>1. PICK n, st : n = Len(r.bases) /\ st = r.stripe
      OBVIOUS
    <3>2. n \in Nat \ {0} /\ st \in Nat \ {0} /\ (x % st) + i < st
      <4>1. st \in Nat \ {0}
        BY <1>4, <2>2, <3>1
      <4>2. x % st \in 0..(st - 1)
        BY <1>3, <4>1, DivMod
      <4> QED BY <1>3, <1>4, <1>5, <2>2, <3>1, <4>1, <4>2
    <3>3. StripeFor(n, st, x + i) = StripeFor(n, st, x) /\ InStripe(n, st, x + i) = InStripe(n, st, x) + i
      <4>1. x \in Nat /\ i \in Nat
        BY <1>3, <1>5
      <4>2. n \in Nat \ {0} /\ st \in Nat \ {0} /\ (x % st) + i < st
        BY <3>2
      <4>3. PICK k : k = i
        OBVIOUS
      <4>4. k \in 0..(st - (x % st) - 1)
        <5>1. PICK w : w = x % st
          OBVIOUS
        <5>2. w \in 0..(st - 1)
          BY <3>2, <4>1, <5>1, DivMod
        <5> QED BY <4>1, <4>2, <4>3, <5>1, <5>2
      <4>5. StripeFor(n, st, x + k) = StripeFor(n, st, x) /\ InStripe(n, st, x + k) = InStripe(n, st, x) + k
        BY <4>1, <4>2, <4>4, StripeStraight
      <4> QED BY <4>3, <4>5
    <3>4. PICK b, q : b = r.bases[StripeFor(n, st, x) + 1] /\ q = InStripe(n, st, x)
      OBVIOUS
    <3>5. b \in Nat /\ q \in Nat
      <4>1. x \div st \in Nat /\ x % st \in 0..(st - 1)
        BY <1>3, <3>2, DivMod
      <4>2. PICK c, w : c = x \div st /\ w = x % st
        OBVIOUS
      <4>3. c % n \in 0..(n - 1) /\ c \div n \in Nat
        BY <3>2, <4>1, <4>2, DivMod
      <4>4. (c % n) + 1 \in 1..n /\ (c \div n) * st \in Nat
        BY <3>2, <4>3, ProductNat
      <4>5. b \in Nat
        BY <1>4, <3>1, <3>4, <4>2, <4>4 DEF StripeFor
      <4>6. q = (c \div n) * st + w
        BY <3>4, <4>2 DEF InStripe
      <4> QED BY <4>1, <4>2, <4>4, <4>5, <4>6
    <3>6. b + (q + i) = (b + q) + i
      BY <1>5, <3>5
    <3>7. RunPlace(r, x + i) = b + (q + i) /\ RunPlace(r, x) = b + q
      BY <2>2, <3>1, <3>3, <3>4 DEF RunPlace
    <3> QED BY <3>6, <3>7
  <2> QED BY <2>1, <2>2
<1> QED BY <1>3, <1>5, <1>8, <1>9

(* A volume whose segments are read is one of runs on the image.            *)
LEMMA LaidIs ==
    ASSUME NEW v, NEW size \in Nat, GroupOK(v, size), NEW lv \in DOMAIN v.lvs, Laid(v, v.lvs[lv])
    PROVE  VolumeOK(v, v.lvs[lv], size)
<1>1. PICK segs, e : segs = v.lvs[lv] /\ e = v.ext
  OBVIOUS
<1>2. /\ e \in Nat \ {0} /\ segs \in Seq(Segment) /\ Len(segs) \in Nat /\ DOMAIN segs = 1..Len(segs)
      /\ \A i \in 1..Len(segs) : segs[i] \in Segment /\ segs[i].areas # <<>>
  <2>1. e \in Nat \ {0} /\ segs \in Seq(Segment) /\ \A i \in DOMAIN segs : segs[i].areas # <<>>
    BY <1>1 DEF GroupOK
  <2> QED BY <2>1
<1>3. Len(segs) # 0
  <2>1. segs # <<>>
    BY <1>1 DEF Laid
  <2> QED BY <1>2, <2>1
<1>4. ASSUME NEW i \in 1..Len(segs), NEW s, s = segs[i]
      PROVE  /\ s.count \in Nat /\ Len(s.areas) \in Nat \ {0} /\ DOMAIN s.areas = 1..Len(s.areas)
             /\ \A k \in 1..Len(s.areas) : s.areas[k].pe \in Nat
             /\ s.type = "striped" /\ s.start = Before(segs, i) /\ Each(s) = s.count \div Len(s.areas)
             /\ Each(s) \in Nat
  <2>1. s \in Segment /\ s.areas # <<>>
    BY <1>2, <1>4
  <2>2. /\ s.count \in Nat /\ Len(s.areas) \in Nat \ {0} /\ DOMAIN s.areas = 1..Len(s.areas)
        /\ \A k \in 1..Len(s.areas) : s.areas[k] \in [on : STRING, pe : Nat]
    <3>1. PICK A : A = [on : STRING, pe : Nat]
      OBVIOUS
    <3>2. s.count \in Nat /\ s.areas \in Seq(A) /\ s.areas # <<>>
      BY <2>1, <3>1 DEF Segment
    <3>3. Len(s.areas) \in Nat \ {0} /\ DOMAIN s.areas = 1..Len(s.areas) /\ \A k \in 1..Len(s.areas) : s.areas[k] \in A
      BY <3>2
    <3> QED BY <3>1, <3>2, <3>3
  <2>3. s.type = "striped" /\ s.start = Before(segs, i)
    BY <1>1, <1>2, <1>4 DEF Laid
  <2>4. Each(s) = s.count \div Len(s.areas)
    BY <2>3 DEF Each
  <2>5. s.count \div Len(s.areas) \in Nat
    BY <2>2, DivMod
  <2> QED BY <2>2, <2>3, <2>4, <2>5
<1>5. ASSUME NEW i \in 1..Len(segs), NEW s, s = segs[i], NEW k \in 1..Len(s.areas)
      PROVE  /\ s.areas[k].on \in DOMAIN v.pvs /\ v.pvs[s.areas[k].on].here
             /\ At(v, s.areas[k]) \in Nat /\ At(v, s.areas[k]) + Each(s) * e <= size
  <2>1. PICK a : a = s.areas[k]
    OBVIOUS
  <2>2. a \in ToSet(s.areas)
    BY <1>4, <1>5, <2>1 DEF ToSet
  <2>3. PICK p : p = v.pvs[a.on]
    OBVIOUS
  <2>4. /\ a.on \in DOMAIN v.pvs /\ p.here
        /\ p.base \in Nat /\ p.count \in Nat \ {0} /\ p.base + p.count * e <= size
    <3>1. a.on \in DOMAIN v.pvs /\ p.here
      BY <1>1, <1>2, <1>5, <2>2, <2>3 DEF Laid
    <3> QED BY <1>1, <2>3, <3>1 DEF GroupOK
  <2>5. a.pe + Each(s) <= p.count
    BY <1>1, <1>2, <1>5, <2>2, <2>3, <2>4 DEF Laid
  <2>6. PICK pe, n, b, c : pe = a.pe /\ n = Each(s) /\ b = p.base /\ c = p.count
    OBVIOUS
  <2>7. pe \in Nat /\ n \in Nat /\ b \in Nat /\ c \in Nat /\ pe + n <= c /\ pe + n \in Nat
    BY <1>4, <1>5, <2>1, <2>4, <2>5, <2>6
  <2>8. (pe + n) * e <= c * e /\ (pe + n) * e = pe * e + n * e /\ pe * e \in Nat /\ n * e \in Nat /\ c * e \in Nat
    BY <1>2, <2>7, ProductGrows, ProductSum, ProductNat
  <2>9. PICK x, y, z : x = pe * e /\ y = n * e /\ z = c * e
    OBVIOUS
  <2>10. b + x \in Nat /\ (b + x) + y <= size
    <3>1. PICK w : w = (pe + n) * e
      OBVIOUS
    <3>2. w <= z /\ w = x + y /\ x \in Nat /\ y \in Nat /\ z \in Nat
      BY <2>8, <2>9, <3>1
    <3>3. b \in Nat /\ b + z <= size
      BY <2>4, <2>6, <2>7, <2>9
    <3> QED BY <3>2, <3>3
  <2>11. At(v, a) = b + x
    BY <1>1, <2>3, <2>6, <2>9 DEF At
  <2>12. y = Each(s) * e
    BY <2>6, <2>9
  <2>13. At(v, a) \in Nat /\ At(v, a) + Each(s) * e <= size
    BY <2>10, <2>11, <2>12
  <2> QED BY <2>1, <2>3, <2>4, <2>13
<1>6. ASSUME NEW i \in 1..Len(segs)
      PROVE  SegOK(v, segs[i], size) /\ segs[i].start = Before(segs, i)
  <2>1. PICK s : s = segs[i]
    OBVIOUS
  <2>2. ASSUME Len(s.areas) # 1
        PROVE  /\ s.stripe # 0 /\ s.count % Len(s.areas) = 0
               /\ ((s.count \div Len(s.areas)) * e) % s.stripe = 0
    <3>1. Len(s.areas) > 1
      <4>1. PICK n : n = Len(s.areas)
        OBVIOUS
      <4>2. Len(s.areas) \in Nat \ {0}
        BY <1>4, <2>1
      <4>3. n \in Nat \ {0} /\ n # 1
        BY <2>2, <4>1, <4>2
      <4>4. n > 1
        BY <4>3
      <4> QED BY <4>1, <4>4
    <3>2. s.stripe > 0 /\ s.count % Len(s.areas) = 0 /\ (Each(s) * e) % s.stripe = 0
      BY <1>1, <1>2, <2>1, <3>1 DEF Laid
    <3>3. s.stripe # 0
      BY <3>2
    <3> QED BY <1>4, <2>1, <3>2, <3>3
  <2>3. s \in Segment /\ Len(s.areas) \in Nat \ {0} /\ s.start = Before(segs, i)
    BY <1>2, <1>4, <2>1
  <2>4. ASSUME NEW k \in 1..Len(s.areas)
        PROVE  At(v, s.areas[k]) \in Nat /\ At(v, s.areas[k]) + (s.count \div Len(s.areas)) * e <= size
    BY <1>4, <1>5, <2>1, <2>4
  <2> QED BY <1>1, <2>1, <2>2, <2>3, <2>4 DEF SegOK
<1>7. ASSUME NEW i \in 1..Len(segs), NEW j \in 1..Len(segs),
             NEW k \in 1..Len(segs[i].areas), NEW l \in 1..Len(segs[j].areas), <<i, k>> # <<j, l>>
      PROVE  AreasApart(v, segs[i], segs[i].areas[k], segs[j], segs[j].areas[l])
  <2>1. PICK s, t, a, b : s = segs[i] /\ t = segs[j] /\ a = s.areas[k] /\ b = t.areas[l]
    OBVIOUS
  <2>2. /\ a.on \in DOMAIN v.pvs /\ v.pvs[a.on].here /\ b.on \in DOMAIN v.pvs /\ v.pvs[b.on].here
    BY <1>5, <2>1
  <2>3. k \in DOMAIN s.areas /\ l \in DOMAIN t.areas
    BY <1>4, <2>1
  <2>4. \/ At(v, a) + Each(s) * e <= At(v, b)
        \/ At(v, b) + Each(t) * e <= At(v, a)
    BY <1>1, <1>2, <1>7, <2>1, <2>2, <2>3 DEF GroupOK
  <2>5. Each(s) = s.count \div Len(s.areas) /\ Each(t) = t.count \div Len(t.areas)
    BY <1>4, <2>1
  <2> QED BY <1>1, <2>1, <2>4, <2>5 DEF AreasApart
<1> QED BY <1>1, <1>2, <1>3, <1>6, <1>7 DEF VolumeOK

(* What is read of a volume that is found: a map of its segments, or of a   *)
(* copy's, up to its size (LvmMap).                                         *)
LEMMA FoundIs ==
    ASSUME NEW v, NEW size \in Nat, GroupOK(v, size), Found(v, v.volume)
    PROVE  LET segs == v.lvs[Copied(v, v.volume)]
           IN /\ VolumeOK(v, segs, size)
              /\ MapOf(Runs(v, segs), v, segs, Len(segs))
              /\ SumTo(Sizes(Runs(v, segs)), Len(Runs(v, segs))) = Sectors(v, segs)
              /\ CutOf(LvmMap(v, v.volume), Runs(v, segs), LvmSize(LvmMap(v, v.volume)))
<1>1. PICK lv, on : lv = v.volume /\ on = Copied(v, lv)
  OBVIOUS
<1>2. lv \in DOMAIN v.lvs
  BY <1>1 DEF GroupOK
<1>3. PICK segs, all : segs = v.lvs[on] /\ all = Runs(v, segs)
  OBVIOUS
<1>4. ASSUME VolumeOK(v, segs, size)
      PROVE  MapOf(all, v, segs, Len(segs)) /\ SumTo(Sizes(all), Len(all)) = Sectors(v, segs) /\ MapOK(all)
  <2>1. MapOf(all, v, segs, Len(segs))
    BY <1>3, <1>4, RunsAre
  <2>2. Sectors(v, segs) = SumTo(Counts(segs), Len(segs)) * v.ext
    <3>1. Len(segs) \in Nat /\ Before(segs, Len(segs) + 1) = SumTo(Counts(segs), (Len(segs) + 1) - 1)
      BY <1>4, CountsAre
    <3>2. (Len(segs) + 1) - 1 = Len(segs)
      BY <3>1
    <3> QED BY <3>1, <3>2 DEF Sectors
  <2> QED BY <2>1, <2>2 DEF MapOf
<1>5. CASE ~Mirrored(v, lv)
  <2>1. on = lv /\ Laid(v, v.lvs[lv])
    BY <1>1, <1>5 DEF Copied, Found
  <2>2. VolumeOK(v, segs, size)
    BY <1>2, <1>3, <2>1, LaidIs
  <2>3. LvmMap(v, lv) = all
    BY <1>3, <1>5, <2>1 DEF LvmMap
  <2>4. CutOf(all, all, SumTo(Sizes(all), Len(all)))
    BY <1>4, <2>2, WholeCut
  <2>5. LvmSize(all) = SumTo(Sizes(all), Len(all))
    BY DEF LvmSize, Sizes
  <2> QED BY <1>1, <1>3, <1>4, <2>2, <2>3, <2>4, <2>5
<1>6. CASE Mirrored(v, lv)
  <2>1. PICK s, i, T : s = v.lvs[lv][1] /\ i = Min(Legs(v, lv)) /\ T = s.count * v.ext
    OBVIOUS
  <2>2. s \in Segment /\ v.ext \in Nat
    <3>1. v.lvs[lv] \in Seq(Segment) /\ Len(v.lvs[lv]) = 1
      BY <1>2, <1>6 DEF GroupOK, Mirrored
    <3>2. v.ext \in Nat
      BY DEF GroupOK
    <3> QED BY <2>1, <3>1, <3>2
  <2>3. s.count \in Nat /\ DOMAIN s.areas \subseteq Nat
    BY <2>2 DEF Segment
  <2>4. Legs(v, lv) \subseteq Nat /\ Legs(v, lv) # {}
    BY <1>1, <1>6, <2>1, <2>3 DEF Legs, Found
  <2>5. i \in Legs(v, lv)
    BY <2>1, <2>4, MinIsOne
  <2>6. on = s.areas[i].on
    BY <1>1, <1>6, <2>1 DEF Copied
  <2>7. on \in DOMAIN v.lvs /\ Laid(v, segs) /\ Sectors(v, segs) >= T
    BY <1>3, <2>1, <2>5, <2>6 DEF Legs
  <2>8. VolumeOK(v, segs, size)
    BY <1>3, <2>7, LaidIs
  <2>9. T \in Nat
    BY <2>1, <2>2, <2>3, ProductNat
  <2>10. SumTo(Sizes(all), Len(all)) = Sectors(v, segs) /\ MapOK(all) /\ SumTo(Sizes(all), Len(all)) \in Nat
    <3>1. SumTo(Sizes(all), Len(all)) = Sectors(v, segs) /\ MapOK(all)
      BY <1>4, <2>8
    <3> QED BY <3>1, MapParts, SumToIs
  <2>11. T <= SumTo(Sizes(all), Len(all))
    BY <2>7, <2>9, <2>10
  <2>12. CutOf(CutTo(all, T), all, T)
    BY <2>9, <2>10, <2>11, CutIs
  <2>13. LvmMap(v, lv) = CutTo(all, T)
    BY <1>3, <1>6, <2>1, <2>6 DEF LvmMap, CutTo
  <2>14. LvmSize(CutTo(all, T)) = T
    BY <2>12 DEF CutOf
  <2> QED BY <1>1, <1>3, <1>4, <2>8, <2>12, <2>13, <2>14
<1> QED BY <1>5, <1>6

-----------------------------------------------------------------------------
(* An LVM volume that is read.                                              *)
ArrayV(x) ==
    /\ x.level = "lvm" /\ x.n \in Nat \ {0} /\ x.members[1] \in Nat
    /\ GroupOK(x.layout, x.members[1]) /\ Found(x.layout, x.layout.volume)

(* Its places are where the device mapper has them, inside the image, and   *)
(* straight on for a run (LvmMap).                                          *)
LEMMA VolumeIs ==
    ASSUME NEW x, ArrayV(x)
    PROVE  /\ LvmSize(Volume(x)) \in Nat
           /\ \A y \in Nat :
                 y < LvmSize(Volume(x)) =>
                    /\ LvmPlace(Volume(x), y).at = Mapped(x.layout, x.layout.lvs[Copied(x.layout, x.layout.volume)], y)
                    /\ LvmPlace(Volume(x), y).at \in Nat /\ LvmPlace(Volume(x), y).at < x.members[1]
                    /\ LvmPlace(Volume(x), y).run \in Nat \ {0}
                    /\ \A i \in 0..(LvmPlace(Volume(x), y).run - 1) :
                          LvmPlace(Volume(x), y + i).at = LvmPlace(Volume(x), y).at + i
<1>1. PICK v, size, lm : v = x.layout /\ size = x.members[1] /\ lm = Volume(x)
  OBVIOUS
<1>2. size \in Nat /\ GroupOK(v, size) /\ Found(v, v.volume) /\ lm = LvmMap(v, v.volume)
  BY <1>1 DEF ArrayV, Volume
<1>3. PICK segs, all, T : segs = v.lvs[Copied(v, v.volume)] /\ all = Runs(v, segs) /\ T = LvmSize(lm)
  OBVIOUS
<1>4. /\ VolumeOK(v, segs, size) /\ MapOf(all, v, segs, Len(segs))
      /\ SumTo(Sizes(all), Len(all)) = Sectors(v, segs) /\ CutOf(lm, all, T)
  BY <1>2, <1>3, FoundIs
<1>5. T \in Nat /\ T <= Sectors(v, segs)
  BY <1>4 DEF CutOf
<1>6. ASSUME NEW y \in Nat, y < T
      PROVE  /\ LvmPlace(lm, y).at = Mapped(v, segs, y)
             /\ LvmPlace(lm, y).at \in Nat /\ LvmPlace(lm, y).at < size
             /\ LvmPlace(lm, y).run \in Nat \ {0}
             /\ \A i \in 0..(LvmPlace(lm, y).run - 1) : LvmPlace(lm, y + i).at = LvmPlace(lm, y).at + i
  <2>1. y < Sectors(v, segs)
    <3>1. SumTo(Sizes(all), Len(all)) \in Nat
      <4>1. MapOK(all)
        BY <1>4 DEF CutOf
      <4> QED BY <4>1, MapParts, SumToIs
    <3> QED BY <1>4, <1>5, <1>6, <3>1
  <2>2. PICK r, z : r = all[RunAt(all, y)] /\ z = y - r.start
    OBVIOUS
  <2>3. LvmPlace(lm, y).at = RunPlace(r, z) /\ LvmPlace(lm, y).run \in Nat \ {0}
    BY <1>4, <1>6, <2>2, PlaceIs
  <2>4. RunPlace(r, z) = Mapped(v, segs, y)
    BY <1>4, <2>1, <2>2, RunsPlace
  <2>5. PICK k \in 1..Len(segs) : In(v, segs[k], y)
    BY <1>4, <2>1, SegmentOf
  <2>6. PICK u : u = y - segs[k].start * v.ext
    OBVIOUS
  <2>7. Mapped(v, segs, y) = Spot(v, segs[k], u) /\ u \in Nat /\ u < segs[k].count * v.ext
    BY <1>4, <2>5, <2>6, MappedIs
  <2>8. SegOK(v, segs[k], size) /\ v.ext \in Nat \ {0}
    BY <1>4 DEF VolumeOK
  <2>9. Spot(v, segs[k], u) \in Nat /\ Spot(v, segs[k], u) < size
    BY <1>2, <2>7, <2>8, SpotIs
  <2>10. ASSUME NEW i \in 0..(LvmPlace(lm, y).run - 1) PROVE LvmPlace(lm, y + i).at = LvmPlace(lm, y).at + i
    BY <1>4, <1>6, <2>10, StraightIs
  <2> QED BY <2>3, <2>4, <2>7, <2>9, <2>10
<1> QED BY <1>1, <1>3, <1>5, <1>6

(* No sector of the image is two of the volume.                             *)
LEMMA VolumeApart ==
    ASSUME NEW x, ArrayV(x), NEW y \in Nat, NEW z \in Nat, y < LvmSize(Volume(x)), z < LvmSize(Volume(x)),
           LvmPlace(Volume(x), y).at = LvmPlace(Volume(x), z).at
    PROVE  y = z
<1>1. PICK v, size, lm : v = x.layout /\ size = x.members[1] /\ lm = Volume(x)
  OBVIOUS
<1>2. size \in Nat /\ GroupOK(v, size) /\ Found(v, v.volume) /\ lm = LvmMap(v, v.volume)
  BY <1>1 DEF ArrayV, Volume
<1>3. PICK segs, all, T : segs = v.lvs[Copied(v, v.volume)] /\ all = Runs(v, segs) /\ T = LvmSize(lm)
  OBVIOUS
<1>4. /\ VolumeOK(v, segs, size) /\ SumTo(Sizes(all), Len(all)) = Sectors(v, segs) /\ CutOf(lm, all, T)
  BY <1>2, <1>3, FoundIs
<1>5. T \in Nat /\ T <= Sectors(v, segs) /\ Sectors(v, segs) \in Nat
  <2>1. T \in Nat /\ T <= Sectors(v, segs) /\ MapOK(all)
    BY <1>4 DEF CutOf
  <2>2. SumTo(Sizes(all), Len(all)) \in Nat
    BY <2>1, MapParts, SumToIs
  <2> QED BY <1>4, <2>1, <2>2
<1>6. Mapped(v, segs, y) = Mapped(v, segs, z)
  BY <1>1, <1>3, VolumeIs
<1>7. y < Sectors(v, segs) /\ z < Sectors(v, segs)
  BY <1>1, <1>3, <1>5
<1>8. PICK i \in 1..Len(segs), j \in 1..Len(segs) : In(v, segs[i], y) /\ In(v, segs[j], z)
  BY <1>4, <1>7, SegmentOf
<1>9. PICK a, b, c, d : a = y - c /\ b = z - d /\ c = segs[i].start * v.ext /\ d = segs[j].start * v.ext
  OBVIOUS
<1>10. /\ Mapped(v, segs, y) = Spot(v, segs[i], a) /\ a \in Nat /\ a < segs[i].count * v.ext
       /\ Mapped(v, segs, z) = Spot(v, segs[j], b) /\ b \in Nat /\ b < segs[j].count * v.ext
  BY <1>4, <1>8, <1>9, MappedIs
<1>11. i = j /\ a = b
  <2>1. Spot(v, segs[i], a) = Spot(v, segs[j], b)
    BY <1>6, <1>10
  <2>2. VolumeOK(v, segs, size) /\ a \in Nat /\ b \in Nat /\ a < segs[i].count * v.ext /\ b < segs[j].count * v.ext
    BY <1>4, <1>10
  <2> QED BY <2>1, <2>2, SpotsApart
<1>12. c \in Nat /\ c = d
  <2>1. segs[i].start \in Nat /\ v.ext \in Nat
    BY <1>4, CountsAre DEF VolumeOK
  <2> QED BY <1>9, <1>11, <2>1, ProductNat
<1> QED BY <1>9, <1>11, <1>12

-----------------------------------------------------------------------------
(* The levels together.                                                     *)

Sound(x) ==
    \/ ArrayL(x)
    \/ Array0(x)
    \/ x.level = "1" /\ x.n \in Nat /\ x.dev \in Nat
    \/ x.level \in {"4", "5", "6"} /\ ArrayP(x)
    \/ x.level = "10" /\ Array10(x)
    \/ ArrayV(x)

(* Which of them it is, its level says.                                     *)
LEMMA SoundIs ==
    ASSUME NEW x, Sound(x)
    PROVE  /\ x.level \in {"4", "5", "6"} => ArrayP(x)
           /\ x.level = "10" => Array10(x)
           /\ x.level = "lvm" => ArrayV(x)
<1>1. CASE x.level \in {"4", "5", "6"}
  BY <1>1 DEF Sound, ArrayL, Array0, ArrayV
<1>2. CASE x.level = "10"
  BY <1>2 DEF Sound, ArrayL, Array0, ArrayV
<1>3. CASE x.level = "lvm"
  BY <1>3 DEF Sound, ArrayL, Array0
<1> QED BY <1>1, <1>2, <1>3

(* The geometries that are read are sound (_setup).                         *)
LEMMA SoundOf ==
    ASSUME NEW x \in Geometries, Accepted(x)
    PROVE  Sound(x)
<1>1. x.n \in Nat /\ x.chunk \in Nat /\ x.dev \in Nat
  BY GeometriesAssumption
<1>2. CASE x.level = "1"
  BY <1>1, <1>2 DEF Sound
<1>3. CASE x.level \in {"4", "5", "6"}
  <2>1. CASE x.level = "4"
    BY <1>1, <2>1 DEF Sound, Accepted, ArrayP, Array5
  <2>2. CASE x.level = "5"
    BY <1>1, <2>2 DEF Sound, Accepted, ArrayP, Array5
  <2>3. CASE x.level = "6"
    BY <1>1, <2>3 DEF Sound, Accepted, ArrayP, Array6
  <2> QED BY <1>3, <2>1, <2>2, <2>3
<1>4. CASE x.level = "10"
  <2> DEFINE near == x.layout.near
             far == x.layout.far
  <2>1. x.chunk >= Page /\ near * far \in 2..x.n
    BY <1>4 DEF Accepted
  <2>2. /\ near \in Nat /\ far \in Nat /\ x.layout.offset \in BOOLEAN /\ Page \in Nat \ {0}
        /\ x.layout.offset => near = 0 \/ x.n % near = 0
    BY <1>4, GeometriesAssumption
  <2>3. near # 0 /\ far # 0
    <3>1. 0 * far = 0 /\ near * 0 = 0
      BY <2>2
    <3> QED BY <2>1, <3>1
  <2> QED BY <1>1, <1>4, <2>1, <2>2, <2>3 DEF Sound, Array10
<1>5. CASE x.level = "linear"
  BY <1>1, <1>5, GeometriesAssumption DEF Sound, ArrayL
<1>6. CASE x.level = "0"
  <2>1. x.chunk > 0 /\ x.members \in [1..x.n -> Nat]
    BY <1>6, GeometriesAssumption DEF Accepted
  <2> QED BY <1>1, <1>6, <2>1 DEF Sound, Array0
<1>7. CASE x.level = "lvm"
  <2>1. x.members[1] \in Nat /\ GroupOK(x.layout, x.members[1])
    BY <1>7, GeometriesAssumption
  <2>2. x.n > 0 /\ Found(x.layout, x.layout.volume)
    BY <1>7 DEF Accepted
  <2> QED BY <1>1, <1>7, <2>1, <2>2 DEF Sound, ArrayV
<1>8. x.level \in {"linear", "0", "1", "4", "5", "6", "10", "lvm"}
  BY DEF Accepted
<1> QED BY <1>2, <1>3, <1>4, <1>5, <1>6, <1>7, <1>8

(* An array has a size (_setup).                                            *)
LEMMA SizeNat ==
    ASSUME NEW x, Sound(x)
    PROVE  Size(x) \in Nat
<1>1. CASE x.level = "1" /\ x.dev \in Nat
  BY <1>1 DEF Size
<1>2. CASE x.level \in {"4", "5", "6"} /\ ArrayP(x)
  <2>1. Floor(x.dev, x.chunk) \in Nat
    <3>1. x.dev % x.chunk \in 0..(x.chunk - 1) /\ x.dev \div x.chunk \in Nat
          /\ x.dev = x.chunk * (x.dev \div x.chunk) + (x.dev % x.chunk)
      BY <1>2, DivMod DEF ArrayP
    <3> DEFINE e == x.dev \div x.chunk
    <3>2. x.chunk * e \in Nat
      BY <1>2, <3>1, ProductNat DEF ArrayP
    <3>3. x.dev = x.chunk * e + (x.dev % x.chunk) /\ x.dev % x.chunk \in 0..(x.chunk - 1)
          /\ x.dev \in Nat /\ x.chunk \in Nat
      BY <1>2, <3>1 DEF ArrayP
    <3> HIDE DEF e
    <3>4. x.dev - (x.dev % x.chunk) \in Nat
      BY <3>2, <3>3
    <3> QED BY <3>4 DEF Floor
  <2>2. DataDisks(x) \in Nat
    BY <1>2, StripeOf
  <2> QED BY <1>2, <2>1, <2>2, ProductNat DEF Size
<1>3. CASE x.level = "10" /\ Array10(x)
  <2>1. Size(x) = ((Rows(x) * x.n) \div x.layout.near) * x.chunk
    BY <1>3 DEF Size, Rows
  <2>2. /\ x.dev \in Nat /\ x.chunk \in Nat \ {0} /\ x.n \in Nat
        /\ x.layout.near \in Nat \ {0} /\ x.layout.far \in Nat \ {0}
    BY <1>3 DEF Array10
  <2>3. x.dev \div x.chunk \in Nat
    BY <2>2, DivMod
  <2>4. Rows(x) \in Nat
    BY <2>2, <2>3, DivMod DEF Rows
  <2>5. Rows(x) * x.n \in Nat
    BY <2>2, <2>4, ProductNat
  <2>6. (Rows(x) * x.n) \div x.layout.near \in Nat
    BY <2>2, <2>5, DivMod
  <2> QED BY <2>1, <2>2, <2>6, ProductNat
<1>4. CASE ArrayL(x)
  <2>1. Numbered(Lengths(x), x.n) /\ x.n \in Nat /\ (x.n - 1) + 1 = x.n
    BY <1>4, LengthsAre DEF ArrayL
  <2>2. Size(x) = SumTo(Lengths(x), (x.n - 1) + 1)
    BY <1>4 DEF ArrayL, Size, LinearEnd, Lengths
  <2> QED BY <2>1, <2>2, SumToIs
<1>5. CASE Array0(x)
  <2>1. Numbered(Deep(x), Len(Heights(x))) /\ Len(Heights(x)) \in Nat
    BY <1>5, HeightsAre, ZonesAre
  <2>2. Size(x) = SumTo(Deep(x), Len(Heights(x)))
    BY <1>5 DEF Array0, Size, ZoneEnd, Deep
  <2> QED BY <2>1, <2>2, SumToIs
<1>6. CASE ArrayV(x)
  <2>1. Size(x) = LvmSize(Volume(x))
    BY <1>6 DEF ArrayV, Size
  <2> QED BY <1>6, <2>1, VolumeIs
<1> QED BY <1>1, <1>2, <1>3, <1>4, <1>5, <1>6 DEF Sound

(* A place is read for one byte of the array only (place, copies10, stripe).*)
LEMMA PlacesApart ==
    ASSUME NEW x, Sound(x), NEW y \in Nat, NEW z \in Nat, y < Size(x), z < Size(x), y # z,
           NEW p \in Places(x, y), NEW q \in Places(x, z)
    PROVE  <<p.role, p.at>> # <<q.role, q.at>>
<1>1. CASE x.level = "1"
  BY <1>1 DEF Places
<1>2. CASE x.level \in {"4", "5", "6"} /\ ArrayP(x)
  <2>1. /\ p.role = Stripe(x, y).role /\ p.at = Stripe(x, y).at
        /\ q.role = Stripe(x, z).role /\ q.at = Stripe(x, z).at
    BY <1>2 DEF Places
  <2> QED BY <1>2, <2>1, StripesApart
<1>3. CASE x.level = "10" /\ Array10(x)
  <2>1. p \in Copies10(x, y) /\ q \in Copies10(x, z)
    BY <1>3 DEF Places
  <2> QED BY <1>3, <2>1, CopiesApart
<1>4. CASE ArrayL(x)
  <2>1. /\ p.role = LinearPlace(x, y).role /\ p.at = LinearPlace(x, y).at
        /\ q.role = LinearPlace(x, z).role /\ q.at = LinearPlace(x, z).at
    BY <1>4 DEF Places, ArrayL
  <2> QED BY <1>4, <2>1, LinearApart
<1>5. CASE Array0(x)
  <2>1. /\ p.role = Raid0Place(x, y).role /\ p.at = Raid0Place(x, y).at
        /\ q.role = Raid0Place(x, z).role /\ q.at = Raid0Place(x, z).at
    BY <1>5 DEF Places, Array0
  <2> QED BY <1>5, <2>1, Apart0
<1>6. CASE ArrayV(x)
  <2>1. /\ p.at = LvmPlace(Volume(x), y).at /\ q.at = LvmPlace(Volume(x), z).at
        /\ Size(x) = LvmSize(Volume(x))
    BY <1>6 DEF Places, Size, ArrayV
  <2> QED BY <1>6, <2>1, VolumeApart
<1> QED BY <1>1, <1>2, <1>3, <1>4, <1>5, <1>6 DEF Sound

Gives(x, r) == IF x.level \in {"linear", "0", "lvm"} THEN SizeOf(x, r) ELSE x.dev

(* A place is on a member, in what the member gives the array.              *)
LEMMA PlacesInside ==
    ASSUME NEW x, Sound(x), NEW y \in Nat, y < Size(x), NEW p \in Places(x, y)
    PROVE  p.role \in RolesOf(x) /\ p.at \in Nat /\ p.at < Gives(x, p.role)
<1>0. x.level \in {"1", "4", "5", "6", "10"} => Gives(x, p.role) = x.dev
  BY DEF Gives
<1>1. CASE x.level = "1" /\ x.dev \in Nat
  BY <1>0, <1>1 DEF Places, Size, RolesOf
<1>2. CASE x.level \in {"4", "5", "6"} /\ ArrayP(x)
  <2>1. p.role = Stripe(x, y).role /\ p.at = Stripe(x, y).at
    BY <1>2 DEF Places
  <2>2. x.dev \in Nat
    BY <1>2 DEF ArrayP
  <2> QED BY <1>0, <1>2, <2>1, <2>2, StripeInside DEF RolesOf
<1>3. CASE x.level = "10" /\ Array10(x)
  <2>1. p \in Copies10(x, y)
    BY <1>3 DEF Places
  <2>2. x.dev \in Nat
    BY <1>3 DEF Array10
  <2> QED BY <1>0, <1>3, <2>1, <2>2, CopyInside DEF RolesOf
<1>4. CASE ArrayL(x)
  <2>1. p.role = LinearPlace(x, y).role /\ p.at = LinearPlace(x, y).at
    BY <1>4 DEF Places, ArrayL
  <2>2. Gives(x, p.role) = SizeOf(x, p.role)
    BY <1>4 DEF Gives, ArrayL
  <2> QED BY <1>4, <2>1, <2>2, LinearInside
<1>5. CASE Array0(x)
  <2>1. p.role = Raid0Place(x, y).role /\ p.at = Raid0Place(x, y).at
    BY <1>5 DEF Places, Array0
  <2>2. Gives(x, p.role) = SizeOf(x, p.role)
    BY <1>5 DEF Gives, Array0
  <2>3. /\ Raid0Place(x, y).role \in RolesOf(x)
        /\ Raid0Place(x, y).at \in Nat
        /\ Raid0Place(x, y).at < SizeOf(x, Raid0Place(x, y).role)
    BY <1>5, Inside0
  <2> QED BY <2>1, <2>2, <2>3
<1>6. CASE ArrayV(x)
  <2>1. /\ p.role = 0 /\ p.at = LvmPlace(Volume(x), y).at
        /\ Size(x) = LvmSize(Volume(x)) /\ x.n \in Nat \ {0}
    BY <1>6 DEF Places, Size, ArrayV
  <2>2. Gives(x, 0) = x.members[1]
    BY <1>6 DEF Gives, ArrayV, SizeOf
  <2>3. LvmPlace(Volume(x), y).at \in Nat /\ LvmPlace(Volume(x), y).at < x.members[1]
    BY <1>6, <2>1, VolumeIs
  <2>4. 0 \in RolesOf(x)
    BY <2>1 DEF RolesOf
  <2> QED BY <2>1, <2>2, <2>3, <2>4
<1> QED BY <1>1, <1>2, <1>3, <1>4, <1>5, <1>6 DEF Sound

(* A piece is of a byte at least.                                           *)
LEMMA RunNat ==
    ASSUME NEW x, Sound(x), NEW y \in Nat, y < Size(x)
    PROVE  Run(x, y) \in Nat \ {0}
<1>1. CASE x.level = "1" /\ x.dev \in Nat
  BY <1>1 DEF Run, Size
<1>2. CASE x.level \in {"4", "5", "6", "10"} /\ x.chunk \in Nat \ {0}
  <2>1. y % x.chunk \in 0..(x.chunk - 1) /\ Run(x, y) = x.chunk - (y % x.chunk)
    BY <1>2, DivMod DEF Run
  <2> QED BY <1>2, <2>1
<1>3. CASE ArrayL(x)
  BY <1>3, LinearInside DEF Run, ArrayL
<1>4. CASE Array0(x)
  <2>1. Raid0Place(x, y).run \in Nat \ {0}
    BY <1>4, Inside0
  <2> QED BY <1>4, <2>1 DEF Run, Array0
<1>5. CASE ArrayV(x)
  <2>1. Run(x, y) = LvmPlace(Volume(x), y).run /\ Size(x) = LvmSize(Volume(x))
    BY <1>5 DEF Run, Size, ArrayV
  <2> QED BY <1>5, <2>1, VolumeIs
<1> QED BY <1>1, <1>2, <1>3, <1>4, <1>5 DEF Sound, ArrayP, Array10

(* A place alone, i further on.                                             *)
LEMMA OneOn ==
    ASSUME NEW r, NEW a, NEW i, NEW S, S = {[role |-> r, at |-> a]}
    PROVE  {[role |-> p.role, at |-> p.at + i] : p \in S} = {[role |-> r, at |-> a + i]}
<1> DEFINE q == [role |-> r, at |-> a]
<1>1. q.role = r /\ q.at = a
  OBVIOUS
<1> HIDE DEF q
<1>2. S = {q} => {[role |-> p.role, at |-> p.at + i] : p \in S} = {[role |-> q.role, at |-> q.at + i]}
  OBVIOUS
<1> QED BY <1>1, <1>2 DEF q

(* Up to the end of the run the places are straight on (place, copies10,    *)
(* stripe).                                                                 *)
LEMMA PlacesStraight ==
    ASSUME NEW x, Sound(x), NEW y \in Nat, y < Size(x), NEW i \in 0..(Run(x, y) - 1)
    PROVE  Places(x, y + i) = {[role |-> p.role, at |-> p.at + i] : p \in Places(x, y)}
<1>1. CASE x.level = "1" /\ x.n \in Nat /\ x.dev \in Nat
  <2> DEFINE Here == {[role |-> r, at |-> y] : r \in RolesOf(x)}
             There == {[role |-> r, at |-> y + i] : r \in RolesOf(x)}
  <2>1. Places(x, y) = Here /\ Places(x, y + i) = There
    BY <1>1 DEF Places
  <2> DEFINE On == {[role |-> p.role, at |-> p.at + i] : p \in Here}
  <2>2. ASSUME NEW r \in RolesOf(x)
        PROVE  [role |-> r, at |-> y + i] \in On
    <3> DEFINE p == [role |-> r, at |-> y]
    <3>1. p \in Here /\ [role |-> r, at |-> y + i] = [role |-> p.role, at |-> p.at + i]
      OBVIOUS
    <3> QED BY <3>1
  <2>3. ASSUME NEW p \in Here
        PROVE  [role |-> p.role, at |-> p.at + i] \in There
    OBVIOUS
  <2>4. There = On
    BY <2>2, <2>3
  <2> QED BY <2>1, <2>4
<1>2. ASSUME x.level \in {"4", "5", "6", "10"}, x.chunk \in Nat \ {0}
      PROVE  /\ y + i \in Nat /\ i \in Nat
             /\ (y + i) \div x.chunk = y \div x.chunk /\ (y + i) % x.chunk = (y % x.chunk) + i
             /\ y % x.chunk \in 0..(x.chunk - 1)
  <2>1. Run(x, y) = x.chunk - (y % x.chunk) /\ y % x.chunk \in 0..(x.chunk - 1)
    BY <1>2, DivMod DEF Run
  <2>2. i \in 0..(x.chunk - (y % x.chunk) - 1)
    BY <2>1
  <2>3. (y + i) \div x.chunk = y \div x.chunk /\ (y + i) % x.chunk = (y % x.chunk) + i
    BY <1>2, <2>2, InOneChunk
  <2>4. i \in Nat
    BY <1>2, <2>1, <2>2
  <2> QED BY <2>1, <2>3, <2>4
<1>3. CASE x.level \in {"4", "5", "6"} /\ ArrayP(x)
  <2>1. x.chunk \in Nat \ {0}
    BY <1>3 DEF ArrayP
  <2> DEFINE c == y \div x.chunk
             s == c \div DataDisks(x)
  <2>2. Stripe(x, y).at = (y % x.chunk) + s * x.chunk /\ s \in Nat
        /\ Stripe(x, y + i).at = (y % x.chunk) + i + s * x.chunk
        /\ Stripe(x, y + i).role = Stripe(x, y).role
    <3>1. (y + i) \div x.chunk = c
      BY <1>2, <1>3, <2>1
    <3>2. Stripe(x, y + i).at = ((y + i) % x.chunk) + (((y + i) \div x.chunk) \div DataDisks(x)) * x.chunk
      BY <1>2, <1>3, <2>1, StripeOf
    <3>3. Stripe(x, y + i).role = Stripe(x, y).role
      BY <1>2, <1>3, <2>1 DEF Stripe
    <3> HIDE DEF c
    <3> QED BY <1>2, <1>3, <2>1, <3>1, <3>2, <3>3, StripeOf DEF c
  <2>3. s * x.chunk \in Nat
    BY <2>1, <2>2, ProductNat
  <2>4. Stripe(x, y + i).at = Stripe(x, y).at + i
    <3> HIDE DEF s
    <3> QED BY <1>2, <1>3, <2>1, <2>2, <2>3
  <2>5. /\ Places(x, y) = {[role |-> Stripe(x, y).role, at |-> Stripe(x, y).at]}
        /\ Places(x, y + i) = {[role |-> Stripe(x, y + i).role, at |-> Stripe(x, y + i).at]}
    BY <1>3 DEF Places
  <2> QED BY <2>2, <2>4, <2>5
<1>4. CASE x.level = "10" /\ Array10(x)
  <2>1. x.chunk \in Nat \ {0}
    BY <1>4 DEF Array10
  <2> DEFINE l(j) == (y \div x.chunk) * x.layout.near + j
             w == y % x.chunk
             Near == 0..(x.layout.near - 1)
             Far == 0..(x.layout.far - 1)
             here(j, f) == CopyAt(x, l(j), f, w)
             there(j, f) == CopyAt(x, l(j), f, w + i)
  <2>2. ASSUME NEW j \in Near, NEW f \in Far
        PROVE  there(j, f) = [role |-> here(j, f).role, at |-> here(j, f).at + i]
    <3> DEFINE m == l(j)
    <3>1. m \in Nat /\ m \div x.n \in 0..(Rows(x) - 1)
      BY <1>4, NearPosition
    <3> HIDE DEF m
    <3>2. RowOf(x, m, f) \in Nat
      BY <1>4, <3>1, RowsApart
    <3>3. RowOf(x, m, f) * x.chunk \in Nat /\ w \in Nat /\ i \in Nat
      BY <1>2, <1>4, <2>1, <3>2, ProductNat
    <3>4. (w + i) + RowOf(x, m, f) * x.chunk = (w + RowOf(x, m, f) * x.chunk) + i
      <4> HIDE DEF w
      <4> QED BY <3>3
    <3>5. here(j, f) = CopyAt(x, m, f, w) /\ there(j, f) = CopyAt(x, m, f, w + i)
      BY DEF m
    <3> HIDE DEF here, there, w
    <3> QED BY <3>4, <3>5 DEF CopyAt
  <2> DEFINE Here == {here(j, f) : j \in Near, f \in Far}
             There == {there(j, f) : j \in Near, f \in Far}
  <2>3. Places(x, y) = Here
    BY <1>4, CopiesAre DEF Places
  <2>4. Places(x, y + i) = There
    <3>1. Copies10(x, y + i) =
             {CopyAt(x, ((y + i) \div x.chunk) * x.layout.near + j, f, (y + i) % x.chunk) :
                 j \in 0..(x.layout.near - 1), f \in 0..(x.layout.far - 1)}
      BY <1>2, <1>4, <2>1, CopiesAre
    <3> QED BY <1>2, <1>4, <2>1, <3>1 DEF Places
  <2>5. There = {[role |-> p.role, at |-> p.at + i] : p \in Here}
    <3> HIDE DEF here, there, Near, Far
    <3> QED BY <2>2
  <2> QED BY <2>3, <2>4, <2>5
<1>5. CASE ArrayL(x)
  <2>1. \A z : Places(x, z) = {[role |-> LinearPlace(x, z).role, at |-> LinearPlace(x, z).at]}
    BY <1>5 DEF Places, ArrayL
  <2>2. i \in 0..(LinearPlace(x, y).run - 1)
    BY <1>5 DEF Run, ArrayL
  <2>3. /\ LinearPlace(x, y + i).role = LinearPlace(x, y).role
        /\ LinearPlace(x, y + i).at = LinearPlace(x, y).at + i
    BY <1>5, <2>2, LinearStraight
  <2> DEFINE r == LinearPlace(x, y).role
             a == LinearPlace(x, y).at
             S == Places(x, y)
  <2>4. Places(x, y + i) = {[role |-> r, at |-> a + i]} /\ S = {[role |-> r, at |-> a]}
    BY <2>1, <2>3
  <2> HIDE DEF r, a, S
  <2>5. {[role |-> p.role, at |-> p.at + i] : p \in S} = {[role |-> r, at |-> a + i]}
    BY <2>4, OneOn
  <2> QED BY <2>4, <2>5 DEF S
<1>6. CASE Array0(x)
  <2>1. \A z : Places(x, z) = {[role |-> Raid0Place(x, z).role, at |-> Raid0Place(x, z).at]}
    BY <1>6 DEF Places, Array0
  <2>2. i \in 0..(Raid0Place(x, y).run - 1)
    BY <1>6 DEF Run, Array0
  <2>3. /\ Raid0Place(x, y + i).role = Raid0Place(x, y).role
        /\ Raid0Place(x, y + i).at = Raid0Place(x, y).at + i
    BY <1>6, <2>2, Straight0
  <2> DEFINE r == Raid0Place(x, y).role
             a == Raid0Place(x, y).at
             S == Places(x, y)
  <2>4. Places(x, y + i) = {[role |-> r, at |-> a + i]} /\ S = {[role |-> r, at |-> a]}
    BY <2>1, <2>3
  <2> HIDE DEF r, a, S
  <2>5. {[role |-> p.role, at |-> p.at + i] : p \in S} = {[role |-> r, at |-> a + i]}
    BY <2>4, OneOn
  <2> QED BY <2>4, <2>5 DEF S
<1>7. CASE ArrayV(x)
  <2>1. \A z : Places(x, z) = {[role |-> 0, at |-> LvmPlace(Volume(x), z).at]}
    BY <1>7 DEF Places, ArrayV
  <2>2. Run(x, y) = LvmPlace(Volume(x), y).run /\ Size(x) = LvmSize(Volume(x))
    BY <1>7 DEF Run, Size, ArrayV
  <2>3. LvmPlace(Volume(x), y + i).at = LvmPlace(Volume(x), y).at + i
    BY <1>7, <2>2, VolumeIs
  <2> DEFINE a == LvmPlace(Volume(x), y).at
             S == Places(x, y)
  <2>4. Places(x, y + i) = {[role |-> 0, at |-> a + i]} /\ S = {[role |-> 0, at |-> a]}
    BY <2>1, <2>3
  <2> HIDE DEF a, S
  <2>5. {[role |-> p.role, at |-> p.at + i] : p \in S} = {[role |-> 0, at |-> a + i]}
    BY <2>4, OneOn
  <2> QED BY <2>4, <2>5 DEF S
<1> QED BY <1>1, <1>3, <1>4, <1>5, <1>6, <1>7 DEF Sound

-----------------------------------------------------------------------------
(* The array, piece by piece.                                               *)

(* Where byte y of the array is on the members, and the bytes of a range.   *)
Bytes(x, y) == {<<p.role, p.at>> : p \in Places(x, y)}
Between(x, from, to) == UNION {Bytes(x, y) : y \in from..(to - 1)}

(* A piece is where its bytes are, each on its own (_read).                 *)
LEMMA PieceIs ==
    ASSUME NEW x, Sound(x), NEW y \in Nat, y < Size(x), NEW t \in Nat, t <= Run(x, y)
    PROVE  {<<p.role, p.at + i>> : p \in Places(x, y), i \in 0..(t - 1)} = Between(x, y, y + t)
<1> DEFINE Piece == {<<p.role, p.at + i>> : p \in Places(x, y), i \in 0..(t - 1)}
<1>1. ASSUME NEW i \in 0..(t - 1)
      PROVE  Bytes(x, y + i) = {<<p.role, p.at + i>> : p \in Places(x, y)}
  <2>1. i \in 0..(Run(x, y) - 1)
    BY RunNat
  <2>2. Places(x, y + i) = {[role |-> p.role, at |-> p.at + i] : p \in Places(x, y)}
    BY <2>1, PlacesStraight
  <2>3. ASSUME NEW p \in Places(x, y)
        PROVE  <<p.role, p.at + i>> \in Bytes(x, y + i)
    <3> DEFINE q == [role |-> p.role, at |-> p.at + i]
    <3>1. q \in Places(x, y + i) /\ <<p.role, p.at + i>> = <<q.role, q.at>>
      BY <2>2
    <3> QED BY <3>1 DEF Bytes
  <2>4. ASSUME NEW b \in Bytes(x, y + i)
        PROVE  b \in {<<p.role, p.at + i>> : p \in Places(x, y)}
    <3>1. PICK q \in Places(x, y + i) : b = <<q.role, q.at>>
      BY DEF Bytes
    <3>2. PICK p \in Places(x, y) : q = [role |-> p.role, at |-> p.at + i]
      BY <2>2
    <3> QED BY <3>1, <3>2
  <2> QED BY <2>3, <2>4
<1>2. ASSUME NEW q \in Piece PROVE q \in Between(x, y, y + t)
  <2>1. PICK p \in Places(x, y), i \in 0..(t - 1) : q = <<p.role, p.at + i>>
    OBVIOUS
  <2>2. q \in Bytes(x, y + i)
    BY <1>1, <2>1
  <2>3. y + i \in y..(y + t - 1)
    OBVIOUS
  <2> QED BY <2>2, <2>3 DEF Between
<1>3. ASSUME NEW q \in Between(x, y, y + t) PROVE q \in Piece
  <2>1. PICK z \in y..(y + t - 1) : q \in Bytes(x, z)
    BY DEF Between
  <2> DEFINE i == z - y
  <2>2. i \in 0..(t - 1) /\ z = y + i
    OBVIOUS
  <2> HIDE DEF i
  <2>3. q \in {<<p.role, p.at + i>> : p \in Places(x, y)}
    BY <1>1, <2>1, <2>2
  <2> QED BY <2>2, <2>3
<1> QED BY <1>2, <1>3

(* What has been read: the last piece in one run, the others before it, and *)
(* the parities of the same bytes.                                          *)
HasRead ==
    \/ off = 0 /\ piece = {} /\ seen = {}
    \/ \E from \in 0..(off - 1) :
          /\ off - from <= Run(g, from)
          /\ piece = Between(g, from, off)
          /\ seen = Between(g, 0, from)

HasParities ==
    g.level \in {"4", "5", "6"} =>
        parities = {<<Stripe(g, y).at, Stripe(g, y).pd, Stripe(g, y).qd>> : y \in 0..(off - 1)}

IInv ==
    /\ g \in Geometries /\ Accepted(g)
    /\ off \in Nat /\ off <= Size(g) /\ HasRead /\ HasParities

(* The bytes of two ranges are those of the whole.                          *)
LEMMA BetweenJoin ==
    ASSUME NEW x, NEW a \in Nat, NEW c \in Nat, a <= c
    PROVE  Between(x, 0, a) \cup Between(x, a, c) = Between(x, 0, c)
<1>1. 0..(c - 1) = (0..(a - 1)) \cup (a..(c - 1))
  OBVIOUS
<1> QED BY <1>1 DEF Between

(* What has been read is the places of the bytes up to off.                 *)
LEMMA AllRead ==
    ASSUME HasRead, off \in Nat
    PROVE  All = Between(g, 0, off)
<1>1. CASE off = 0 /\ piece = {} /\ seen = {}
  BY <1>1 DEF All, Between
<1>2. CASE \E from \in 0..(off - 1) :
             piece = Between(g, from, off) /\ seen = Between(g, 0, from)
  <2>1. PICK from \in 0..(off - 1) : piece = Between(g, from, off) /\ seen = Between(g, 0, from)
    BY <1>2
  <2> QED BY <2>1, BetweenJoin DEF All
<1> QED BY <1>1, <1>2 DEF HasRead

(* Nothing has been read before the first piece.                            *)
LEMMA InitRead == Init => IInv
<1> SUFFICES ASSUME Init PROVE IInv
  OBVIOUS
<1>1. g \in Geometries /\ Accepted(g) /\ off = 0 /\ HasRead
  BY DEF Init, HasRead
<1>2. HasParities
  BY <1>1 DEF Init, HasParities
<1>3. off <= Size(g)
  BY <1>1, SoundOf, SizeNat
<1> QED BY <1>1, <1>2, <1>3 DEF IInv

(* A piece is the next of the array, and no longer than its run (_read).    *)
LEMMA TakeReads ==
    ASSUME IInv, off < Size(g), NEW take, take = Min({Run(g, off), Size(g) - off}),
           Take(take)
    PROVE  /\ g' = g /\ off' \in Nat /\ off' <= Size(g) /\ off' = off + take /\ take \in Nat \ {0}
           /\ HasRead'
<1>1. Sound(g) /\ Size(g) \in Nat /\ off \in Nat
  BY SoundOf, SizeNat DEF IInv
<1>2. Run(g, off) \in Nat \ {0}
  BY <1>1, RunNat
<1>3. take \in Nat \ {0} /\ take <= Run(g, off) /\ take <= Size(g) - off
  BY <1>1, <1>2, MinTwo
<1>4. g' = g /\ off' = off + take /\ seen' = All
      /\ piece' = {<<p.role, p.at + i>> : p \in Places(g, off), i \in 0..(take - 1)}
  BY DEF Take, All
<1>5. piece' = Between(g, off, off + take)
  BY <1>1, <1>3, <1>4, PieceIs
<1>6. seen' = Between(g, 0, off)
  BY <1>1, <1>4, AllRead DEF IInv
<1>7. HasRead'
  <2>1. off \in 0..(off' - 1) /\ off' - off <= Run(g', off)
    BY <1>1, <1>3, <1>4
  <2> QED BY <1>4, <1>5, <1>6, <2>1 DEF HasRead
<1> QED BY <1>1, <1>3, <1>4, <1>7

(* The parities noted are those of the bytes read (_read, stripe).          *)
LEMMA ParitiesNoted ==
    ASSUME HasParities, off \in Nat, g.level \in {"4", "5", "6"}, g' = g,
           NEW take \in Nat \ {0}, off' = off + take, take <= Stripe(g, off).run, Sound(g),
           parities' = parities \cup {<<Stripe(g, off).at + i, Stripe(g, off).pd, Stripe(g, off).qd>> :
                                         i \in 0..(take - 1)}
    PROVE  HasParities'
<1> DEFINE noted(y) == <<Stripe(g, y).at, Stripe(g, y).pd, Stripe(g, y).qd>>
           here == Stripe(g, off)
           c == off \div g.chunk
           New == {<<here.at + i, here.pd, here.qd>> : i \in 0..(take - 1)}
<1>1. ArrayP(g) /\ g.chunk \in Nat \ {0} /\ here.run = g.chunk - (off % g.chunk)
      /\ off % g.chunk \in 0..(g.chunk - 1)
  <2>1. ArrayP(g)
    BY SoundIs
  <2>2. here.run = g.chunk - (off % g.chunk)
    BY DEF Stripe
  <2>3. g.chunk \in Nat \ {0}
    BY <2>1 DEF ArrayP
  <2> QED BY <2>1, <2>2, <2>3, DivMod
<1>2. ASSUME NEW i \in 0..(take - 1)
      PROVE  noted(off + i) = <<here.at + i, here.pd, here.qd>>
  <2>1. i \in 0..(g.chunk - (off % g.chunk) - 1) /\ i \in Nat /\ off + i \in Nat
    BY <1>1
  <2>2. (off + i) \div g.chunk = c /\ (off + i) % g.chunk = (off % g.chunk) + i
    BY <1>1, <2>1, InOneChunk
  <2>3. Stripe(g, off + i).pd = here.pd /\ Stripe(g, off + i).qd = here.qd
    BY <2>2 DEF Stripe
  <2>4. Stripe(g, off + i).at = ((off % g.chunk) + i) + (c \div DataDisks(g)) * g.chunk
    BY <1>1, <2>1, <2>2, StripeOf
  <2>5. here.at = (off % g.chunk) + (c \div DataDisks(g)) * g.chunk /\ c \div DataDisks(g) \in Nat
    BY <1>1, StripeOf
  <2> DEFINE a == (c \div DataDisks(g)) * g.chunk
             w == off % g.chunk
  <2>6. a \in Nat /\ w \in Nat
    BY <1>1, <2>5, ProductNat
  <2>7. Stripe(g, off + i).at = (w + i) + a /\ here.at = w + a
    BY <2>4, <2>5
  <2> HIDE DEF a, w, here
  <2>8. Stripe(g, off + i).at = here.at + i
    BY <2>1, <2>6, <2>7
  <2> QED BY <2>3, <2>8
<1> DEFINE Old == {noted(y) : y \in 0..(off - 1)}
           Now == {noted(y) : y \in 0..(off + take - 1)}
<1>3. parities = Old /\ parities' = Old \cup New
  BY DEF HasParities
<1> HIDE DEF noted, here
<1>4. Now = Old \cup New
  <2>1. ASSUME NEW y \in 0..(off + take - 1), ~(y \in 0..(off - 1))
        PROVE  noted(y) \in New
    <3> DEFINE i == y - off
    <3>1. i \in 0..(take - 1) /\ y = off + i
      BY <2>1
    <3> HIDE DEF i
    <3> QED BY <1>2, <3>1
  <2>2. ASSUME NEW i \in 0..(take - 1)
        PROVE  <<here.at + i, here.pd, here.qd>> \in Now
    <3>1. off + i \in 0..(off + take - 1)
      OBVIOUS
    <3> QED BY <1>2, <3>1
  <2>3. Old \subseteq Now
    <3>1. 0..(off - 1) \subseteq 0..(off + take - 1)
      OBVIOUS
    <3> QED BY <3>1
  <2> QED BY <2>1, <2>2, <2>3
<1>5. parities' = Now
  BY <1>3, <1>4
<1> QED BY <1>5 DEF HasParities, noted

(* Every step leaves what has been read as IInv says.                       *)
LEMMA StepReads == IInv /\ [Next]_vars => IInv'
<1> SUFFICES ASSUME IInv, [Next]_vars PROVE IInv'
  OBVIOUS
<1>1. CASE ReadPlace
  <2>1. g' = g /\ off < Size(g) /\ parities' = parities
        /\ Take(Min({Run(g, off), Size(g) - off}))
    BY <1>1 DEF ReadPlace, Take
  <2>2. off' \in Nat /\ off' <= Size(g) /\ HasRead'
    BY <2>1, TakeReads
  <2>3. g.level \notin {"4", "5", "6"}
    BY <1>1 DEF ReadPlace
  <2> QED BY <2>1, <2>2, <2>3 DEF IInv, HasParities
<1>2. CASE ReadStripe
  <2> DEFINE here == Stripe(g, off)
             take == Min({here.run, Size(g) - off})
  <2>1. /\ g' = g /\ off < Size(g) /\ Take(take) /\ g.level \in {"4", "5", "6"}
        /\ parities' = parities \cup {<<here.at + i, here.pd, here.qd>> : i \in 0..(take - 1)}
    BY <1>2 DEF ReadStripe, Take
  <2>2. Run(g, off) = here.run
    BY <2>1 DEF Run, Stripe
  <2>3. off' \in Nat /\ off' <= Size(g) /\ off' = off + take /\ take \in Nat \ {0} /\ HasRead'
    <3> HIDE DEF here
    <3> QED BY <2>1, <2>2, TakeReads
  <2>4. Sound(g) /\ off \in Nat /\ HasParities /\ Size(g) \in Nat
    BY <2>1, SoundOf, SizeNat DEF IInv
  <2>5. take <= here.run
    BY <2>1, <2>2, <2>4, RunNat, MinTwo
  <2>6. HasParities'
    <3> HIDE DEF take
    <3> QED BY <2>1, <2>3, <2>4, <2>5, ParitiesNoted
  <2> QED BY <2>1, <2>3, <2>6 DEF IInv
<1>3. CASE ReadRun
  <2>1. g' = g /\ off < Size(g) /\ g.level = "lvm" /\ Take(Min({Run(g, off), Size(g) - off}))
    BY <1>3 DEF ReadRun, Take
  <2>2. off' \in Nat /\ off' <= Size(g) /\ HasRead'
    BY <2>1, TakeReads
  <2> QED BY <2>1, <2>2 DEF IInv, HasParities
<1>4. CASE UNCHANGED vars
  BY <1>4 DEF IInv, vars, HasRead, HasParities
<1> QED BY <1>1, <1>2, <1>3, <1>4 DEF Next

(* So it is in every state.                                                 *)
LEMMA AlwaysRead == Spec => []IInv
  BY InitRead, StepReads, PTL DEF Spec

(* No byte of a member, or sector of the image, is read for two bytes of an *)
(* array or volume of any level, whatever its members, chunk and layout     *)
(* (place, copies10, stripe, locate).                                       *)
THEOREM AlwaysNoByteTwice == Spec => []NoByteTwice
<1>1. IInv => NoByteTwice
  <2> SUFFICES ASSUME IInv, NEW b, b \in piece, b \in seen
               PROVE  FALSE
    BY DEF NoByteTwice
  <2>1. Sound(g) /\ off \in Nat /\ off <= Size(g) /\ Size(g) \in Nat
    BY SoundOf, SizeNat DEF IInv
  <2>2. PICK from \in 0..(off - 1) : b \in Between(g, from, off) /\ b \in Between(g, 0, from)
    BY DEF IInv, HasRead
  <2>3. PICK y \in from..(off - 1) : b \in Bytes(g, y)
    BY <2>2 DEF Between
  <2>4. PICK z \in 0..(from - 1) : b \in Bytes(g, z)
    BY <2>2 DEF Between
  <2>5. PICK p \in Places(g, y) : b = <<p.role, p.at>>
    BY <2>3 DEF Bytes
  <2>6. PICK q \in Places(g, z) : b = <<q.role, q.at>>
    BY <2>4 DEF Bytes
  <2>7. y \in Nat /\ z \in Nat /\ y < Size(g) /\ z < Size(g) /\ y # z
    BY <2>1
  <2> QED BY <2>1, <2>5, <2>6, <2>7, PlacesApart
<1> QED BY <1>1, AlwaysRead, PTL

(* A piece of theirs lies straight on, inside what a member gives the array *)
(* (_read).                                                                 *)
THEOREM AlwaysStraight == Spec => []PiecesAreStraight
<1>1. IInv => PiecesAreStraight
  <2> SUFFICES ASSUME IInv PROVE PiecesAreStraight
    OBVIOUS
  <2>1. Sound(g) /\ off \in Nat /\ off <= Size(g) /\ Size(g) \in Nat
    BY SoundOf, SizeNat DEF IInv
  <2>2. ASSUME NEW b \in piece PROVE b[2] < Given(b[1])
    <3>1. PICK from \in 0..(off - 1) : b \in Between(g, from, off)
      BY DEF IInv, HasRead
    <3>2. PICK y \in from..(off - 1) : b \in Bytes(g, y)
      BY <3>1 DEF Between
    <3>3. PICK p \in Places(g, y) : b = <<p.role, p.at>>
      BY <3>2 DEF Bytes
    <3>4. y \in Nat /\ y < Size(g)
      BY <2>1
    <3>5. p.at < Gives(g, p.role)
      BY <2>1, <3>4, PlacesInside
    <3>6. Given(b[1]) = Gives(g, p.role) /\ b[2] = p.at
      BY <3>3 DEF Given, Gives
    <3> QED BY <3>5, <3>6
  <2>3. ASSUME off < Size(g), NEW i \in 0..(Min({Run(g, off), Size(g) - off}) - 1)
        PROVE  Places(g, off + i) = {[role |-> p.role, at |-> p.at + i] : p \in Places(g, off)}
    <3>1. Run(g, off) \in Nat
      BY <2>1, <2>3, RunNat
    <3>2. i \in 0..(Run(g, off) - 1)
      BY <2>1, <2>3, <3>1, MinTwo
    <3> QED BY <2>1, <2>3, <3>2, PlacesStraight
  <2> QED BY <2>2, <2>3 DEF PiecesAreStraight
<1> QED BY <1>1, AlwaysRead, PTL

(* Every sector of an LVM volume is read from where the device mapper has   *)
(* it, the last of a piece as the first: whatever the segments, stripes and *)
(* areas, however the segments are merged into runs, which a piece takes    *)
(* whole, and a copy of a mirror is cut to its size (_lvm_layout,           *)
(* _lvm_copy).                                                              *)
THEOREM AlwaysReadWhereMapped == Spec => []ReadWhereMapped
<1>1. IInv => ReadWhereMapped
  <2> DEFINE here == LvmPlace(Volume(g), off)
             segs == g.layout.lvs[Copied(g.layout, g.layout.volume)]
             take == Min({here.run, Size(g) - off})
  <2> SUFFICES ASSUME IInv, g.level = "lvm", off < Size(g), NEW i \in 0..(take - 1)
               PROVE  here.at + i = Mapped(g.layout, segs, off + i)
    BY DEF ReadWhereMapped
  <2>1. ArrayV(g) /\ off \in Nat /\ Size(g) = LvmSize(Volume(g)) /\ Size(g) \in Nat
    BY SoundOf, SoundIs, SizeNat DEF IInv, Size
  <2>2. here.run \in Nat \ {0}
    BY <2>1, VolumeIs
  <2>3. i \in 0..(here.run - 1) /\ off + i \in Nat /\ off + i < Size(g)
    <3> HIDE DEF here
    <3>1. take \in Nat \ {0} /\ take <= here.run /\ take <= Size(g) - off
      BY <2>1, <2>2, MinTwo
    <3> HIDE DEF take
    <3> QED BY <2>1, <2>2, <3>1
  <2>4. LvmPlace(Volume(g), off + i).at = here.at + i
    BY <2>1, <2>3, VolumeIs
  <2>5. LvmPlace(Volume(g), off + i).at = Mapped(g.layout, segs, off + i)
    BY <2>1, <2>3, VolumeIs
  <2> QED BY <2>4, <2>5
<1> QED BY <1>1, AlwaysRead, PTL

-----------------------------------------------------------------------------
(* The members of a stripe of RAID6 in the order _raid6_slots() counts them.*)

First(x, pd, qd) == IF Ddf(x) \/ qd = x.n - 1 THEN 0 ELSE qd + 1
Member(x, pd, qd, i) == (First(x, pd, qd) + i) % x.n
IsData(x, pd, qd, i) == Member(x, pd, qd, i) \notin {pd, qd}
SlotAt(x, pd, qd, i) ==
    IF Ddf(x) THEN i ELSE Cardinality({j \in 0..(i - 1) : IsData(x, pd, qd, j)})

(* Which Slots6 is made of.                                                 *)
LEMMA SlotsAre ==
    ASSUME NEW x, NEW pd, NEW qd
    PROVE  Slots6(x, pd, qd) = {<<Member(x, pd, qd, i), SlotAt(x, pd, qd, i)>> :
                                  i \in {j \in 0..(x.n - 1) : IsData(x, pd, qd, j)}}
  BY DEF Slots6, First, Member, IsData, SlotAt

(* The sum of two members, round the array.                                 *)
LEMMA SumRound ==
    ASSUME NEW m \in Nat \ {0}, NEW a \in 0..(m - 1), NEW c \in 0..(m - 1)
    PROVE  (a + c) % m = IF a + c < m THEN a + c ELSE a + c - m
<1> DEFINE t == a + c
<1>1. t \in 0..(2 * m - 1)
  OBVIOUS
<1> HIDE DEF t
<1>2. t % m = IF t < m THEN t ELSE t - m
  BY <1>1, ModRound
<1> QED BY <1>2 DEF t

(* They are each member once, round the array from the first.               *)
LEMMA MemberIs ==
    ASSUME NEW x, x.n \in Nat \ {0}, NEW pd, NEW qd \in 0..(x.n - 1)
    PROVE  /\ First(x, pd, qd) \in 0..(x.n - 1)
           /\ \A i \in 0..(x.n - 1) :
                 Member(x, pd, qd, i) = IF First(x, pd, qd) + i < x.n THEN First(x, pd, qd) + i
                                        ELSE First(x, pd, qd) + i - x.n
<1>1. First(x, pd, qd) \in 0..(x.n - 1)
  BY DEF First
<1>2. ASSUME NEW i \in 0..(x.n - 1)
      PROVE  Member(x, pd, qd, i) = IF First(x, pd, qd) + i < x.n THEN First(x, pd, qd) + i
                                    ELSE First(x, pd, qd) + i - x.n
  <2> DEFINE d == First(x, pd, qd)
  <2>1. d \in 0..(x.n - 1) /\ Member(x, pd, qd, i) = (d + i) % x.n
    BY <1>1 DEF Member
  <2> HIDE DEF d
  <2>2. (d + i) % x.n = IF d + i < x.n THEN d + i ELSE d + i - x.n
    BY <2>1, SumRound
  <2>3. Member(x, pd, qd, i) = IF d + i < x.n THEN d + i ELSE d + i - x.n
    BY <2>1, <2>2
  <2> QED BY <2>3 DEF d
<1> QED BY <1>1, <1>2

(* Each is the member of one place, and every member has one.               *)
LEMMA MemberApart ==
    ASSUME NEW x, x.n \in Nat \ {0}, NEW pd, NEW qd \in 0..(x.n - 1)
    PROVE  /\ \A i \in 0..(x.n - 1) : Member(x, pd, qd, i) \in 0..(x.n - 1)
           /\ \A i, j \in 0..(x.n - 1) : Member(x, pd, qd, i) = Member(x, pd, qd, j) => i = j
           /\ \A r \in 0..(x.n - 1) : \E i \in 0..(x.n - 1) : Member(x, pd, qd, i) = r
<1> DEFINE d == First(x, pd, qd)
           mem(i) == Member(x, pd, qd, i)
<1>1. d \in 0..(x.n - 1) /\ \A i \in 0..(x.n - 1) : mem(i) = IF d + i < x.n THEN d + i ELSE d + i - x.n
  BY MemberIs
<1> HIDE DEF d, mem
<1>2. \A r \in 0..(x.n - 1) : \E i \in 0..(x.n - 1) : mem(i) = r
  <2> TAKE r \in 0..(x.n - 1)
  <2> DEFINE i == IF r >= d THEN r - d ELSE r - d + x.n
  <2>1. i \in 0..(x.n - 1) /\ mem(i) = r
    BY <1>1
  <2> QED BY <2>1
<1>3. (\A i \in 0..(x.n - 1) : mem(i) \in 0..(x.n - 1))
      /\ \A i, j \in 0..(x.n - 1) : mem(i) = mem(j) => i = j
  BY <1>1
<1> QED BY <1>2, <1>3 DEF mem

(* The data members before a place are fewer than those before a later one, *)
(* and than the data chunks of a stripe.                                    *)
LEMMA CountApart ==
    ASSUME NEW n \in Nat, NEW D, D \subseteq 0..(n - 1), NEW i \in D, NEW j \in D, i < j
    PROVE  /\ Cardinality({t \in 0..(i - 1) : t \in D}) \in Nat
           /\ Cardinality({t \in 0..(i - 1) : t \in D}) < Cardinality({t \in 0..(j - 1) : t \in D})
<1> DEFINE A == {t \in 0..(i - 1) : t \in D}
           B == {t \in 0..(j - 1) : t \in D}
<1>1. IsFiniteSet(B)
  <2>1. j - 1 \in Int
    OBVIOUS
  <2>2. IsFiniteSet(0..(j - 1))
    BY <2>1, FS_Interval
  <2>3. B \in SUBSET (0..(j - 1))
    OBVIOUS
  <2> QED BY <2>2, <2>3, FS_Subset
<1>2. A \in SUBSET B /\ i \in B /\ i \notin A
  OBVIOUS
<1>3. Cardinality(A) <= Cardinality(B) /\ A # B /\ Cardinality(A) # Cardinality(B)
  BY <1>1, <1>2, FS_Subset
<1>4. Cardinality(A) \in Nat /\ Cardinality(B) \in Nat
  BY <1>1, <1>2, FS_Subset, FS_CardinalityType
<1> QED BY <1>3, <1>4

(* There are at most n - 3 data members before a data member, two being     *)
(* parity.                                                                  *)
LEMMA CountBelow ==
    ASSUME NEW n \in Nat, n > 2, NEW D, NEW a \in 0..(n - 1), NEW c \in 0..(n - 1), a # c,
           D \subseteq (0..(n - 1)) \ {a, c}, NEW i \in D
    PROVE  Cardinality({t \in 0..(i - 1) : t \in D}) \in 0..(n - 3)
<1> DEFINE A == {t \in 0..(i - 1) : t \in D}
           R == 0..(n - 1)
           R1 == R \ {a}
           R2 == R1 \ {c}
           R3 == R2 \ {i}
<1>1. IsFiniteSet(R) /\ Cardinality(R) = n
  <2>1. n - 1 \in Int
    OBVIOUS
  <2> QED BY <2>1, FS_Interval
<1>2. a \in R /\ c \in R1 /\ i \in R2 /\ A \in SUBSET R3
  OBVIOUS
<1> HIDE DEF R, A
<1>3. IsFiniteSet(R1) /\ Cardinality(R1) = Cardinality(R) - 1
  BY <1>1, <1>2, FS_RemoveElement
<1> HIDE DEF R1
<1>4. IsFiniteSet(R2) /\ Cardinality(R2) = Cardinality(R1) - 1
  BY <1>2, <1>3, FS_RemoveElement
<1> HIDE DEF R2
<1>5. IsFiniteSet(R3) /\ Cardinality(R3) = Cardinality(R2) - 1
  BY <1>2, <1>4, FS_RemoveElement
<1> HIDE DEF R3
<1>6. IsFiniteSet(A) /\ Cardinality(A) <= Cardinality(R3)
  BY <1>2, <1>5, FS_Subset
<1>7. Cardinality(A) \in Nat
  BY <1>6, FS_CardinalityType
<1>8. Cardinality(A) \in 0..(n - 3)
  BY <1>1, <1>3, <1>4, <1>5, <1>6, <1>7
<1> QED BY <1>8 DEF A

(* In Q every data member has a coefficient of its own, of those there are, *)
(* and where the data follow Q chunk k has the kth (_raid6_slots).          *)
LEMMA SlotsApart ==
    ASSUME Array6(g), NEW s \in Nat, NEW a, a \div g.chunk = s
    PROVE  SlotsAreApart(<<a, P6(g, s), Q6(g, s)>>)
<1> DEFINE n == g.n
           pd == P6(g, s)
           qd == Q6(g, s)
           p == <<a, pd, qd>>
           R == 0..(n - 1)
           mem(i) == Member(g, pd, qd, i)
           slot(i) == SlotAt(g, pd, qd, i)
           D == {j \in R : IsData(g, pd, qd, j)}
           slots == {<<mem(i), slot(i)>> : i \in D}
<1>1. /\ n \in Nat /\ n > 2 /\ DataDisks(g) = n - 2 /\ Shape6(g, s)
      /\ g.layout \in (0..5) \cup (8..10) \cup (16..20)
  BY ShapeOf6 DEF Array6, Shape6
<1>2. pd \in R /\ qd \in R /\ pd # qd
  <2>1. 0 \in 0..(DataDisks(g) - 1)
    BY <1>1
  <2> QED BY <2>1, StripeApart6
<1>3. /\ \A i \in R : mem(i) \in R
      /\ \A i, j \in R : mem(i) = mem(j) => i = j
      /\ \A r \in R : \E i \in R : mem(i) = r
  <2>1. g.n \in Nat \ {0}
    BY <1>1
  <2> QED BY <1>2, <2>1, MemberApart
<1>4. Slots6(g, pd, qd) = slots
  BY SlotsAre
<1>5. D = {j \in R : mem(j) \notin {pd, qd}}
  BY DEF IsData
<1>6. \A i \in D : slot(i) = IF Ddf(g) THEN i ELSE Cardinality({j \in 0..(i - 1) : j \in D})
  <2> TAKE i \in D
  <2>1. {j \in 0..(i - 1) : IsData(g, pd, qd, j)} = {j \in 0..(i - 1) : j \in D}
    <3>1. 0..(i - 1) \subseteq R
      BY <1>1
    <3> QED BY <3>1
  <2> QED BY <2>1 DEF SlotAt
<1> HIDE DEF mem, slot, D
<1>7. {t[1] : t \in slots} = RolesOf(g) \ {pd, qd}
  <2>1. \A r \in R \ {pd, qd} : \E i \in D : mem(i) = r
    BY <1>3, <1>5
  <2>2. \A i \in D : mem(i) \in R \ {pd, qd}
    BY <1>3, <1>5
  <2>3. ASSUME NEW r \in R \ {pd, qd} PROVE r \in {t[1] : t \in slots}
    <3>1. PICK i \in D : mem(i) = r
      BY <2>1
    <3>2. <<mem(i), slot(i)>> \in slots /\ <<mem(i), slot(i)>>[1] = r
      BY <3>1
    <3> QED BY <3>2
  <2>4. ASSUME NEW t \in slots PROVE t[1] \in R \ {pd, qd}
    BY <2>2
  <2> QED BY <2>3, <2>4 DEF RolesOf
<1>8. ASSUME NEW i \in D, NEW j \in D, slot(i) = slot(j)
      PROVE  i = j
  <2>1. CASE Ddf(g)
    BY <1>6, <1>8, <2>1
  <2>2. CASE ~Ddf(g)
    <3>1. slot(i) = Cardinality({t \in 0..(i - 1) : t \in D})
          /\ slot(j) = Cardinality({t \in 0..(j - 1) : t \in D})
      BY <1>6, <2>2
    <3>2. i \in R /\ j \in R /\ D \subseteq 0..(n - 1) /\ i \in Int /\ j \in Int
      BY <1>5
    <3>3. ASSUME i < j PROVE slot(i) \in Nat /\ slot(i) < slot(j)
      BY <1>1, <3>1, <3>2, <3>3, CountApart
    <3>4. ASSUME j < i PROVE slot(j) \in Nat /\ slot(j) < slot(i)
      BY <1>1, <3>1, <3>2, <3>4, CountApart
    <3> QED BY <1>8, <3>2, <3>3, <3>4
  <2> QED BY <2>1, <2>2
<1>9. ASSUME ~Ddf(g), NEW i \in D
      PROVE  slot(i) \in 0..(n - 3)
  <2>1. PICK u \in R : mem(u) = pd
    BY <1>2, <1>3
  <2>2. PICK v \in R : mem(v) = qd
    BY <1>2, <1>3
  <2>3. u # v /\ D \subseteq (0..(n - 1)) \ {u, v}
    BY <1>2, <1>5, <2>1, <2>2
  <2>4. Cardinality({t \in 0..(i - 1) : t \in D}) \in 0..(n - 3)
    BY <1>1, <2>1, <2>2, <2>3, CountBelow
  <2> QED BY <1>6, <1>9, <2>4
<1>10. \A i \in D : slot(i) \in 0..(IF Ddf(g) THEN n - 1 ELSE n - 3)
  BY <1>5, <1>6, <1>9
<1>11. ASSUME g.layout \in 2..5, NEW k \in 0..(n - 3)
       PROVE  <<D6(g, s, k), k>> \in slots
  <2>1. ASSUME NEW j \in 0..(n - 3)
        PROVE  mem(j) = D6(g, s, j) /\ D6(g, s, j) \notin {pd, qd} /\ j \in R
    <3> DEFINE d == First(g, pd, qd)
    <3>1. j \in R
      BY <1>1
    <3>2. mem(j) = IF d + j < n THEN d + j ELSE d + j - n
      <4>1. g.n \in Nat \ {0}
        BY <1>1
      <4> QED BY <1>2, <3>1, <4>1, MemberIs DEF mem
    <3>3. d = IF qd = n - 1 THEN 0 ELSE qd + 1
      BY <1>11 DEF First, Ddf
    <3>4. D6(g, s, j) \notin {pd, qd}
      BY <1>1, StripeApart6
    <3> HIDE DEF d
    <3>5. CASE g.layout \in {2, 3}
      BY <1>1, <3>1, <3>2, <3>3, <3>4, <3>5 DEF Shape6
    <3>6. CASE g.layout \in {4, 5}
      BY <1>1, <3>1, <3>2, <3>3, <3>4, <3>6 DEF Shape6
    <3> QED BY <1>11, <3>5, <3>6
  <2>2. k \in D /\ 0..(k - 1) \subseteq D
    <3>1. ASSUME NEW j \in 0..k PROVE j \in D
      <4>1. j \in 0..(n - 3)
        BY <1>1
      <4> QED BY <1>5, <2>1, <4>1
    <3> QED BY <3>1
  <2>3. {j \in 0..(k - 1) : j \in D} = 0..(k - 1)
    BY <2>2
  <2>4. Cardinality(0..(k - 1)) = k
    <3>1. k - 1 \in Int /\ 0 \in Int
      OBVIOUS
    <3> QED BY <3>1, FS_Interval
  <2>5. slot(k) = k
    <3>1. ~Ddf(g)
      BY <1>11 DEF Ddf
    <3> QED BY <1>6, <2>2, <2>3, <2>4, <3>1
  <2>6. <<mem(k), slot(k)>> \in slots
    BY <2>2
  <2> QED BY <2>1, <2>5, <2>6
<1> HIDE DEF slots
<1>12. \A t, u \in slots : t[2] = u[2] => t = u
  BY <1>8 DEF slots
<1>13. {t[2] : t \in slots} \subseteq 0..(IF Ddf(g) THEN n - 1 ELSE n - 3)
  BY <1>10 DEF slots
<1>14. p[1] = a /\ p[2] = pd /\ p[3] = qd
  OBVIOUS
<1> HIDE DEF pd, qd
<1>15. SlotsAreApart(p)
  BY <1>1, <1>4, <1>7, <1>11, <1>12, <1>13, <1>14 DEF SlotsAreApart
<1> QED BY <1>15 DEF pd, qd

-----------------------------------------------------------------------------
(* The stripes that have been read whole.                                   *)

ParityOf(x, s) == IF x.level = "6" THEN P6(x, s) ELSE P5(x, s)
SecondOf(x, s) == IF x.level = "6" THEN Q6(x, s) ELSE NoQ

(* The parities of a byte are those of its stripe (stripe).                 *)
LEMMA ParitiesOf ==
    ASSUME NEW x, NEW y
    PROVE  LET s == (y \div x.chunk) \div DataDisks(x)
           IN Stripe(x, y).pd = ParityOf(x, s) /\ Stripe(x, y).qd = SecondOf(x, s)
  BY DEF Stripe, ParityOf, SecondOf

(* Every chunk of a stripe has been read with the stripe (_read).           *)
LEMMA ChunkRead ==
    ASSUME NEW x, ArrayP(x), NEW end \in Nat, NEW s \in Nat, s < end \div (DataDisks(x) * x.chunk),
           NEW k \in 0..(DataDisks(x) - 1), NEW w \in 0..(x.chunk - 1)
    PROVE  \E y \in 0..(end - 1) :
              /\ y % x.chunk = w
              /\ (y \div x.chunk) \div DataDisks(x) = s
              /\ (y \div x.chunk) % DataDisks(x) = k
<1> DEFINE m == DataDisks(x)
           b == x.chunk
           c == m * s + k
           y == b * c + w
<1>1. m \in Nat \ {0} /\ b \in Nat \ {0}
  BY StripeOf DEF ArrayP
<1>2. c \in Nat /\ m * s \in Nat /\ m * s = s * m
  BY <1>1, ProductNat
<1>3. c \div m = s /\ c % m = k
  <2> HIDE DEF m
  <2> QED BY <1>1, DivModUnique DEF m
<1>4. y \div b = c /\ y % b = w
  <2> HIDE DEF c, b
  <2> QED BY <1>1, <1>2, DivModUnique DEF b
<1>5. y \in Nat
  <2> HIDE DEF c, b
  <2>1. b * c \in Nat
    BY <1>1, <1>2, ProductNat
  <2> QED BY <2>1 DEF b
<1>6. y < end
  <2> DEFINE v == m * b
             e == end \div v
  <2>1. v \in Nat \ {0}
    <3> HIDE DEF m, b
    <3>1. v \in Nat /\ v # 0
      BY <1>1, SMTT(30)
    <3> QED BY <3>1
  <2>2. e \in Nat /\ end % v \in 0..(v - 1) /\ end = v * e + (end % v)
    <3> HIDE DEF v
    <3> QED BY <2>1, DivMod
  <2>3. s * v + v <= e * v
    <3> HIDE DEF v, e
    <3>1. s < e
      BY DEF e, v
    <3> QED BY <2>1, <2>2, <3>1, Product
  <2>4. e * v <= end
    <3> HIDE DEF v, e
    <3>1. e * v = v * e /\ e * v \in Nat
      BY <2>1, <2>2, ProductNat
    <3> QED BY <2>1, <2>2, <3>1
  <2>5. s * v + v = (s * m + m) * b
    <3> HIDE DEF m, b
    <3> QED BY <1>1, SMTT(30)
  <2>6. c * b + b <= (s * m + m) * b
    <3>1. c < s * m + m /\ s * m + m \in Nat
      BY <1>1, <1>2
    <3> HIDE DEF c, m, b
    <3> QED BY <1>1, <1>2, <3>1, Product
  <2>7. y = c * b + w /\ c * b \in Nat /\ w < b /\ w \in Nat
    <3>1. c * b = b * c /\ c * b \in Nat
      <4> HIDE DEF c, b
      <4> QED BY <1>1, <1>2, ProductNat
    <3>2. y = b * c + w /\ w < b
      BY <1>1
    <3> HIDE DEF y, c
    <3> QED BY <3>1, <3>2
  <2>8. s * v \in Nat /\ e * v \in Nat
    <3> HIDE DEF v, e
    <3> QED BY <2>1, <2>2, ProductNat
  <2> HIDE DEF y, c, b, m, v, e
  <2> QED BY <1>1, <2>1, <2>2, <2>3, <2>4, <2>5, <2>6, <2>7, <2>8
<1> HIDE DEF y, c
<1>7. y \in 0..(end - 1)
  BY <1>5, <1>6
<1> QED BY <1>3, <1>4, <1>7

(* Of the members of an array, those without parity hold the chunks of a    *)
(* stripe, and P and Q are not on one (stripe).                             *)
LEMMA StripeFull ==
    ASSUME NEW x, ArrayP(x), NEW s \in Nat
    PROVE  /\ ParityOf(x, s) # SecondOf(x, s)
           /\ \A k \in 0..(DataDisks(x) - 1) :
                 DataOf(x, s, k) \in RolesOf(x) \ {ParityOf(x, s), SecondOf(x, s)}
           /\ \A r \in RolesOf(x) \ {ParityOf(x, s), SecondOf(x, s)} :
                 \E k \in 0..(DataDisks(x) - 1) : DataOf(x, s, k) = r
<1>0. 0 \in 0..(DataDisks(x) - 1)
  BY StripeOf
<1>1. CASE Array5(x)
  <2>1. x.level # "6" /\ ParityOf(x, s) = P5(x, s) /\ SecondOf(x, s) = -1
        /\ \A k : DataOf(x, s, k) = D5(x, s, k)
    BY <1>1 DEF Array5, ParityOf, SecondOf, NoQ, DataOf
  <2>2. P5(x, s) \in 0..(x.n - 1)
    BY <1>0, <1>1, StripeApart5
  <2>3. \A k \in 0..(DataDisks(x) - 1) : D5(x, s, k) \in 0..(x.n - 1) /\ D5(x, s, k) # P5(x, s)
    BY <1>1, StripeApart5
  <2>4. \A r \in 0..(x.n - 1) : r # P5(x, s) => \E k \in 0..(DataDisks(x) - 1) : D5(x, s, k) = r
    BY <1>1, StripeFull5
  <2> QED BY <2>1, <2>2, <2>3, <2>4 DEF RolesOf
<1>2. CASE Array6(x)
  <2>1. ParityOf(x, s) = P6(x, s) /\ SecondOf(x, s) = Q6(x, s)
        /\ \A k : DataOf(x, s, k) = D6(x, s, k)
    BY <1>2 DEF Array6, ParityOf, SecondOf, DataOf
  <2>2. P6(x, s) # Q6(x, s)
    BY <1>0, <1>2, StripeApart6
  <2>3. \A k \in 0..(DataDisks(x) - 1) :
           D6(x, s, k) \in 0..(x.n - 1) /\ D6(x, s, k) \notin {P6(x, s), Q6(x, s)}
    BY <1>2, StripeApart6
  <2>4. \A r \in 0..(x.n - 1) :
           r \notin {P6(x, s), Q6(x, s)} => \E k \in 0..(DataDisks(x) - 1) : D6(x, s, k) = r
    BY <1>2, StripeFull6
  <2> QED BY <2>1, <2>2, <2>3, <2>4 DEF RolesOf
<1> QED BY <1>1, <1>2 DEF ArrayP

(* A byte of the members whose stripe has been read has one P and one Q, and*)
(* the stripe's data are on all the members but those; in RAID6 each has a  *)
(* coefficient of its own.  So it is for any number of members, and what    *)
(* _rebuild() takes for granted (stripe, _raid6_slots).                     *)
THEOREM StripesAlwaysWhole == Spec => []StripesAreWhole
<1>1. IInv => StripesAreWhole
  <2> SUFFICES ASSUME IInv, g.level \in {"4", "5", "6"} PROVE StripesAreWhole
    BY DEF StripesAreWhole
  <2> DEFINE S(y) == (y \div g.chunk) \div DataDisks(g)
             noted(y) == <<Stripe(g, y).at, Stripe(g, y).pd, Stripe(g, y).qd>>
  <2>1. /\ ArrayP(g) /\ off \in Nat /\ All = Between(g, 0, off) /\ g.chunk \in Nat \ {0}
        /\ parities = {noted(y) : y \in 0..(off - 1)} /\ DataDisks(g) \in Nat \ {0}
    <3>1. Sound(g) /\ off \in Nat /\ HasRead /\ HasParities
      BY SoundOf DEF IInv
    <3>2. ArrayP(g)
      BY <3>1, SoundIs
    <3>3. All = Between(g, 0, off)
      BY <3>1, AllRead
    <3> QED BY <3>1, <3>2, <3>3, StripeOf DEF HasParities, ArrayP
  <2>2. ASSUME NEW y \in 0..(off - 1)
        PROVE  /\ S(y) \in Nat /\ y % g.chunk \in 0..(g.chunk - 1)
               /\ (y \div g.chunk) % DataDisks(g) \in 0..(DataDisks(g) - 1)
               /\ Stripe(g, y).at = (y % g.chunk) + S(y) * g.chunk
               /\ Stripe(g, y).role = DataOf(g, S(y), (y \div g.chunk) % DataDisks(g))
               /\ noted(y) = <<Stripe(g, y).at, ParityOf(g, S(y)), SecondOf(g, S(y))>>
               /\ Bytes(g, y) = {<<Stripe(g, y).role, Stripe(g, y).at>>}
    <3>1. Places(g, y) = {[role |-> Stripe(g, y).role, at |-> Stripe(g, y).at]}
      BY DEF Places
    <3>2. Bytes(g, y) = {<<Stripe(g, y).role, Stripe(g, y).at>>}
      BY <3>1 DEF Bytes
    <3>3. y \in Nat
      BY <2>1
    <3> QED BY <2>1, <3>2, <3>3, StripeOf, ParitiesOf
  <2> HIDE DEF noted
  <2>3. ASSUME NEW x \in 0..(Read - 1)
        PROVE  \E p \in parities :
                 /\ {q \in parities : q[1] = x} = {p}
                 /\ p[1] = x /\ p[2] # p[3]
                 /\ {r \in RolesOf(g) : <<r, x>> \in All} = RolesOf(g) \ {p[2], p[3]}
    <3> DEFINE s == x \div g.chunk
               w == x % g.chunk
               e == off \div (DataDisks(g) * g.chunk)
               P == ParityOf(g, s)
               Q == SecondOf(g, s)
    <3>0. e \in Nat /\ x \in Nat /\ x < e * g.chunk
      <4> DEFINE m == DataDisks(g)
                 b == g.chunk
                 v == m * b
      <4>1. m \in Nat \ {0} /\ b \in Nat \ {0}
        BY <2>1
      <4> HIDE DEF m, b
      <4>2. v \in Nat /\ v # 0
        BY <4>1, SMTT(30)
      <4> HIDE DEF v
      <4>3. off \div v \in Nat
        BY <2>1, <4>2, DivMod
      <4>4. e \in Nat /\ Read = e * g.chunk
        BY <4>3 DEF v, m, b, Read
      <4> HIDE DEF e
      <4>5. Read \in Nat
        BY <2>1, <4>4, ProductNat
      <4> QED BY <4>4, <4>5
    <3>1. x \in Nat /\ s \in Nat /\ w \in 0..(g.chunk - 1) /\ x = w + s * g.chunk
      <4>1. x \in Nat /\ s \in Nat /\ w \in 0..(g.chunk - 1) /\ x = g.chunk * s + w
        BY <2>1, <3>0, DivMod
      <4>2. g.chunk * s = s * g.chunk /\ s * g.chunk \in Nat
        BY <2>1, <4>1, ProductNat
      <4> HIDE DEF s, w
      <4> QED BY <2>1, <4>1, <4>2
    <3>2. s < e
      <4> HIDE DEF e
      <4> QED BY <2>1, <3>0, DivBelow
    <3> HIDE DEF s, w
    <3>3. ASSUME NEW k \in 0..(DataDisks(g) - 1)
          PROVE  \E y \in 0..(off - 1) : Stripe(g, y).at = x /\ S(y) = s
                                         /\ Stripe(g, y).role = DataOf(g, s, k)
      <4>1. PICK y \in 0..(off - 1) : y % g.chunk = w /\ S(y) = s
                                     /\ (y \div g.chunk) % DataDisks(g) = k
        BY <2>1, <3>1, <3>2, ChunkRead
      <4> QED BY <2>2, <3>1, <4>1
    <3>4. ASSUME NEW y \in 0..(off - 1), Stripe(g, y).at = x
          PROVE  S(y) = s
      <4> DEFINE u == y % g.chunk
                 t == S(y)
      <4>1. u \in 0..(g.chunk - 1) /\ t \in Nat /\ u + t * g.chunk = x
        BY <2>1, <2>2, <3>4
      <4> HIDE DEF u, t
      <4>2. t = s
        BY <2>1, <3>1, <4>1, RowAndByte
      <4> QED BY <4>2 DEF t
    <3> DEFINE p == <<x, P, Q>>
    <3>5. p \in parities
      <4>1. 0 \in 0..(DataDisks(g) - 1)
        BY <2>1
      <4>2. PICK y \in 0..(off - 1) : Stripe(g, y).at = x /\ S(y) = s
        BY <3>3, <4>1
      <4>3. noted(y) = p
        BY <2>2, <4>2
      <4> QED BY <2>1, <4>3
    <3>6. \A q \in parities : q[1] = x => q = p
      <4> TAKE q \in parities
      <4>1. PICK y \in 0..(off - 1) : q = noted(y)
        BY <2>1
      <4>2. noted(y) = <<Stripe(g, y).at, ParityOf(g, S(y)), SecondOf(g, S(y))>>
        BY <2>2
      <4> QED BY <3>4, <4>1, <4>2
    <3>7. ASSUME NEW r \in RolesOf(g), <<r, x>> \in All
          PROVE  r \notin {P, Q}
      <4>1. PICK y \in 0..(off - 1) : <<r, x>> \in Bytes(g, y)
        BY <2>1, <3>7 DEF Between
      <4> DEFINE k == (y \div g.chunk) % DataDisks(g)
      <4>2. k \in 0..(DataDisks(g) - 1) /\ Stripe(g, y).at = x /\ r = DataOf(g, S(y), k)
        BY <2>2, <4>1
      <4>3. S(y) = s
        BY <3>4, <4>2
      <4> HIDE DEF k
      <4>4. DataOf(g, s, k) \in RolesOf(g) \ {P, Q}
        BY <2>1, <3>1, <4>2, StripeFull
      <4> QED BY <4>2, <4>3, <4>4
    <3>8. ASSUME NEW r \in RolesOf(g) \ {P, Q}
          PROVE  <<r, x>> \in All
      <4>1. PICK k \in 0..(DataDisks(g) - 1) : DataOf(g, s, k) = r
        BY <2>1, <3>1, StripeFull
      <4>2. PICK y \in 0..(off - 1) : Stripe(g, y).at = x /\ Stripe(g, y).role = r
        BY <3>3, <4>1
      <4>3. <<r, x>> \in Bytes(g, y)
        BY <2>2, <4>2
      <4> QED BY <2>1, <4>3 DEF Between
    <3>9. P # Q
      BY <2>1, <3>1, StripeFull
    <3> HIDE DEF P, Q
    <3>10. p[1] = x /\ p[2] = P /\ p[3] = Q
      OBVIOUS
    <3>11. {q \in parities : q[1] = x} = {p}
      BY <3>5, <3>6, <3>10
    <3>12. {r \in RolesOf(g) : <<r, x>> \in All} = RolesOf(g) \ {P, Q}
      BY <3>7, <3>8
    <3> QED BY <3>5, <3>9, <3>10, <3>11, <3>12
  <2>4. ASSUME g.level = "6", NEW p \in parities PROVE SlotsAreApart(p)
    <3>1. PICK y \in 0..(off - 1) : p = noted(y)
      BY <2>1
    <3> DEFINE s == S(y)
               at == Stripe(g, y).at
    <3>2. /\ s \in Nat /\ y % g.chunk \in 0..(g.chunk - 1)
          /\ at = (y % g.chunk) + s * g.chunk
          /\ p = <<at, P6(g, s), Q6(g, s)>>
      BY <2>1, <2>2, <2>4, <3>1 DEF ParityOf, SecondOf
    <3>3. at \div g.chunk = s
      <4> DEFINE w == y % g.chunk
      <4>1. w \in 0..(g.chunk - 1) /\ s \in Nat /\ at = w + s * g.chunk
        BY <3>2
      <4> HIDE DEF w, s, at
      <4>2. (g.chunk * s + w) \div g.chunk = s
        BY <2>1, <4>1, DivModUnique
      <4>3. g.chunk * s = s * g.chunk /\ s * g.chunk \in Nat
        BY <2>1, <4>1, ProductNat
      <4>4. at = g.chunk * s + w
        BY <2>1, <4>1, <4>3
      <4> QED BY <4>2, <4>4
    <3>4. Array6(g)
      BY <2>1, <2>4 DEF ArrayP, Array5
    <3> HIDE DEF s, at
    <3> QED BY <3>2, <3>3, <3>4, SlotsApart
  <2> QED BY <2>3, <2>4 DEF StripesAreWhole
<1> QED BY <1>1, AlwaysRead, PTL

-----------------------------------------------------------------------------
(* The members of a chunk's copies, and the chunks of a member's range.     *)

(* Whole turns round the array leave a position on its member.              *)
LEMMA Turns ==
    ASSUME NEW n \in Nat \ {0}, NEW t \in Nat, NEW a \in Nat
    PROVE  (n * t + a) % n = a % n
<1> DEFINE u == a \div n
           r == a % n
<1>1. u \in Nat /\ r \in 0..(n - 1) /\ a = n * u + r
  BY DivMod
<1> HIDE DEF u, r
<1>2. (n * (t + u) + r) % n = r
  BY <1>1, DivModUnique
<1>3. n * t + a = n * (t + u) + r
  <2>1. n * (t + u) = n * t + n * u /\ n * t \in Nat /\ n * u \in Nat
    BY <1>1, ProductNat, SMTT(30)
  <2> QED BY <1>1, <2>1
<1> QED BY <1>2, <1>3 DEF r

(* A chunk's copies are on the members of those of one of the first n       *)
(* chunks (copies10).                                                       *)
LEMMA SameMembers ==
    ASSUME NEW x, Array10(x), NEW y \in Nat,
           NEW p \in Copies10(x, ((y \div x.chunk) % x.n) * x.chunk)
    PROVE  \E q \in Copies10(x, y) : q.role = p.role
<1> DEFINE n == x.n
           near == x.layout.near
           c == y \div x.chunk
           q == c \div n
           k == c % n
           z == k * x.chunk
<1>1. n \in Nat \ {0} /\ x.chunk \in Nat \ {0} /\ near \in Nat \ {0}
  BY DEF Array10
<1>2. c \in Nat
  BY <1>1, DivMod
<1>3. q \in Nat /\ k \in 0..(n - 1) /\ k \in Nat /\ c = n * q + k
  <2> HIDE DEF c
  <2>1. q \in Nat /\ k \in 0..(n - 1) /\ c = n * q + k
    BY <1>1, <1>2, DivMod
  <2> QED BY <1>1, <2>1
<1>4. z \in Nat /\ z \div x.chunk = k
  <2> HIDE DEF k
  <2> QED BY <1>1, <1>3, DivExact, ProductNat
<1>5. PICK i \in 0..(near - 1), f \in 0..(x.layout.far - 1) :
         p = CopyAt(x, (z \div x.chunk) * near + i, f, z % x.chunk)
  <2> HIDE DEF z
  <2> QED BY <1>4, CopiesAre DEF z
<1>6. CopyAt(x, c * near + i, f, y % x.chunk) \in Copies10(x, y)
  BY CopiesAre
<1>7. (c * near + i) % n = (k * near + i) % n
  <2> HIDE DEF c, q, k
  <2>1. c * near + i = n * (q * near) + (k * near + i)
    <3>1. (n * q + k) * near = n * (q * near) + k * near
      BY <1>1, <1>3, SMTT(30)
    <3>2. n * (q * near) \in Nat /\ k * near \in Nat /\ i \in Nat
      BY <1>1, <1>3, ProductNat
    <3>3. c * near = n * (q * near) + k * near
      BY <1>3, <3>1
    <3> HIDE DEF near, n
    <3> QED BY <3>2, <3>3
  <2>2. q * near \in Nat /\ k * near + i \in Nat
    <3>1. k * near \in Nat /\ i \in Nat
      BY <1>1, <1>3, ProductNat
    <3> QED BY <1>1, <1>3, <3>1, ProductNat
  <2> QED BY <1>1, <2>1, <2>2, Turns
<1>8. p = CopyAt(x, k * near + i, f, z % x.chunk)
  BY <1>4, <1>5
<1> HIDE DEF c, k, z
<1>9. CopyAt(x, c * near + i, f, y % x.chunk).role = p.role
  BY <1>7, <1>8 DEF CopyAt, RoleOf
<1> QED BY <1>6, <1>9

(* An array of RAID10 that is not refused for its missing members has a copy*)
(* of every chunk, whatever its layout and members (_md_judge, copies10).   *)
THEOREM AlwaysEnoughCopies == Spec => []EnoughCopies
<1>1. IInv => EnoughCopies
  <2> SUFFICES ASSUME IInv, g.level = "10", off > 0, NEW gone \in SUBSET RolesOf(g),
                      ~ShortOfCopies(g, gone)
               PROVE  \E p \in piece : p[1] \notin gone
    BY DEF EnoughCopies
  <2>1. Array10(g) /\ off \in Nat
    BY SoundOf, SoundIs DEF IInv
  <2>2. PICK from \in 0..(off - 1) : piece = Between(g, from, off)
    BY <2>1 DEF IInv, HasRead
  <2> DEFINE c == (from \div g.chunk) % g.n
  <2>3. from \in Nat /\ c \in RolesOf(g)
    <3>1. from \in Nat /\ g.chunk \in Nat \ {0} /\ g.n \in Nat \ {0}
      BY <2>1 DEF Array10
    <3>2. from \div g.chunk \in Nat
      BY <3>1, DivMod
    <3> QED BY <3>1, <3>2, DivMod DEF RolesOf
  <2>4. PICK p \in Copies10(g, c * g.chunk) : p.role \notin gone
    <3> HIDE DEF c
    <3> QED BY <2>3 DEF ShortOfCopies
  <2>5. PICK q \in Copies10(g, from) : q.role = p.role
    BY <2>1, <2>3, <2>4, SameMembers
  <2>6. Places(g, from) = Copies10(g, from)
    BY DEF Places
  <2>7. <<q.role, q.at>> \in Bytes(g, from)
    BY <2>6 DEF Bytes
  <2>8. from \in from..(off - 1)
    BY <2>1
  <2>9. <<q.role, q.at>> \in piece /\ <<q.role, q.at>>[1] \notin gone
    BY <2>2, <2>4, <2>5, <2>7, <2>8 DEF Between
  <2> QED BY <2>9
<1> QED BY <1>1, AlwaysRead, PTL

(* The rows before the first are none (unreadable).                         *)
LEMMA MaxZero == \A a \in Int : Max({0, a}) = IF a <= 0 THEN 0 ELSE a
  BY DEF Max

(* A chunk with a copy in a row of near copies is one of those of the row,  *)
(* with one more at either end (unreadable).                                *)
LEMMA ChunkOfRow ==
    ASSUME NEW n \in Nat \ {0}, NEW near \in Nat \ {0}, NEW c \in Nat, NEW i \in 0..(near - 1),
           NEW row \in Nat, (c * near + i) \div n = row
    PROVE  c \in Max({0, ((row * n) \div near) - 1})..((((row + 1) * n) \div near) + 1)
<1> DEFINE l == c * near + i
           a == row * n
           m == (row + 1) * n
           u == a \div near
           v == m \div near
<1>1. l \in Nat /\ a \in Nat /\ m \in Nat /\ c * near \in Nat
  BY ProductNat
<1>2. m = a + n
  BY SMTT(30)
<1>3. a <= l /\ l < m
  <2>1. l \div n = row /\ l % n \in 0..(n - 1) /\ l = n * (l \div n) + (l % n)
    <3> HIDE DEF l
    <3> QED BY <1>1, DivMod DEF l
  <2>2. n * row = a
    BY ProductNat
  <2> HIDE DEF l, a, m
  <2> QED BY <1>1, <1>2, <2>1, <2>2
<1>4. u \in Nat /\ v \in Nat /\ m % near \in 0..(near - 1) /\ m = near * v + (m % near)
  <2> HIDE DEF a, m
  <2> QED BY <1>1, DivMod
<1>5. u < c + 1
  <2>1. (c + 1) * near = c * near + near
    BY SMTT(30)
  <2>2. a < (c + 1) * near
    <3>1. l = c * near + i
      OBVIOUS
    <3> HIDE DEF a, m, l
    <3> QED BY <1>1, <1>3, <2>1, <3>1
  <2>3. c + 1 \in Nat
    OBVIOUS
  <2> HIDE DEF a
  <2> QED BY <1>1, <2>2, <2>3, DivBelow
<1>6. c <= v
  <2> SUFFICES ASSUME v < c PROVE FALSE
    BY <1>4
  <2> HIDE DEF v
  <2>1. v * near + near <= c * near /\ v * near = near * v /\ v * near \in Nat
    BY <1>4, Product, ProductNat
  <2>2. l = c * near + i
    OBVIOUS
  <2> HIDE DEF m, l
  <2> QED BY <1>1, <1>3, <1>4, <2>1, <2>2
<1>7. Max({0, u - 1}) <= c /\ Max({0, u - 1}) \in Int
  <2>1. u - 1 \in Int /\ u - 1 <= c
    BY <1>4, <1>5
  <2> HIDE DEF u
  <2>2. Max({0, u - 1}) = IF u - 1 <= 0 THEN 0 ELSE u - 1
    BY <2>1, MaxZero
  <2> QED BY <2>1, <2>2
<1>8. c <= v + 1
  BY <1>4, <1>6
<1> HIDE DEF u, v
<1>9. c \in Max({0, u - 1})..(v + 1)
  BY <1>4, <1>7, <1>8
<1> QED BY <1>9 DEF u, v

(* The row of a member unreadable() looks at, taken back to its near copies.*)
LEMMA RowBack ==
    ASSUME NEW x, Array10(x), NEW l \in Nat, NEW f \in 0..(x.layout.far - 1), NEW t \in Nat,
           t \div x.chunk = RowOf(x, l, f)
    PROVE  LET row == IF x.layout.offset THEN t \div x.chunk - f
                      ELSE (t - f * Stride(x)) \div x.chunk
           IN /\ row \in Nat
              /\ x.layout.offset => row % x.layout.far = 0 /\ row \div x.layout.far = l \div x.n
              /\ ~x.layout.offset => row = l \div x.n
<1> DEFINE n == x.n
           far == x.layout.far
           b == x.chunk
           r == l \div n
<1>1. n \in Nat \ {0} /\ far \in Nat \ {0} /\ b \in Nat \ {0}
  BY DEF Array10
<1>2. r \in Nat /\ Rows(x) \in Nat
  <2>1. x.dev \div x.chunk \in Nat
    BY DivMod DEF Array10
  <2> QED BY <1>1, <2>1, DivMod DEF Rows, Array10
<1>3. CASE x.layout.offset
  <2>1. t \div b = r * far + f
    BY <1>3 DEF RowOf
  <2> HIDE DEF r, b, far
  <2>2. r * far \in Nat /\ (r * far) \div far = r /\ (r * far) % far = 0
    BY <1>1, <1>2, ProductNat, DivExact
  <2>3. t \div b - f = r * far
    <3>1. f \in Int
      OBVIOUS
    <3> QED BY <2>1, <2>2, <3>1
  <2> QED BY <1>3, <2>2, <2>3 DEF r, b, far
<1>4. CASE ~x.layout.offset
  <2> DEFINE w == t % b
             d == Rows(x)
  <2>1. t \div b = r + f * d /\ Stride(x) = d * b /\ f \in Nat
    BY <1>4, <1>1, StrideOf DEF RowOf
  <2>2. w \in 0..(b - 1) /\ t = b * (t \div b) + w
    <3> HIDE DEF b
    <3> QED BY <1>1, DivMod
  <2> HIDE DEF r, b, w, d
  <2>3. b * (r + f * d) = b * r + f * (d * b)
    BY <1>1, <1>2, <2>1, SMTT(30) DEF d
  <2>4. b * r \in Nat /\ f * (d * b) \in Nat
    BY <1>1, <1>2, <2>1, ProductNat DEF d
  <2>5. t - f * Stride(x) = b * r + w
    BY <1>1, <2>1, <2>2, <2>3, <2>4
  <2>6. (b * r + w) \div b = r
    BY <1>1, <1>2, <2>2, DivModUnique
  <2>7. (t - f * Stride(x)) \div b = r
    BY <2>5, <2>6
  <2> QED BY <1>2, <1>4, <2>7 DEF r, b
<1> QED BY <1>3, <1>4 DEF Array10

(* A chunk with a copy at the end of a range, or anywhere in its first      *)
(* chunk, is looked at for it (unreadable).                                 *)
LEMMA ChunkIsCandidate ==
    ASSUME NEW x, Array10(x), NEW y \in Nat, y < Size(x), NEW p \in Copies10(x, y),
           NEW s \in {p.at, Max({0, p.at - x.chunk})}
    PROVE  y \div x.chunk \in Candidates10(x, s, p.at + 1)
<1> DEFINE n == x.n
           near == x.layout.near
           far == x.layout.far
           b == x.chunk
           c == y \div b
           w == y % b
           e == p.at + 1
<1>1. n \in Nat \ {0} /\ near \in Nat \ {0} /\ far \in Nat \ {0} /\ b \in Nat \ {0}
  BY DEF Array10
<1>2. c \in Nat /\ w \in 0..(b - 1)
  BY <1>1, DivMod
<1>3. PICK i \in 0..(near - 1), f \in 0..(far - 1) :
         p = CopyAt(x, c * near + i, f, w) /\ c * near + i \in Nat
         /\ (c * near + i) \div n \in 0..(Rows(x) - 1)
  BY CopyOf
<1> DEFINE l == c * near + i
           r == RowOf(x, l, f)
           st == l \div n
<1>4. l \in Nat /\ st \in Nat
  BY <1>3, <1>1
<1>5. r \in Nat /\ p.at = w + r * b /\ r * b \in Nat
  <2>1. r \in Nat
    BY <1>3, RowsApart
  <2> QED BY <1>1, <1>3, <2>1, ProductNat DEF CopyAt
<1> DEFINE starts == {s} \cup {t \in (s + 1)..(e - 1) : t % b = 0}
<1> HIDE DEF c, w, l, r
<1>6. \E t \in starts : t \in Nat /\ t \div b = r
  <2>1. (b * r + w) \div b = r /\ b * r = r * b
    BY <1>1, <1>2, <1>5, DivModUnique, ProductNat
  <2>2. CASE s = p.at
    <3>1. p.at \in Nat /\ p.at = b * r + w
      BY <1>1, <1>2, <1>5, <2>1
    <3> QED BY <2>1, <2>2, <3>1
  <2>3. CASE s = Max({0, p.at - b}) /\ p.at >= b
    <3>1. p.at \in Nat /\ p.at - b \in Nat
      BY <1>1, <1>2, <1>5, <2>3
    <3>2. s = p.at - b
      <4> DEFINE u == p.at - b
      <4> HIDE DEF u
      <4> QED BY <2>3, <3>1 DEF Max, u
    <3>3. (r * b) \div b = r /\ (r * b) % b = 0
      BY <1>1, <1>5, DivExact
    <3>4. r * b \in (s + 1)..(e - 1)
      BY <1>1, <1>2, <1>5, <3>1, <3>2
    <3> QED BY <1>5, <3>3, <3>4
  <2>4. CASE s = Max({0, p.at - b}) /\ ~(p.at >= b)
    <3>1. p.at \in Nat /\ p.at - b \in Int /\ p.at - b < 0
      BY <1>1, <1>2, <1>5, <2>4
    <3>2. s = 0
      <4> DEFINE u == p.at - b
      <4>1. s = Max({0, u}) /\ u \in Int /\ u < 0
        BY <2>4, <3>1
      <4> HIDE DEF u
      <4> QED BY <4>1 DEF Max
    <3>3. r = 0
      <4> SUFFICES ASSUME 0 < r PROVE FALSE
        BY <1>5
      <4>1. 0 * b + b <= r * b
        BY <1>1, <1>5, Product
      <4> QED BY <1>1, <1>2, <1>5, <3>1, <4>1
    <3>4. 0 \div b = 0
      BY <1>1, SMTT(30)
    <3> QED BY <3>2, <3>3, <3>4
  <2> QED BY <1>1, <1>2, <1>5, <2>2, <2>3, <2>4
<1>7. PICK t \in starts : t \in Nat /\ t \div b = r
  BY <1>6
<1> DEFINE rowOf(a, h) == IF x.layout.offset THEN a \div b - h ELSE (a - h * Stride(x)) \div b
           rows == {rowOf(a, h) : a \in starts, h \in 0..(far - 1)}
           sound == {row \in rows : row >= 0 /\ (x.layout.offset => row % far = 0)}
           stripes == {IF x.layout.offset THEN row \div far ELSE row : row \in sound}
           near0(m) == Max({0, ((m * n) \div near) - 1})..((((m + 1) * n) \div near) + 1)
<1>8. st \in stripes
  <2> DEFINE row == rowOf(t, f)
  <2>1. row \in Nat /\ (x.layout.offset => row % far = 0 /\ row \div far = st)
        /\ (~x.layout.offset => row = st)
    BY <1>4, <1>7, RowBack DEF r
  <2>2. row \in rows
    OBVIOUS
  <2> HIDE DEF row, rows
  <2>3. row \in sound
    BY <2>1, <2>2
  <2> HIDE DEF sound
  <2>4. st = IF x.layout.offset THEN row \div far ELSE row
    BY <2>1 DEF Array10
  <2> QED BY <2>3, <2>4
<1>9. c \in near0(st)
  <2> HIDE DEF near, n, st
  <2> QED BY <1>1, <1>2, <1>4, ChunkOfRow DEF l, st
<1>10. Candidates10(x, s, e) = UNION {near0(m) : m \in stripes \cup {q - 1 : q \in stripes}}
  BY DEF Candidates10
<1> HIDE DEF stripes, near0, st
<1>11. c \in Candidates10(x, s, e)
  BY <1>8, <1>9, <1>10
<1> QED BY <1>11 DEF c

(* What no copy supplies is looked for in every chunk that has a copy in a  *)
(* bad range of a member (unreadable).                                      *)
THEOREM CandidatesAlwaysSuffice == Spec => []CandidatesSuffice
<1>1. IInv => CandidatesSuffice
  <2> SUFFICES ASSUME IInv, g.level = "10", off > 0, NEW b \in piece,
                      NEW s \in {b[2], Max({0, b[2] - g.chunk})}
               PROVE  (off - 1) \div g.chunk \in Candidates10(g, s, b[2] + 1)
    BY DEF CandidatesSuffice
  <2>1. Array10(g) /\ off \in Nat /\ off <= Size(g) /\ Size(g) \in Nat
        /\ g.chunk \in Nat \ {0}
    <3>1. Sound(g) /\ off \in Nat /\ off <= Size(g)
      BY SoundOf DEF IInv
    <3> QED BY <3>1, SoundIs, SizeNat DEF Array10
  <2>2. PICK from \in 0..(off - 1) : piece = Between(g, from, off) /\ off - from <= Run(g, from)
    BY <2>1 DEF IInv, HasRead
  <2>3. PICK y \in from..(off - 1) : b \in Bytes(g, y)
    BY <2>2 DEF Between
  <2>4. y \in Nat /\ y < Size(g) /\ from \in Nat
    BY <2>1
  <2>5. PICK p \in Copies10(g, y) : b = <<p.role, p.at>>
    BY <2>3 DEF Bytes, Places
  <2>6. y \div g.chunk = (off - 1) \div g.chunk
    <3> DEFINE left == g.chunk - (from % g.chunk)
               i == y - from
               j == off - 1 - from
    <3>1. Run(g, from) = left /\ from % g.chunk \in 0..(g.chunk - 1)
      BY <2>1, <2>4, DivMod DEF Run
    <3>2. i \in 0..(left - 1) /\ j \in 0..(left - 1) /\ y = from + i /\ off - 1 = from + j
      BY <2>1, <2>2, <2>4, <3>1
    <3> HIDE DEF i, j
    <3>3. (from + i) \div g.chunk = from \div g.chunk /\ (from + j) \div g.chunk = from \div g.chunk
      BY <2>1, <2>4, <3>2, InOneChunk
    <3> QED BY <3>2, <3>3
  <2>7. y \div g.chunk \in Candidates10(g, s, p.at + 1)
    BY <2>1, <2>4, <2>5, ChunkIsCandidate
  <2> QED BY <2>5, <2>6, <2>7
<1> QED BY <1>1, AlwaysRead, PTL
===============================================================================
