------------------------- MODULE ThermometerProofs --------------------------
(***************************************************************************)
(* Proofs about Thermometer, for a history of any size, any number of      *)
(* readings per update that fits in it, and any set of readings.           *)
(*                                                                         *)
(* The statistics are inequalities about sums, proved by the least         *)
(* counterexample.  What sorting and the ring do to the history is said in *)
(* one number for each x: how many of its values are at most x (UpTo).     *)
(***************************************************************************)
EXTENDS Thermometer, FiniteSetTheorems, WellFoundedInduction, TLAPS

-----------------------------------------------------------------------------
(* Every non-empty set of naturals has a least element: induction, in the  *)
(* form of the least counterexample.                                       *)
Below == {ss \in Nat \X Nat : ss[1] < ss[2]}

LEMMA Least ==
  ASSUME NEW S, S \subseteq Nat, S # {}
  PROVE  \E m \in S : \A k \in S : m =< k
<1>1. IsWellFoundedOn(Below, Nat)
  BY NatLessThanWellFounded DEF OpToRel, Below
<1>2. PICK m \in S : \A k \in S : ~(<<k, m>> \in Below)
  BY <1>1, WFMin, Zenon
<1>3. \A k \in S : ~(k < m)
  BY <1>2 DEF Below
<1> QED
  BY <1>3

(* A bounded one has a greatest.                                           *)
LEMMA Greatest ==
  ASSUME NEW S, S \subseteq Nat, S # {}, NEW b \in Nat, \A k \in S : k =< b
  PROVE  \E m \in S : \A k \in S : k =< m
<1> DEFINE T == {j \in Nat : b - j \in S}
<1>1. T \subseteq Nat /\ T # {}
  <2>1. PICK k \in S : TRUE
    OBVIOUS
  <2>2. b - k \in Nat /\ b - (b - k) = k
    BY <2>1
  <2> QED
    BY <2>1, <2>2
<1>2. PICK t \in T : \A k \in T : t =< k
  BY <1>1, Least
<1>3. ASSUME NEW k \in S
      PROVE  k =< b - t
  <2>1. b - k \in Nat /\ b - (b - k) = k
    OBVIOUS
  <2> QED
    BY <1>2, <2>1
<1> QED
  BY <1>2, <1>3

-----------------------------------------------------------------------------
(* The recursion of SumTo is well founded, so that its equations hold.     *)
IsSum(g, f, n) == g = [i \in 0..n |-> IF i = 0 THEN 0 ELSE g[i - 1] + f[i]]

(* The recursion of SumTo is well founded: a function that satisfies it    *)
(* exists.                                                                 *)
LEMMA SumExists ==
  ASSUME NEW f, NEW n \in Nat
  PROVE  \E g : IsSum(g, f, n)
<1> DEFINE S == {j \in Nat : ~ \E g : IsSum(g, f, j)}
<1> SUFFICES ASSUME S # {} PROVE FALSE
  OBVIOUS
<1>1. PICK m \in S : \A k \in S : m =< k
  BY Least
<1>2. CASE m = 0
  <2> DEFINE g == [i \in 0..0 |-> 0]
  <2>1. IsSum(g, f, 0)
    BY DEF IsSum
  <2> QED
    BY <1>2, <2>1
<1>3. CASE m > 0
  <2>1. m - 1 \in Nat /\ m - 1 \notin S
    BY <1>1, <1>3
  <2>2. PICK g : IsSum(g, f, m - 1)
    BY <2>1
  <2> DEFINE h == [i \in 0..m |-> IF i = m THEN g[m - 1] + f[m] ELSE g[i]]
  <2>3. \A i \in 0..m : h[i] = IF i = 0 THEN 0 ELSE h[i - 1] + f[i]
    <3> SUFFICES ASSUME NEW i \in 0..m
                 PROVE  h[i] = IF i = 0 THEN 0 ELSE h[i - 1] + f[i]
      OBVIOUS
    <3>1. CASE i = m
      BY <1>3, <3>1
    <3>2. CASE i # m
      BY <1>3, <2>2, <3>2 DEF IsSum
    <3> QED
      BY <3>1, <3>2
  <2>4. IsSum(h, f, m)
    BY <2>3 DEF IsSum
  <2> QED
    BY <2>4
<1> QED
  BY <1>2, <1>3

(* SumTo, unfolded into the partial sums.                                  *)
LEMMA SumIs ==
  ASSUME NEW f, NEW n \in Nat, \A i \in 1..n : f[i] \in Int
  PROVE  \E g \in [0..n -> Int] :
           /\ g[0] = 0 /\ SumTo(f, n) = g[n]
           /\ \A i \in 1..n : g[i] = g[i - 1] + f[i]
<1> DEFINE g == CHOOSE g : IsSum(g, f, n)
<1>1. SumTo(f, n) = g[n]
  BY DEF SumTo, IsSum
<1>2. IsSum(g, f, n)
  BY SumExists
<1> HIDE DEF g
<1>3. g[0] = 0 /\ \A i \in 1..n : g[i] = g[i - 1] + f[i]
  BY <1>2 DEF IsSum
<1> DEFINE S == {i \in 0..n : g[i] \notin Int}
<1>4. S = {}
  <2> SUFFICES ASSUME S # {} PROVE FALSE
    OBVIOUS
  <2>1. PICK m \in S : \A k \in S : m =< k
    <3>1. S \subseteq Nat
      OBVIOUS
    <3> QED
      BY <3>1, Least
  <2>2. m # 0
    BY <1>3
  <2>3. m - 1 \in 0..n /\ m - 1 \notin S
    BY <2>1, <2>2
  <2> QED
    BY <1>3, <2>2, <2>3
<1>5. g \in [0..n -> Int]
  BY <1>2, <1>4 DEF IsSum
<1> QED
  BY <1>1, <1>3, <1>5

-----------------------------------------------------------------------------
(* The values of a history and their average.                              *)

(* One more deviation x: the square of the sum of c deviations is at most  *)
(* c times the sum of their squares.                                       *)
LEMMA CauchyStep ==
  ASSUME NEW off \in Int, NEW sq \in Int, NEW x \in Int, NEW c \in Nat,
         off * off =< c * sq, sq >= 0
  PROVE  (off + x) * (off + x) =< (c + 1) * (sq + x * x)
<1> DEFINE r == sq + c * (x * x) - 2 * (off * x)
<1>1. (c + 1) * (sq + x * x) - (off + x) * (off + x) = (c * sq - off * off) + r
  OBVIOUS
<1>2. r >= 0
  <2>1. CASE c = 0
    <3>1. off = 0
      BY <2>1
    <3> QED
      BY <2>1, <3>1
  <2>2. CASE c > 0
    <3>1. (c * x - off) * (c * x - off) >= 0
      <4> DEFINE y == c * x - off
      <4>1. y \in Int
        OBVIOUS
      <4> HIDE DEF y
      <4>2. y * y >= 0
        BY <4>1
      <4> QED
        BY <4>2 DEF y
    <3>2. c * r >= 0
      BY <3>1
    <3>3. r \in Int
      OBVIOUS
    <3> HIDE DEF r
    <3> QED
      BY <2>2, <3>2, <3>3
  <2> QED
    BY <2>1, <2>2
<1>3. r \in Int /\ (c + 1) * (sq + x * x) \in Int /\ (off + x) * (off + x) \in Int
      /\ c * sq \in Int /\ off * off \in Int
  OBVIOUS
<1> HIDE DEF r
<1> QED
  BY <1>1, <1>2, <1>3

(* The sums of the deviations from m and of their squares, one value       *)
(* further.                                                                *)
LEMMA NextDeviation ==
  ASSUME NEW a \in Int, NEW b \in Int, NEW y \in Int, NEW m \in Int, NEW j \in Int
  PROVE  /\ (a + y) - j * m = (a - (j - 1) * m) + (y - m)
         /\ (b + y * y) - 2 * m * (a + y) + j * (m * m) =
              (b - 2 * m * a + (j - 1) * (m * m)) + (y - m) * (y - m)
OBVIOUS

(* The places of m, and those up to j of anything else.                    *)
EqualTo(d, m) == {i \in DOMAIN d : d[i] = m}
Unlike(d, m, j) == {i \in 1..j : d[i] # m}

(* The values that differ are finitely many,                               *)
LEMMA UnlikeFinite ==
  ASSUME NEW d, NEW m, NEW j \in Nat
  PROVE  IsFiniteSet(Unlike(d, m, j)) /\ Cardinality(Unlike(d, m, j)) \in Nat
<1>1. Unlike(d, m, j) \in SUBSET (1..j) /\ 1 \in Int
  BY DEF Unlike
<1>2. IsFiniteSet(1..j)
  BY <1>1, FS_Interval
<1> QED
  BY <1>1, <1>2, FS_Subset, FS_CardinalityType

(* and one more of them if the next value differs.                         *)
LEMMA NextUnlike ==
  ASSUME NEW d, NEW m, NEW j \in Nat, j > 0
  PROVE  Cardinality(Unlike(d, m, j)) =
           Cardinality(Unlike(d, m, j - 1)) + IF d[j] = m THEN 0 ELSE 1
<1>1. j - 1 \in Nat
  OBVIOUS
<1>2. /\ IsFiniteSet(Unlike(d, m, j - 1))
      /\ Cardinality(Unlike(d, m, j - 1)) \in Nat
  BY <1>1, UnlikeFinite
<1>3. CASE d[j] = m
  <2>1. Unlike(d, m, j) = Unlike(d, m, j - 1)
    BY <1>3 DEF Unlike
  <2> QED
    BY <1>2, <1>3, <2>1
<1>4. CASE d[j] # m
  <2>1. Unlike(d, m, j) = Unlike(d, m, j - 1) \cup {j}
    BY <1>4 DEF Unlike
  <2>2. j \notin Unlike(d, m, j - 1)
    BY DEF Unlike
  <2> QED
    BY <1>2, <1>4, <2>1, <2>2, FS_AddElement
<1> QED
  BY <1>3, <1>4

(* The square of the sum of all deviations from m is at most the number of *)
(* values that differ from m times the sum of the squares.                 *)
LEMMA Deviations ==
  ASSUME NEW d \in Seq(Int), NEW m \in Int
  PROVE  LET n == Len(d)  off == Total(d) - n * m
             sq == Squares(d) - 2 * m * Total(d) + n * (m * m)
         IN  /\ Total(d) \in Int /\ Squares(d) \in Int
             /\ off * off =< Cardinality(Unlike(d, m, n)) * sq /\ sq >= 0
<1> DEFINE n == Len(d)
           f == [i \in DOMAIN d |-> d[i] * d[i]]
<1>1. n \in Nat /\ DOMAIN d = 1..n /\ \A i \in 1..n : d[i] \in Int
  OBVIOUS
<1>2. \A i \in 1..n : f[i] = d[i] * d[i] /\ f[i] \in Int
  BY <1>1
<1>3. PICK g \in [0..n -> Int] :
        /\ g[0] = 0 /\ Total(d) = g[n]
        /\ \A i \in 1..n : g[i] = g[i - 1] + d[i]
  BY <1>1, SumIs DEF Total
<1>4. PICK h \in [0..n -> Int] :
        /\ h[0] = 0 /\ Squares(d) = h[n]
        /\ \A i \in 1..n : h[i] = h[i - 1] + d[i] * d[i]
  <2> HIDE DEF f
  <2>1. PICK h \in [0..n -> Int] :
          /\ h[0] = 0 /\ SumTo(f, n) = h[n]
          /\ \A i \in 1..n : h[i] = h[i - 1] + f[i]
    BY <1>1, <1>2, SumIs
  <2> QED
    BY <1>2, <2>1 DEF Squares, f
<1> DEFINE off(j) == g[j] - j * m
           sq(j) == h[j] - 2 * m * g[j] + j * (m * m)
           c(j) == Cardinality(Unlike(d, m, j))
           Good(j) == off(j) * off(j) =< c(j) * sq(j) /\ sq(j) >= 0
           S == {j \in 0..n : ~Good(j)}
<1>5. S = {}
  <2> SUFFICES ASSUME S # {} PROVE FALSE
    OBVIOUS
  <2>1. PICK j \in S : \A k \in S : j =< k
    <3>1. S \subseteq Nat
      BY <1>1
    <3> QED
      BY <3>1, Least
  <2>2. CASE j = 0
    <3>1. off(0) = 0 /\ sq(0) = 0 /\ c(0) \in Nat
      BY <1>3, <1>4, UnlikeFinite
    <3>2. Good(0)
      <4> HIDE DEF off, sq, c
      <4> QED
        BY <3>1
    <3> QED
      BY <2>1, <2>2, <3>2
  <2>3. CASE j > 0
    <3>1. j \in 1..n /\ j - 1 \in 0..n /\ j - 1 \notin S
      <4>1. j \in 0..n /\ \A k \in S : j =< k
        BY <2>1
      <4>2. j \in 1..n /\ j - 1 \in 0..n /\ ~(j =< j - 1)
        BY <1>1, <2>3, <4>1
      <4> HIDE DEF S
      <4> QED
        BY <4>1, <4>2
    <3>2. Good(j - 1)
      BY <3>1
    <3> DEFINE a == g[j - 1]  b == h[j - 1]  y == d[j]  x == y - m
    <3>3. g[j] = a + y /\ h[j] = b + y * y
      BY <3>1, <1>3, <1>4
    <3>4. a \in Int /\ b \in Int /\ y \in Int /\ j \in Int /\ x \in Int
      <4>1. a \in Int /\ b \in Int
        BY <3>1
      <4>2. y \in Int /\ j \in Int
        BY <3>1, <1>1
      <4> QED
        BY <4>1, <4>2
    <3>5. off(j) = off(j - 1) + x /\ sq(j) = sq(j - 1) + x * x
      <4> HIDE DEF a, b, y
      <4>1. /\ (a + y) - j * m = (a - (j - 1) * m) + (y - m)
            /\ (b + y * y) - 2 * m * (a + y) + j * (m * m) =
                 (b - 2 * m * a + (j - 1) * (m * m)) + (y - m) * (y - m)
        BY <3>4, NextDeviation
      <4>2. off(j) = (a + y) - j * m /\ off(j - 1) = a - (j - 1) * m
        BY <3>3 DEF a
      <4>3. /\ sq(j) = (b + y * y) - 2 * m * (a + y) + j * (m * m)
            /\ sq(j - 1) = b - 2 * m * a + (j - 1) * (m * m)
        BY <3>3 DEF a, b
      <4> HIDE DEF off, sq
      <4> QED
        BY <4>1, <4>2, <4>3
    <3>6. c(j) = c(j - 1) + IF x = 0 THEN 0 ELSE 1
      <4>1. c(j) = c(j - 1) + IF d[j] = m THEN 0 ELSE 1
        BY <2>3, <3>1, NextUnlike
      <4> HIDE DEF c
      <4> QED
        BY <3>4, <4>1
    <3>7. off(j - 1) \in Int /\ sq(j - 1) \in Int /\ c(j - 1) \in Nat
      <4>1. c(j - 1) \in Nat
        BY <3>1, UnlikeFinite
      <4> HIDE DEF c
      <4>2. off(j - 1) = a - (j - 1) * m
        OBVIOUS
      <4>3. sq(j - 1) = b - 2 * m * a + (j - 1) * (m * m)
        OBVIOUS
      <4> HIDE DEF off, sq, a, b
      <4> QED
        BY <3>4, <4>1, <4>2, <4>3
    <3>8. Good(j)
      <4>1. CASE x = 0
        <5> HIDE DEF off, sq, c, x
        <5> QED
          BY <3>2, <3>4, <3>5, <3>6, <3>7, <4>1
      <4>2. CASE x # 0
        <5> HIDE DEF off, sq, c, x
        <5>1. (off(j - 1) + x) * (off(j - 1) + x)
                =< (c(j - 1) + 1) * (sq(j - 1) + x * x)
          BY <3>2, <3>4, <3>7, CauchyStep
        <5>2. sq(j - 1) + x * x >= 0
          <6>1. x * x >= 0 /\ x * x \in Int
            BY <3>4
          <6> QED
            BY <3>2, <3>7, <6>1
        <5>3. c(j) = c(j - 1) + 1
          BY <3>6, <4>2
        <5> QED
          BY <3>5, <5>1, <5>2, <5>3
      <4> QED
        BY <4>1, <4>2
    <3> QED
      BY <2>1, <3>8
  <2> QED
    BY <2>2, <2>3, <2>1
<1>6. Good(n)
  <2>1. n \in 0..n
    BY <1>1
  <2> HIDE DEF Good
  <2> QED
    BY <1>5, <2>1
<1>7. Total(d) \in Int /\ Squares(d) \in Int
  BY <1>1, <1>3, <1>4
<1>8. /\ off(n) = Total(d) - n * m
      /\ sq(n) = Squares(d) - 2 * m * Total(d) + n * (m * m)
      /\ c(n) = Cardinality(Unlike(d, m, n))
  BY <1>3, <1>4
<1> HIDE DEF off, sq, c
<1> QED
  BY <1>6, <1>7, <1>8

(* Three standard deviations are too far only from a value that less than  *)
(* a tenth of the history equals.                                          *)
LEMMA Tenth ==
  ASSUME NEW d \in Seq(Int), NEW m \in Int, TooFar(d, m)
  PROVE  10 * Cardinality(EqualTo(d, m)) < Len(d)
<1> DEFINE n == Len(d)
           c == Cardinality(Unlike(d, m, n))
           off == Total(d) - n * m
           sq == Squares(d) - 2 * m * Total(d) + n * (m * m)
<1>1. /\ n \in Nat /\ Total(d) \in Int /\ Squares(d) \in Int
      /\ off * off =< c * sq /\ sq >= 0
  BY Deviations
<1>2. off * off > 9 * (n * Squares(d) - Total(d) * Total(d))
  BY DEF TooFar
<1>3. n * Squares(d) - Total(d) * Total(d) = n * sq - off * off
  <2> DEFINE a == Total(d)  b == Squares(d)
  <2>1. a \in Int /\ b \in Int
    BY <1>1
  <2> HIDE DEF a, b
  <2>2. n * b - a * a =
          n * (b - 2 * m * a + n * (m * m)) - (a - n * m) * (a - n * m)
    BY <1>1, <2>1
  <2> QED
    BY <2>2 DEF a, b
<1>4. off \in Int /\ sq \in Int /\ n * sq \in Int
  BY <1>1
<1>5. c + Cardinality(EqualTo(d, m)) = n /\ c \in Nat
      /\ Cardinality(EqualTo(d, m)) \in Nat
  <2>1. Unlike(d, m, n) \cup EqualTo(d, m) = 1..n
    BY <1>1 DEF Unlike, EqualTo
  <2>2. Unlike(d, m, n) \cap EqualTo(d, m) = {}
    BY DEF Unlike, EqualTo
  <2>3. IsFiniteSet(1..n) /\ Cardinality(1..n) = n
    <3>1. 1 \in Int /\ n \in Int
      BY <1>1
    <3> HIDE DEF n
    <3>2. /\ IsFiniteSet(1..n)
          /\ Cardinality(1..n) = IF 1 > n THEN 0 ELSE n - 1 + 1
      BY <3>1, FS_Interval
    <3> QED
      BY <1>1, <3>2
  <2>4. IsFiniteSet(EqualTo(d, m)) /\ Cardinality(EqualTo(d, m)) \in Nat
    BY <2>1, <2>3, FS_Subset, FS_CardinalityType
  <2>5. IsFiniteSet(Unlike(d, m, n)) /\ c \in Nat
    BY <1>1, UnlikeFinite
  <2>6. Cardinality({}) = 0
    BY FS_EmptySet
  <2>7. n = c + Cardinality(EqualTo(d, m)) - Cardinality({})
    BY <2>1, <2>2, <2>3, <2>4, <2>5, FS_Union
  <2> QED
    BY <1>1, <2>4, <2>5, <2>6, <2>7
<1> HIDE DEF n, c, off, sq
<1>6. 10 * (c * sq) > 9 * (n * sq)
  <2>1. off * off \in Int /\ c * sq \in Int
    BY <1>4, <1>5
  <2>2. off * off > 9 * (n * sq - off * off)
    BY <1>2, <1>3
  <2> QED
    BY <1>1, <1>4, <2>1, <2>2
<1>7. (10 * c - 9 * n) * sq > 0
  BY <1>1, <1>4, <1>5, <1>6
<1>8. 10 * c - 9 * n > 0
  BY <1>1, <1>4, <1>5, <1>7
<1> QED
  BY <1>1, <1>5, <1>8 DEF n

(* The square lies below its chord.                                        *)
LEMMA ChordStep ==
  ASSUME NEW a \in Nat, NEW b \in Nat, NEW x \in Nat, a =< x, x =< b
  PROVE  x * x =< (a + b) * x - a * b
<1> DEFINE u == x - a  v == b - x
<1>1. u \in Nat /\ v \in Nat
  OBVIOUS
<1>2. u * v = ((a + b) * x - a * b) - x * x
  OBVIOUS
<1> HIDE DEF u, v
<1>3. u * v >= 0
  BY <1>1
<1>4. x * x \in Int /\ (a + b) * x - a * b \in Int
  OBVIOUS
<1> QED
  BY <1>2, <1>3, <1>4

(* So does the sum of the squares.                                         *)
LEMMA Chord ==
  ASSUME NEW d \in Seq(Nat), NEW a \in Nat, NEW b \in Nat,
         \A i \in DOMAIN d : a =< d[i] /\ d[i] =< b
  PROVE  /\ Total(d) \in Int /\ Squares(d) \in Int
         /\ Squares(d) =< (a + b) * Total(d) - Len(d) * (a * b)
<1> DEFINE n == Len(d)
           f == [i \in DOMAIN d |-> d[i] * d[i]]
<1>1. n \in Nat /\ DOMAIN d = 1..n /\ \A i \in 1..n : d[i] \in Nat /\ d[i] \in Int
  OBVIOUS
<1>2. \A i \in 1..n : f[i] = d[i] * d[i] /\ f[i] \in Int
  BY <1>1
<1>3. PICK g \in [0..n -> Int] :
        /\ g[0] = 0 /\ Total(d) = g[n]
        /\ \A i \in 1..n : g[i] = g[i - 1] + d[i]
  BY <1>1, SumIs DEF Total
<1>4. PICK h \in [0..n -> Int] :
        /\ h[0] = 0 /\ Squares(d) = h[n]
        /\ \A i \in 1..n : h[i] = h[i - 1] + d[i] * d[i]
  <2> HIDE DEF f
  <2>1. PICK h \in [0..n -> Int] :
          /\ h[0] = 0 /\ SumTo(f, n) = h[n]
          /\ \A i \in 1..n : h[i] = h[i - 1] + f[i]
    BY <1>1, <1>2, SumIs
  <2> QED
    BY <1>2, <2>1 DEF Squares, f
<1> DEFINE Good(j) == h[j] =< (a + b) * g[j] - j * (a * b)
           S == {j \in 0..n : ~Good(j)}
<1>5. Good(0)
  BY <1>3, <1>4
<1>6. ASSUME NEW j \in 1..n, Good(j - 1)
      PROVE  Good(j)
  <2> DEFINE y == d[j]  t == g[j - 1]  q == h[j - 1]  k == j - 1
  <2>1. /\ y \in Nat /\ a =< y /\ y =< b /\ t \in Int /\ q \in Int /\ k \in Nat
        /\ g[j] = t + y /\ h[j] = q + y * y /\ j = k + 1
    <3>1. j \in 1..n /\ j - 1 \in 0..n /\ j \in DOMAIN d /\ j = k + 1 /\ k \in Nat
      BY <1>1
    <3>2. g[j] = t + y /\ h[j] = q + y * y
      BY <1>3, <1>4, <3>1
    <3>3. t \in Int /\ q \in Int
      BY <3>1
    <3>4. y \in Nat /\ a =< y /\ y =< b
      BY <1>1, <3>1
    <3> QED
      BY <3>1, <3>2, <3>3, <3>4
  <2>2. q =< (a + b) * t - k * (a * b)
    BY <1>6
  <2> HIDE DEF y, t, q, k
  <2>3. y * y =< (a + b) * y - a * b
    BY <2>1, ChordStep
  <2>4. (a + b) * (t + y) - (k + 1) * (a * b)
          = ((a + b) * t - k * (a * b)) + ((a + b) * y - a * b)
    BY <2>1
  <2>5. q + y * y =< (a + b) * (t + y) - (k + 1) * (a * b)
    <3> DEFINE A == (a + b) * t - k * (a * b)  B == (a + b) * y - a * b
               z == y * y
    <3>1. A \in Int /\ B \in Int /\ z \in Int
      BY <2>1
    <3>2. q =< A /\ z =< B
      BY <2>2, <2>3
    <3> HIDE DEF A, B, z
    <3>3. q + z =< A + B
      BY <2>1, <3>1, <3>2
    <3> QED
      BY <2>4, <3>3 DEF A, B, z
  <2> QED
    BY <2>1, <2>5
<1> HIDE DEF Good
<1>7. S = {}
  <2> SUFFICES ASSUME S # {} PROVE FALSE
    OBVIOUS
  <2>1. PICK j \in S : \A k \in S : j =< k
    <3>1. S \subseteq Nat
      BY <1>1
    <3> QED
      BY <3>1, Least
  <2>2. j # 0
    BY <1>5
  <2>3. j \in 1..n /\ j - 1 \in 0..n /\ j - 1 \notin S
    BY <1>1, <2>1, <2>2
  <2> QED
    BY <1>6, <2>1, <2>3
<1>8. Good(n)
  <2>1. n \in 0..n
    BY <1>1
  <2> QED
    BY <1>7, <2>1
<1>9. Total(d) = g[n] /\ g[n] \in Int /\ Squares(d) = h[n] /\ h[n] \in Int
  BY <1>1, <1>3, <1>4
<1>10. h[n] =< (a + b) * g[n] - n * (a * b)
  BY <1>8 DEF Good
<1> QED
  BY <1>9, <1>10

(* Values within half of the least one are more than three standard        *)
(* deviations from nothing.                                                *)
LEMMA NothingIsFar ==
  ASSUME NEW d \in Seq(Nat), Len(d) > 0,
         NEW a \in Nat \ {0}, NEW b \in Nat, 2 * b =< 3 * a,
         \A i \in DOMAIN d : a =< d[i] /\ d[i] =< b
  PROVE  TooFar(d, 0)
<1> DEFINE n == Len(d)  t == Total(d)  q == Squares(d)
<1>1. n \in Nat /\ n > 0 /\ t \in Int /\ q \in Int
  <2>1. Total(d) \in Int /\ Squares(d) \in Int
    BY Chord
  <2>2. Len(d) \in Nat /\ Len(d) > 0
    OBVIOUS
  <2> QED
    BY <2>1, <2>2
<1>2. q =< (a + b) * t - n * (a * b)
  BY Chord
<1>3. a =< b
  <2>1. 1 \in DOMAIN d /\ d[1] \in Nat
    OBVIOUS
  <2> QED
    BY <2>1
<1>4. TooFar(d, 0) <=> (t - n * 0) * (t - n * 0) > 9 * (n * q - t * t)
  BY DEF TooFar
<1> HIDE DEF n, t, q
<1>5. t - n * 0 = t
  BY <1>1
<1>6. n * q =< n * ((a + b) * t - n * (a * b))
  <2> DEFINE r == (a + b) * t - n * (a * b)
  <2>1. r \in Int
    BY <1>1
  <2>2. q =< r
    BY <1>2
  <2> HIDE DEF r
  <2>3. n * q =< n * r
    BY <1>1, <2>1, <2>2
  <2> QED
    BY <2>3 DEF r
<1> DEFINE u == n * a  w == n * b
<1>7. /\ u \in Nat /\ w \in Nat /\ u > 0 /\ u =< w /\ 2 * w =< 3 * u
  <2>1. u > 0 /\ u \in Nat /\ w \in Nat
    BY <1>1
  <2>2. n * a =< n * b
    BY <1>1, <1>3
  <2>3. n * (2 * b) =< n * (3 * a)
    BY <1>1
  <2>4. n * (2 * b) = 2 * w /\ n * (3 * a) = 3 * u
    BY <1>1
  <2> QED
    BY <2>1, <2>2, <2>3, <2>4
<1>8. n * ((a + b) * t - n * (a * b)) = (u + w) * t - u * w
  BY <1>1
<1> HIDE DEF u, w
<1>9. 10 * (t * t) - 9 * ((u + w) * t - u * w) > 0
  <2> DEFINE k == 20 * t - 9 * (u + w)
             z == 360 * (u * w) - 81 * ((u + w) * (u + w))
             s == 10 * (t * t) - 9 * ((u + w) * t - u * w)
  <2>1. 40 * s = k * k + z
    BY <1>1, <1>7
  <2>2. z > 0
    <3> DEFINE x == w - u
    <3>1. x \in Nat /\ 2 * x =< u /\ w = u + x
      BY <1>7
    <3> HIDE DEF x
    <3>2. 360 * (u * (u + x)) - 81 * ((u + (u + x)) * (u + (u + x)))
            = 36 * (u * u) + 36 * (u * x) - 81 * (x * x)
      BY <1>7, <3>1
    <3>3. u * u > 0 /\ 4 * (x * x) =< u * u /\ u * x >= 2 * (x * x)
      <4>1. u * u > 0
        BY <1>7
      <4>2. (2 * x) * (2 * x) =< u * u
        BY <1>7, <3>1
      <4>3. (2 * x) * x =< u * x
        BY <1>7, <3>1
      <4> QED
        BY <1>7, <3>1, <4>1, <4>2, <4>3
    <3>4. u * u \in Int /\ u * x \in Int /\ x * x \in Int /\ x * x >= 0
      BY <1>7, <3>1
    <3>5. 36 * (u * u) + 36 * (u * x) - 81 * (x * x) > 0
      BY <3>3, <3>4
    <3> QED
      BY <3>1, <3>2, <3>5
  <2>3. k \in Int /\ z \in Int /\ s \in Int
    BY <1>1, <1>7
  <2> HIDE DEF k, z, s
  <2>4. k * k >= 0 /\ k * k \in Int
    BY <2>3
  <2>5. s > 0
    BY <2>1, <2>2, <2>3, <2>4
  <2> QED
    BY <2>5 DEF s
<1>10. t * t > 9 * (n * q - t * t)
  <2> DEFINE r == (u + w) * t - u * w  x == t * t  y == n * q
  <2>1. r \in Int /\ x \in Int /\ y \in Int
    BY <1>1, <1>7
  <2>2. y =< r
    BY <1>6, <1>8
  <2>3. 10 * x - 9 * r > 0
    BY <1>9
  <2> HIDE DEF r, x, y
  <2>4. x > 9 * (y - x)
    BY <2>1, <2>2, <2>3
  <2> QED
    BY <2>4 DEF x, y
<1> QED
  BY <1>4, <1>5, <1>10

-----------------------------------------------------------------------------
(* Counting the places of a history.                                       *)

(* The first n places.                                                     *)
LEMMA Interval ==
  ASSUME NEW n \in Nat
  PROVE  IsFiniteSet(1..n) /\ Cardinality(1..n) = n
<1>1. 1 \in Int /\ n \in Int
  OBVIOUS
<1>2. /\ IsFiniteSet(1..n)
      /\ Cardinality(1..n) = IF 1 > n THEN 0 ELSE n - 1 + 1
  BY <1>1, FS_Interval
<1> QED
  BY <1>2

(* Sets of places are finite,                                              *)
LEMMA Places ==
  ASSUME NEW n \in Nat, NEW S \in SUBSET (1..n)
  PROVE  IsFiniteSet(S) /\ Cardinality(S) \in 0..n
<1>1. IsFiniteSet(1..n) /\ Cardinality(1..n) = n
  BY Interval
<1>2. IsFiniteSet(S) /\ Cardinality(S) =< n
  BY <1>1, FS_Subset, Zenon
<1>3. Cardinality(S) \in Nat
  BY <1>2, FS_CardinalityType
<1> QED
  BY <1>2, <1>3

(* grow with what they include,                                            *)
LEMMA Included ==
  ASSUME NEW n \in Nat, NEW S \in SUBSET (1..n), NEW T \in SUBSET S
  PROVE  Cardinality(T) =< Cardinality(S)
<1>1. IsFiniteSet(S)
  BY Places
<1> QED
  BY <1>1, FS_Subset

(* and add up when they are disjoint.                                      *)
LEMMA Disjoint ==
  ASSUME NEW n \in Nat, NEW S \in SUBSET (1..n), NEW T \in SUBSET (1..n),
         S \cap T = {}
  PROVE  Cardinality(S \cup T) = Cardinality(S) + Cardinality(T)
<1>1. /\ IsFiniteSet(S) /\ Cardinality(S) \in Nat
      /\ IsFiniteSet(T) /\ Cardinality(T) \in Nat
  BY Places
<1>2. Cardinality({}) = 0
  BY FS_EmptySet
<1>3. Cardinality(S \cup T) = Cardinality(S) + Cardinality(T) - Cardinality({})
  BY <1>1, FS_Union
<1> QED
  BY <1>1, <1>2, <1>3

(* Values of a history up to x.                                            *)
UpTo(d, x) == Cardinality({i \in DOMAIN d : d[i] =< x})

(* Their number is one of places, and grows with x.                        *)
LEMMA UpToType ==
  ASSUME NEW d \in Seq(Nat), NEW x \in Int
  PROVE  /\ UpTo(d, x) \in 0..Len(d)
         /\ \A y \in Int : y =< x => UpTo(d, y) =< UpTo(d, x)
<1>1. Len(d) \in Nat /\ DOMAIN d = 1..Len(d)
  OBVIOUS
<1> DEFINE S(y) == {i \in DOMAIN d : d[i] =< y}
<1>2. S(x) \in SUBSET (1..Len(d))
  BY <1>1
<1>3. ASSUME NEW y \in Int, y =< x
      PROVE  S(y) \in SUBSET S(x)
  BY <1>1, <1>3
<1> HIDE DEF S
<1>4. Cardinality(S(x)) \in 0..Len(d)
  BY <1>1, <1>2, Places
<1>5. ASSUME NEW y \in Int, y =< x
      PROVE  Cardinality(S(y)) =< Cardinality(S(x))
  BY <1>1, <1>2, <1>3, <1>5, Included
<1> QED
  BY <1>4, <1>5 DEF UpTo, S

(* A history is finite and has an upper bound.                             *)
LEMMA BoundedBy ==
  ASSUME NEW d \in Seq(Nat)
  PROVE  \E b \in Nat : \A i \in DOMAIN d : d[i] =< b
<1> DEFINE Bounded(n) == \E b \in Nat : \A i \in 1..n : d[i] =< b
           Bad == {n \in 0..Len(d) : ~Bounded(n)}
<1>1. ASSUME NEW n \in 0..Len(d), n > 0, Bounded(n - 1)
      PROVE  Bounded(n)
  <2>1. PICK b \in Nat : \A i \in 1..n-1 : d[i] =< b
    BY <1>1
  <2>2. n \in 1..Len(d) /\ d[n] \in Nat
    BY <1>1
  <2>3. b + d[n] \in Nat /\ d[n] =< b + d[n]
    BY <2>2
  <2>4. ASSUME NEW i \in 1..n
        PROVE  d[i] =< b + d[n]
    <3>1. i = n \/ i \in 1..n-1
      BY <2>2
    <3>2. d[i] \in Nat
      BY <2>2
    <3> QED
      BY <2>1, <2>2, <3>1, <3>2
  <2> QED
    BY <2>3, <2>4
<1>2. Bounded(0)
  <2>1. \A i \in 1..0 : d[i] =< 0
    OBVIOUS
  <2> QED
    BY <2>1
<1> HIDE DEF Bounded
<1>3. Bad = {}
  <2> SUFFICES ASSUME Bad # {} PROVE FALSE
    OBVIOUS
  <2>1. PICK n \in Bad : \A k \in Bad : n =< k
    <3>1. Bad \subseteq Nat
      OBVIOUS
    <3> QED
      BY <3>1, Least
  <2>2. n # 0
    BY <1>2
  <2>3. n - 1 \in 0..Len(d) /\ n - 1 \notin Bad
    BY <2>1, <2>2
  <2> QED
    BY <1>1, <2>2, <2>3
<1>4. Len(d) \in 0..Len(d) /\ DOMAIN d = 1..Len(d)
  OBVIOUS
<1> QED
  BY <1>3, <1>4 DEF Bounded

(* What sorting does to a place: it gets a value of the history that is at *)
(* most x just when at least so many values are.                           *)
LEMMA SortedPlace ==
  ASSUME NEW d \in Seq(Nat), NEW i \in DOMAIN d
  PROVE  /\ Sorted(d)[i] \in Range(d)
         /\ \A x \in Nat : Sorted(d)[i] =< x <=> i =< UpTo(d, x)
<1> DEFINE S == {x \in Range(d) : i =< UpTo(d, x)}
           m == Sorted(d)[i]
<1>1. Range(d) \subseteq Nat /\ i \in Nat /\ i >= 1 /\ i =< Len(d)
  BY DEF Range
<1>2. /\ DOMAIN AtMost(d) = Range(d)
      /\ \A x \in Range(d) : AtMost(d)[x] = UpTo(d, x)
  BY DEF AtMost, UpTo
<1>3. m = Min(S)
  BY <1>2 DEF Sorted
<1>4. ASSUME NEW x \in Nat, i =< UpTo(d, x)
      PROVE  \E y \in S : y =< x
  <2> DEFINE T == {y \in Range(d) : y =< x}
  <2>1. T # {}
    <3> SUFFICES ASSUME T = {} PROVE FALSE
      OBVIOUS
    <3>1. {j \in DOMAIN d : d[j] =< x} = {}
      BY DEF Range
    <3>2. UpTo(d, x) = Cardinality({})
      BY <3>1 DEF UpTo
    <3>3. Cardinality({}) = 0
      BY FS_EmptySet
    <3> QED
      BY <1>1, <1>4, <3>2, <3>3
  <2>2. PICK y \in T : \A k \in T : k =< y
    BY <1>1, <2>1, Greatest
  <2>3. {j \in DOMAIN d : d[j] =< x} = {j \in DOMAIN d : d[j] =< y}
    BY <1>1, <2>2 DEF Range
  <2>4. UpTo(d, y) = UpTo(d, x)
    BY <2>3 DEF UpTo
  <2> QED
    BY <1>4, <2>2, <2>4
<1>5. S # {}
  <2>1. PICK b \in Nat : \A j \in DOMAIN d : d[j] =< b
    BY BoundedBy
  <2>2. {j \in DOMAIN d : d[j] =< b} = 1..Len(d)
    BY <2>1
  <2>3. UpTo(d, b) = Len(d)
    <3>1. UpTo(d, b) = Cardinality(1..Len(d))
      BY <2>2 DEF UpTo
    <3> QED
      BY <3>1, Interval
  <2> QED
    BY <1>1, <1>4, <2>3
<1>6. m \in S /\ \A y \in S : m =< y
  <2>1. S \subseteq Nat
    BY <1>1
  <2> HIDE DEF S
  <2>2. \E x \in S : \A y \in S : x =< y
    BY <1>5, <2>1, Least
  <2> QED
    BY <1>3, <2>2 DEF Min
<1> HIDE DEF m
<1>7. ASSUME NEW x \in Nat
      PROVE  m =< x <=> i =< UpTo(d, x)
  <2>1. m \in Nat /\ m \in Int /\ x \in Int
    BY <1>1, <1>6
  <2>2. CASE m =< x
    <3>1. UpTo(d, m) =< UpTo(d, x)
      BY <2>1, <2>2, UpToType
    <3>2. UpTo(d, m) \in 0..Len(d) /\ UpTo(d, x) \in 0..Len(d)
      BY <2>1, UpToType
    <3>3. i =< UpTo(d, m)
      BY <1>6
    <3> QED
      BY <1>1, <2>2, <3>1, <3>2, <3>3
  <2>3. CASE i =< UpTo(d, x)
    <3>1. PICK y \in S : y =< x
      BY <1>4, <2>3
    <3> QED
      BY <1>1, <1>6, <2>1, <2>3, <3>1
  <2> QED
    BY <2>2, <2>3
<1> QED
  BY <1>6, <1>7 DEF m

(* A function on the first m places is a sequence.                         *)
LEMMA AsSequence ==
  ASSUME NEW V, NEW p, NEW m \in Nat,
         p = [i \in 1..m |-> p[i]], \A i \in 1..m : p[i] \in V
  PROVE  p \in Seq(V) /\ Len(p) = m
OBVIOUS

(* A sequence over a set is one over every larger set.                     *)
LEMMA Wider ==
  ASSUME NEW V, NEW W, V \subseteq W, NEW d \in Seq(V)
  PROVE  d \in Seq(W)
<1>1. \A i \in 1..Len(d) : d[i] \in W
  OBVIOUS
<1>2. d = [i \in 1..Len(d) |-> d[i]] /\ Len(d) \in Nat
  OBVIOUS
<1> QED
  BY <1>1, <1>2

(* Sorting keeps the values and their number.                              *)
LEMMA SortedType ==
  ASSUME NEW V, V \subseteq Nat, NEW d \in Seq(V)
  PROVE  Sorted(d) \in Seq(V) /\ Len(Sorted(d)) = Len(d)
<1>1. d \in Seq(Nat) /\ Range(d) \subseteq V
  <2>1. d \in Seq(Nat)
    BY Wider
  <2>2. Range(d) \subseteq V
    BY DEF Range
  <2> QED
    BY <2>1, <2>2
<1>2. \A i \in DOMAIN d : Sorted(d)[i] \in V
  BY <1>1, SortedPlace
<1>3. DOMAIN d = 1..Len(d) /\ Len(d) \in Nat
  OBVIOUS
<1>4. Sorted(d) = [i \in 1..Len(d) |-> Sorted(d)[i]]
  BY <1>3 DEF Sorted
<1> DEFINE s == Sorted(d)  n == Len(d)
<1>5. s = [i \in 1..n |-> s[i]] /\ n \in Nat /\ \A i \in 1..n : s[i] \in V
  BY <1>2, <1>3, <1>4
<1> HIDE DEF s, n
<1>6. s \in Seq(V) /\ Len(s) = n
  BY <1>5
<1> QED
  BY <1>6 DEF s, n

(* A sorted history has the values up to x in its first places.            *)
Ordered(d) == \A x \in Nat : {i \in DOMAIN d : d[i] =< x} = 1..UpTo(d, x)

(* Sorting leaves every value in its place and changes no count.           *)
LEMMA SortedOrdered ==
  ASSUME NEW d \in Seq(Nat)
  PROVE  /\ Ordered(Sorted(d))
         /\ \A x \in Nat : UpTo(Sorted(d), x) = UpTo(d, x)
<1>1. ASSUME NEW x \in Nat
      PROVE  /\ {i \in DOMAIN Sorted(d) : Sorted(d)[i] =< x} = 1..UpTo(d, x)
             /\ UpTo(Sorted(d), x) = UpTo(d, x)
  <2>1. DOMAIN Sorted(d) = 1..Len(d) /\ DOMAIN d = 1..Len(d) /\ Len(d) \in Nat
    BY DEF Sorted
  <2>2. UpTo(d, x) \in 0..Len(d)
    BY UpToType
  <2>3. \A i \in DOMAIN d : Sorted(d)[i] =< x <=> i =< UpTo(d, x)
    BY SortedPlace
  <2>4. {i \in DOMAIN Sorted(d) : Sorted(d)[i] =< x} = 1..UpTo(d, x)
    BY <2>1, <2>2, <2>3
  <2>5. UpTo(Sorted(d), x) = Cardinality(1..UpTo(d, x))
    BY <2>4 DEF UpTo
  <2> QED
    BY <2>2, <2>4, <2>5, Interval
<1> QED
  BY <1>1 DEF Ordered

(* How often a value occurs.                                               *)
LEMMA EqualCount ==
  ASSUME NEW d \in Seq(Nat), NEW m \in Nat \ {0}
  PROVE  Cardinality(EqualTo(d, m)) = UpTo(d, m) - UpTo(d, m - 1)
<1> DEFINE S == {i \in DOMAIN d : d[i] =< m - 1}
<1>1. Len(d) \in Nat /\ DOMAIN d = 1..Len(d)
  OBVIOUS
<1>2. EqualTo(d, m) \in SUBSET (1..Len(d)) /\ S \in SUBSET (1..Len(d))
  BY <1>1 DEF EqualTo
<1>3. S \cap EqualTo(d, m) = {}
  BY DEF EqualTo
<1>4. {i \in DOMAIN d : d[i] =< m} = S \cup EqualTo(d, m)
  BY DEF EqualTo
<1>5. /\ UpTo(d, m - 1) = Cardinality(S)
      /\ UpTo(d, m) = Cardinality(S \cup EqualTo(d, m))
  BY <1>4 DEF UpTo
<1> HIDE DEF S
<1>6. Cardinality(S) \in Nat /\ Cardinality(EqualTo(d, m)) \in Nat
  BY <1>1, <1>2, Places
<1>7. Cardinality(S \cup EqualTo(d, m)) =
        Cardinality(S) + Cardinality(EqualTo(d, m))
  BY <1>1, <1>2, <1>3, Disjoint
<1> QED
  BY <1>5, <1>6, <1>7

-----------------------------------------------------------------------------
(* The discharge times of an update, at most one of them disturbed.        *)
Sample(n, v, w) == [i \in 1..n |-> IF i = 1 THEN v ELSE w]

(* They are readings.                                                      *)
LEMMA SampleType ==
  ASSUME NEW V, NEW n \in Nat, NEW v \in V, NEW w \in V
  PROVE  /\ Sample(n, v, w) \in Seq(V) /\ Len(Sample(n, v, w)) = n
         /\ DOMAIN Sample(n, v, w) = 1..n
BY DEF Sample

(* The disturbed one may be below or above the water, never both.          *)
LEMMA SampleCounts ==
  ASSUME NEW n \in Nat, n >= 1, NEW v \in Nat, NEW w \in Nat \ {0}
  PROVE  /\ UpTo(Sample(n, v, w), w - 1) = IF v < w THEN 1 ELSE 0
         /\ UpTo(Sample(n, v, w), w) = n - IF v > w THEN 1 ELSE 0
<1> DEFINE rs == Sample(n, v, w)
<1>1. DOMAIN rs = 1..n
  BY DEF Sample
<1>2. \A i \in 1..n : rs[i] = IF i = 1 THEN v ELSE w
  BY DEF Sample
<1> HIDE DEF rs
<1>3. UpTo(rs, w - 1) = IF v < w THEN 1 ELSE 0
  <2>1. {i \in DOMAIN rs : rs[i] =< w - 1} = IF v < w THEN {1} ELSE {}
    BY <1>1, <1>2
  <2> QED
    BY <2>1, FS_Singleton, FS_EmptySet DEF UpTo
<1>4. UpTo(rs, w) = n - IF v > w THEN 1 ELSE 0
  <2>1. CASE v =< w
    <3>1. {i \in DOMAIN rs : rs[i] =< w} = 1..n
      BY <1>1, <1>2, <2>1
    <3>2. UpTo(rs, w) = Cardinality(1..n)
      BY <3>1 DEF UpTo
    <3> QED
      BY <2>1, <3>2, Interval
  <2>2. CASE v > w
    <3> DEFINE S == {i \in DOMAIN rs : rs[i] =< w}
    <3>1. S \in SUBSET (1..n) /\ S \cup {1} = 1..n /\ 1 \notin S
      BY <1>1, <1>2, <2>2
    <3> HIDE DEF S
    <3>2. IsFiniteSet(S) /\ Cardinality(S) \in Nat
      BY <3>1, Places
    <3>3. Cardinality(1..n) = Cardinality(S) + 1
      BY <3>1, <3>2, FS_AddElement
    <3>4. Cardinality(1..n) = n
      BY Interval
    <3> QED
      BY <2>2, <3>2, <3>3, <3>4 DEF UpTo, S
  <2> QED
    BY <2>1, <2>2
<1> QED
  BY <1>3, <1>4 DEF rs

(* The median of three readings or more is what the water reads,           *)
LEMMA SampleMedian ==
  ASSUME NEW n \in Nat, n >= 3, NEW v \in Nat, NEW w \in Nat \ {0}
  PROVE  Median(Sample(n, v, w)) = w
<1> DEFINE rs == Sample(n, v, w)
           k == (n \div 2) + 1
<1>1. w \in Nat
  OBVIOUS
<1>2. rs \in Seq(Nat) /\ Len(rs) = n /\ DOMAIN rs = 1..n
  BY <1>1 DEF Sample
<1>3. k \in Nat /\ 2 =< k /\ k =< n - 1
  <2>1. n \div 2 \in Nat /\ 1 =< n \div 2 /\ n \div 2 =< n - 2
    OBVIOUS
  <2> QED
    BY <2>1
<1>4. Median(rs) = Sorted(rs)[k]
  BY <1>2 DEF Median
<1>5. /\ UpTo(rs, w - 1) = IF v < w THEN 1 ELSE 0
      /\ UpTo(rs, w) = n - IF v > w THEN 1 ELSE 0
  BY SampleCounts
<1>6. k \in DOMAIN rs /\ w - 1 \in Nat
  BY <1>2, <1>3
<1> HIDE DEF rs, k
<1>7. /\ Sorted(rs)[k] \in Range(rs)
      /\ Sorted(rs)[k] =< w <=> k =< UpTo(rs, w)
      /\ Sorted(rs)[k] =< w - 1 <=> k =< UpTo(rs, w - 1)
  BY <1>2, <1>6, SortedPlace
<1>8. Sorted(rs)[k] \in Nat
  BY <1>2, <1>7 DEF Range
<1>9. Sorted(rs)[k] =< w /\ ~(Sorted(rs)[k] =< w - 1)
  BY <1>3, <1>5, <1>7
<1> QED
  BY <1>4, <1>8, <1>9 DEF rs

(* and the median of any is one of them.                                   *)
LEMMA MedianIn ==
  ASSUME NEW rs \in Seq(Nat), rs # <<>>
  PROVE  Median(rs) \in Range(rs)
<1> DEFINE k == (Len(rs) \div 2) + 1
<1>1. Len(rs) \in Nat /\ Len(rs) >= 1
  OBVIOUS
<1>2. k \in DOMAIN rs
  <2> DEFINE n == Len(rs)
  <2> HIDE DEF n
  <2>1. n \in Nat /\ n >= 1
    BY <1>1 DEF n
  <2>2. (n \div 2) + 1 \in 1..n
    BY <2>1
  <2> QED
    BY <2>2 DEF n
<1>3. Median(rs) = Sorted(rs)[k]
  BY DEF Median
<1> HIDE DEF k
<1>4. Sorted(rs)[k] \in Range(rs)
  <2>1. 0 \in Nat
    OBVIOUS
  <2> QED
    BY <1>2, <2>1, SortedPlace
<1> QED
  BY <1>3, <1>4

-----------------------------------------------------------------------------
(* Writing to the ring.                                                    *)

(* An index that leaves a ring of n places by less than n wraps around     *)
(* once.                                                                   *)
LEMMA Wrapped ==
  ASSUME NEW a \in Int, NEW n \in Nat \ {0}, -n =< a, a < n
  PROVE  a % n = IF a < 0 THEN a + n ELSE a
<1>1. CASE a < 0
  <2>1. a + n \in 0..n-1 /\ a = n * (-1) + (a + n)
    BY <1>1
  <2> QED
    BY <1>1, <2>1
<1>2. CASE a >= 0
  BY <1>2
<1> QED
  BY <1>1, <1>2

(* The smaller of two.                                                     *)
LEMMA Smaller ==
  ASSUME NEW a \in Nat, NEW b \in Nat
  PROVE  Min({a, b}) = IF a =< b THEN a ELSE b
<1> DEFINE m == IF a =< b THEN a ELSE b
<1>1. m \in {a, b} /\ \A y \in {a, b} : m =< y
  OBVIOUS
<1>2. \A x \in {a, b} : (\A y \in {a, b} : x =< y) => x = m
  OBVIOUS
<1> QED
  BY <1>1, <1>2 DEF Min

(* What the ring is, and where it is written next.                         *)
Ring(d, t) ==
  /\ Len(d) =< Size /\ t \in Nat /\ t < Size
  /\ Len(d) < Size => t = Len(d)

Filled(d, n) == IF Len(d) + n < Size THEN Len(d) + n ELSE Size

(* The reading that is written to place i when those after t are.          *)
Reading(i, t) == IF i > t THEN i - t ELSE i - t + Size

LEMMA ReadingIs ==
  ASSUME NEW t \in Nat, t < Size, NEW i \in 1..Size
  PROVE  ((i - 1 - t) % Size) + 1 = Reading(i, t) /\ Reading(i, t) \in 1..Size
<1>1. Size \in Nat \ {0}
  BY ThermometerAssumption DEF ThermometerAssumption
<1> DEFINE a == i - 1 - t
<1>2. a \in Int /\ -Size =< a /\ a < Size
  BY <1>1
<1>3. i > t <=> a >= 0
  BY <1>1
<1>4. Reading(i, t) = (IF a < 0 THEN a + Size ELSE a) + 1
  BY <1>1, <1>3 DEF Reading
<1> HIDE DEF a
<1>5. a % Size = IF a < 0 THEN a + Size ELSE a
  BY <1>1, <1>2, Wrapped
<1> QED
  BY <1>1, <1>2, <1>4, <1>5 DEF a

(* Readings are written to the places after t, around the ring, which it   *)
(* has or gets; the others are kept.                                       *)
LEMMA PushedType ==
  ASSUME NEW V, NEW d \in Seq(V), NEW t, NEW rs \in Seq(V),
         Ring(d, t), Len(rs) =< Size
  PROVE  LET m == Filled(d, Len(rs)) IN
         /\ Pushed(d, t, rs) \in Seq(V) /\ Len(Pushed(d, t, rs)) = m
         /\ \A i \in 1..m :
              Pushed(d, t, rs)[i] =
                IF Reading(i, t) =< Len(rs) THEN rs[Reading(i, t)] ELSE d[i]
         /\ \A i \in 1..m : Reading(i, t) =< Len(rs) \/ i \in 1..Len(d)
         /\ \A i \in 1..Size : Reading(i, t) =< Len(rs) => i \in 1..m
<1> DEFINE n == Len(d)
           k == Len(rs)
           m == Filled(d, k)
           p == Pushed(d, t, rs)
<1>1. /\ Size \in Nat \ {0} /\ n \in Nat /\ k \in Nat /\ k =< Size
      /\ t \in Nat /\ t < Size /\ n =< Size
      /\ n < Size => t = n
  BY ThermometerAssumption DEF ThermometerAssumption, Ring
<1>2. Min({Size, Len(d) + Len(rs)}) = m /\ m \in Nat /\ m =< Size
  <2>1. Min({Size, n + k}) = IF Size =< n + k THEN Size ELSE n + k
    BY <1>1, Smaller
  <2> QED
    BY <1>1, <2>1 DEF Filled
<1>3. \A i \in 1..m : Reading(i, t) =< k \/ i \in 1..n
  BY <1>1 DEF Filled, Reading
<1>9. \A i \in 1..Size : Reading(i, t) =< k => i \in 1..m
  BY <1>1 DEF Filled, Reading
<1>4. ASSUME NEW i \in 1..m
      PROVE  /\ p[i] = IF Reading(i, t) =< k THEN rs[Reading(i, t)] ELSE d[i]
             /\ Reading(i, t) \in 1..Size
  <2> DEFINE j == (i - 1 - t) % Size
  <2>1. p[i] = IF j < Len(rs) THEN rs[j + 1] ELSE d[i]
    BY <1>2 DEF Pushed
  <2>2. j + 1 = Reading(i, t) /\ Reading(i, t) \in 1..Size
    <3>1. i \in 1..Size
      BY <1>1, <1>2
    <3> QED
      BY <1>1, <3>1, ReadingIs
  <2>3. j \in Int
    BY <1>1
  <2> HIDE DEF j
  <2>4. j < k <=> Reading(i, t) =< k
    BY <1>1, <2>2, <2>3
  <2> QED
    BY <2>1, <2>2, <2>4
<1>5. p = [i \in 1..m |-> p[i]]
  BY <1>2 DEF Pushed
<1>6. \A i \in 1..m : p[i] \in V
  <2> SUFFICES ASSUME NEW i \in 1..m PROVE p[i] \in V
    OBVIOUS
  <2>1. CASE Reading(i, t) =< k
    <3>1. Reading(i, t) \in 1..Len(rs)
      BY <1>1, <1>4, <2>1
    <3> QED
      BY <1>4, <2>1, <3>1
  <2>2. CASE ~(Reading(i, t) =< k)
    BY <1>3, <1>4, <2>2
  <2> QED
    BY <2>1, <2>2
<1>7. m \in Nat
  BY <1>2
<1> HIDE DEF p, m
<1>8. p \in Seq(V) /\ Len(p) = m
  BY <1>5, <1>6, <1>7, AsSequence
<1> QED
  BY <1>3, <1>4, <1>8, <1>9 DEF p, m

(* Without readings nothing is written.                                    *)
LEMMA NothingPushed ==
  ASSUME NEW V, NEW d \in Seq(V), NEW t \in Int, Len(d) =< Size
  PROVE  Pushed(d, t, <<>>) = d
<1>1. Size \in Nat \ {0} /\ Len(d) \in Nat /\ d = [i \in 1..Len(d) |-> d[i]]
  BY ThermometerAssumption DEF ThermometerAssumption
<1>2. Min({Size, Len(d) + Len(<<>>)}) = Len(d)
  <2>1. Min({Size, Len(d)}) = IF Size =< Len(d) THEN Size ELSE Len(d)
    BY <1>1, Smaller
  <2> QED
    BY <1>1, <2>1
<1>3. \A i \in 1..Len(d) : ~((i - 1 - t) % Size < Len(<<>>))
  BY <1>1
<1>4. Pushed(d, t, <<>>) = [i \in 1..Len(d) |-> d[i]]
  BY <1>2, <1>3 DEF Pushed
<1> QED
  BY <1>1, <1>4

(* What is left of the first c places when a full update is written to     *)
(* those after t, which may go across the end of the ring.                 *)
Ahead(c, t) == IF c =< t THEN c ELSE IF c =< t + Reads THEN t ELSE c - Reads
Across(c, t) ==
  IF c =< t + Reads - Size THEN 0
  ELSE IF c =< t THEN c - (t + Reads - Size) ELSE Size - Reads
Kept(c, t) == IF t + Reads =< Size THEN Ahead(c, t) ELSE Across(c, t)

(* Of the first c places, Kept(c, t) are not written.                      *)
LEMMA KeptCount ==
  ASSUME NEW c \in Nat, c =< Size, NEW t \in Nat, t < Size
  PROVE  Cardinality({i \in 1..c : ~(Reading(i, t) =< Reads)}) = Kept(c, t)
<1> DEFINE B == {i \in 1..c : ~(Reading(i, t) =< Reads)}
<1>1. Size \in Nat /\ Reads \in Nat /\ Reads =< Size
  BY ThermometerAssumption DEF ThermometerAssumption
<1>2. CASE t + Reads =< Size /\ c =< t
  <2>1. B = 1..c
    BY <1>1, <1>2 DEF Reading
  <2>2. Cardinality(1..c) = c
    BY Interval
  <2> QED
    BY <1>2, <2>1, <2>2 DEF Kept, Ahead
<1>3. CASE t + Reads =< Size /\ t < c /\ c =< t + Reads
  <2>1. B = 1..t
    BY <1>1, <1>3 DEF Reading
  <2>2. Cardinality(1..t) = t
    BY Interval
  <2>3. Kept(c, t) = t
    BY <1>1, <1>3 DEF Kept, Ahead
  <2> QED
    BY <2>1, <2>2, <2>3, Zenon
<1>4. CASE t + Reads =< Size /\ c > t + Reads
  <2> DEFINE W == t+1..t+Reads
  <2>1. /\ B \in SUBSET (1..c) /\ W \in SUBSET (1..c)
        /\ B \cup W = 1..c /\ B \cap W = {}
    BY <1>1, <1>4 DEF Reading
  <2>2. Cardinality(W) = Reads
    <3>1. t + 1 \in Int /\ t + Reads \in Int
      BY <1>1
    <3>2. Cardinality(W) =
            IF t + 1 > t + Reads THEN 0 ELSE (t + Reads) - (t + 1) + 1
      BY <3>1, FS_Interval
    <3> QED
      BY <1>1, <3>2
  <2> HIDE DEF B, W
  <2>3. Cardinality(B) \in Nat
    BY <2>1, Places
  <2>4. Cardinality(1..c) = Cardinality(B) + Cardinality(W)
    <3>1. Cardinality(B \cup W) = Cardinality(B) + Cardinality(W)
      <4>1. B \in SUBSET (1..c) /\ W \in SUBSET (1..c) /\ B \cap W = {}
        BY <2>1
      <4> QED
        BY <4>1, Disjoint
    <3> QED
      BY <2>1, <3>1
  <2>5. Cardinality(1..c) = c
    BY Interval
  <2>6. Cardinality(B) = c - Reads
    BY <1>1, <2>2, <2>3, <2>4, <2>5
  <2> QED
    BY <1>1, <1>4, <2>6 DEF Kept, Ahead, B
<1>5. CASE ~(t + Reads =< Size)
  <2> DEFINE b == t + Reads - Size
             f == IF c =< t THEN c ELSE t
  <2>1. b \in Nat /\ f \in Nat /\ b =< t
    BY <1>1, <1>5
  <2>2. B = b+1..f
    BY <1>1, <1>5 DEF Reading
  <2> HIDE DEF b, f
  <2>3. Cardinality(b+1..f) = IF b + 1 > f THEN 0 ELSE f - (b + 1) + 1
    BY <2>1, FS_Interval
  <2> QED
    BY <1>1, <1>5, <2>1, <2>2, <2>3 DEF Kept, Across, b, f
<1> QED
  BY <1>1, <1>2, <1>3, <1>4, <1>5

(* The readings that were written are counted where they are.              *)
LEMMA ShiftedCount ==
  ASSUME NEW rs \in Seq(Nat), Len(rs) =< Size, NEW t \in Nat, t < Size,
         NEW x \in Nat
  PROVE  Cardinality({i \in 1..Size : /\ Reading(i, t) =< Len(rs)
                                      /\ rs[Reading(i, t)] =< x}) = UpTo(rs, x)
<1> DEFINE n == Len(rs)
           S == {j \in DOMAIN rs : rs[j] =< x}
           A == {i \in 1..Size : Reading(i, t) =< n /\ rs[Reading(i, t)] =< x}
           at(j) == IF t + j =< Size THEN t + j ELSE t + j - Size
           f == [j \in S |-> at(j)]
<1>1. n \in Nat /\ DOMAIN rs = 1..n /\ Size \in Nat /\ n =< Size
  BY ThermometerAssumption DEF ThermometerAssumption
<1>2. \A j \in 1..n : at(j) \in 1..Size /\ Reading(at(j), t) = j
  BY <1>1 DEF Reading
<1>3. \A i \in 1..Size : Reading(i, t) \in 1..Size /\ at(Reading(i, t)) = i
  BY <1>1 DEF Reading
<1>4. IsFiniteSet(S)
  <2>1. S \in SUBSET (1..n)
    BY <1>1
  <2> QED
    BY <1>1, <2>1, Places
<1>5. S \subseteq 1..n /\ \A j \in 1..n : j \in S <=> rs[j] =< x
  BY <1>1
<1> HIDE DEF at, S
<1>6. \A j \in S : at(j) \in A
  <2> SUFFICES ASSUME NEW j \in S PROVE at(j) \in A
    OBVIOUS
  <2>1. j \in 1..n /\ rs[j] =< x
    BY <1>5
  <2>2. at(j) \in 1..Size /\ Reading(at(j), t) = j /\ j =< n
    BY <1>1, <1>2, <2>1
  <2> QED
    BY <2>1, <2>2
<1>7. \A i \in A : Reading(i, t) \in S /\ at(Reading(i, t)) = i
  <2> SUFFICES ASSUME NEW i \in A
               PROVE  Reading(i, t) \in S /\ at(Reading(i, t)) = i
    OBVIOUS
  <2>1. Reading(i, t) \in 1..n
    BY <1>1, <1>3
  <2> QED
    BY <1>3, <1>5, <2>1
<1> HIDE DEF A
<1>8. f \in [S -> A]
  BY <1>6
<1>9. \A j, k \in S : f[j] = f[k] => j = k
  <2> SUFFICES ASSUME NEW j \in S, NEW k \in S, at(j) = at(k) PROVE j = k
    OBVIOUS
  <2> QED
    BY <1>2, <1>5
<1>10. \A i \in A : \E j \in S : f[j] = i
  BY <1>7
<1>11. f \in Bijection(S, A)
  BY <1>8, <1>9, <1>10 DEF Bijection, Injection, IsInjective, Surjection
<1>12. Cardinality(A) = Cardinality(S)
  BY <1>4, <1>11, FS_Bijection DEF ExistsBijection
<1> QED
  BY <1>12 DEF A, S, UpTo

(* The values up to x after an update: those that were kept and those of   *)
(* the update.                                                             *)
LEMMA PushedCounts ==
  ASSUME NEW d \in Seq(Nat), NEW t, NEW rs \in Seq(Nat), NEW x \in Nat,
         Ring(d, t), Ordered(d), Len(rs) = Reads
  PROVE  /\ UpTo(Pushed(d, t, rs), x) = Kept(UpTo(d, x), t) + UpTo(rs, x)
         /\ Kept(UpTo(d, x), t) \in Nat
<1> DEFINE p == Pushed(d, t, rs)
           m == Filled(d, Reads)
           n == Len(d)
           c == UpTo(d, x)
           A == {i \in 1..Size : Reading(i, t) =< Reads /\ rs[Reading(i, t)] =< x}
           B == {i \in 1..c : ~(Reading(i, t) =< Reads)}
<1>1. /\ Size \in Nat \ {0} /\ Reads \in Nat /\ Reads =< Size /\ n \in Nat
      /\ t \in Nat /\ t < Size /\ n =< Size
  BY ThermometerAssumption DEF ThermometerAssumption, Ring
<1>2. /\ p \in Seq(Nat) /\ Len(p) = m
      /\ \A i \in 1..m :
           p[i] = IF Reading(i, t) =< Reads THEN rs[Reading(i, t)] ELSE d[i]
      /\ \A i \in 1..m : Reading(i, t) =< Reads \/ i \in 1..n
      /\ \A i \in 1..Size : Reading(i, t) =< Reads => i \in 1..m
  <2> DEFINE k == Len(rs)
  <2>1. k = Reads /\ k =< Size
    BY <1>1
  <2> HIDE DEF p
  <2>2. /\ Pushed(d, t, rs) \in Seq(Nat) /\ Len(Pushed(d, t, rs)) = Filled(d, k)
        /\ \A i \in 1..Filled(d, k) :
             Pushed(d, t, rs)[i] =
               IF Reading(i, t) =< k THEN rs[Reading(i, t)] ELSE d[i]
        /\ \A i \in 1..Filled(d, k) : Reading(i, t) =< k \/ i \in 1..Len(d)
        /\ \A i \in 1..Size : Reading(i, t) =< k => i \in 1..Filled(d, k)
    BY <2>1, PushedType
  <2> HIDE DEF k
  <2> QED
    BY <2>1, <2>2 DEF p
<1>3. c \in 0..n /\ DOMAIN d = 1..n
  <2>1. x \in Int
    OBVIOUS
  <2>2. UpTo(d, x) \in 0..Len(d)
    BY <2>1, UpToType, Zenon
  <2> QED
    BY <2>2
<1>4. m \in Nat /\ m =< Size /\ n =< m
  BY <1>1 DEF Filled
<1>5. {i \in 1..n : d[i] =< x} = 1..c
  BY <1>3 DEF Ordered
<1>7. DOMAIN p = 1..m
  BY <1>2
<1>8. \A i \in 1..n : d[i] =< x <=> i \in 1..c
  BY <1>5
<1> HIDE DEF p, c, n, m
<1>c. 1..c \subseteq 1..m /\ 1..c \subseteq 1..n
  BY <1>1, <1>3, <1>4
<1>m. 1..m \subseteq 1..Size
  BY <1>1, <1>4
<1>9. {i \in DOMAIN p : p[i] =< x} = A \cup B
  <2>1. ASSUME NEW i \in 1..m
        PROVE  p[i] =< x <=> i \in A \cup B
    <3>1. CASE Reading(i, t) =< Reads
      BY <1>2, <1>m, <3>1
    <3>2. CASE ~(Reading(i, t) =< Reads)
      BY <1>2, <1>8, <3>2
    <3> QED
      BY <3>1, <3>2
  <2>2. A \cup B \subseteq 1..m
    BY <1>2, <1>c
  <2> QED
    BY <1>7, <2>1, <2>2
<1>10. Cardinality(A \cup B) = Cardinality(A) + Cardinality(B)
  <2>1. A \in SUBSET (1..m) /\ B \in SUBSET (1..m) /\ A \cap B = {}
    BY <1>2, <1>c
  <2> HIDE DEF A, B
  <2> QED
    BY <1>4, <2>1, Disjoint
<1>11. Cardinality(B) = Kept(c, t)
  <2>1. c \in Nat /\ c =< Size
    BY <1>1, <1>3
  <2> QED
    BY <1>1, <2>1, KeptCount
<1>12. Cardinality(A) = UpTo(rs, x)
  <2>1. Cardinality({i \in 1..Size : /\ Reading(i, t) =< Len(rs)
                                     /\ rs[Reading(i, t)] =< x}) = UpTo(rs, x)
    BY <1>1, ShiftedCount
  <2> QED
    BY <2>1
<1>13. UpTo(p, x) = Cardinality(A \cup B)
  BY <1>9 DEF UpTo
<1>14. Kept(c, t) \in Nat /\ UpTo(rs, x) \in Nat
  <2>x. x \in Int
    OBVIOUS
  <2>1. UpTo(rs, x) \in 0..Len(rs)
    BY <2>x, UpToType, Zenon
  <2>2. c \in Nat
    BY <1>1, <1>3
  <2> QED
    BY <1>1, <2>1, <2>2 DEF Kept, Ahead, Across
<1> HIDE DEF A, B
<1>15. UpTo(p, x) = Kept(c, t) + UpTo(rs, x)
  BY <1>10, <1>11, <1>12, <1>13, <1>14
<1> QED
  BY <1>14, <1>15 DEF p, c

-----------------------------------------------------------------------------
(* The places of one value while the ring is written.                      *)

(* The assumption, as the arithmetic below needs it.                       *)
LEMMA RingSizes ==
  Size \in Nat \ {0} /\ Reads \in Nat /\ Reads >= 3 /\ Reads =< Size
BY ThermometerAssumption DEF ThermometerAssumption

(* In a sorted history a value has the places l+1..e; t is the last place  *)
(* before those that are written next.  The writing is within the places   *)
(* when it has passed some of them and not yet others.                     *)
Within(l, e, t) == l < t /\ t < e
(* What counts of the places as a mark that the updates have left: all of  *)
(* them or, while the writing is within them, those it has passed.         *)
Mark(l, e, t) == IF Within(l, e, t) THEN t - l ELSE e - l

(* The writing is about to enter the places: if a disturbed reading has    *)
(* just been written in front of them, the mark misses one.                *)
Lag(l, t) == IF l = t THEN 1 ELSE 0

(* When the writing is outside the places, how far they have grown and     *)
(* moved, in proportion to what is left of the pass of the ring.           *)
Spare(l, e, t) == 2 * Reads * (e - l) + (Reads - 1) * l
                   + (IF l < t THEN 2 * (Reads - 1) * (Size - t)
                      ELSE -((Reads - 1) * t))
(* When it is within them, what of them will be left after it.             *)
Rest(l, e, t) == Reads * (e - l) - (e - t)
(* Places that will be at least a tenth of the history when the writing    *)
(* has passed through them.  What is taken off is lost where an update     *)
(* goes across the end of the ring.                                        *)
Safe(l, e, t) ==
  IF Within(l, e, t)
  THEN 2 * Reads * Rest(l, e, t) >= (Reads - 1) * (Reads - 1) * Size - 2 * (Reads - 1)
  ELSE Spare(l, e, t) >= (Reads - 1) * Size - (IF l < t THEN 0 ELSE 2)

(* An update that leaves the places where they are in the ring adds all    *)
(* its readings but the disturbed one to the mark,                         *)
Passes(l, e, t, l2, e2, s) ==
  /\ l # t
  /\ Mark(l2, e2, s) >= Mark(l, e, t) + Reads - 1
  /\ Within(l, e, t) \/ Safe(l, e, t) => Within(l2, e2, s) \/ Safe(l2, e2, s)
  /\ Safe(l, e, t) /\ 10 * (e - l) >= Size
       => Safe(l2, e2, s) /\ 10 * (e2 - l2) >= Size

(* and one that enters them leaves a mark of that size, or makes them      *)
(* longer; if they were safe they are a tenth of the history then.         *)
Enters(l, e, t, l2, e2, s) ==
  /\ \/ Within(l2, e2, s) \/ Safe(l2, e2, s)
     \/ l2 = s /\ e2 - l2 + 1 >= Mark(l, e, t) + Reads - 1 + Lag(l, t)
  /\ \/ 10 * (e2 - l2) >= Size
     \/ Mark(l2, e2, s) >= Reads - 1
     \/ Mark(l2, e2, s) + (e2 - l2) + 1 >= Mark(l, e, t) + Reads - 1 + Lag(l, t)
  /\ Within(l, e, t) \/ Safe(l, e, t)
       => Safe(l2, e2, s) /\ 10 * (e2 - l2) >= Size

(* How far the water is from being accepted.  Until the writing has        *)
(* entered its places the refused updates have left their mark in them,    *)
(* which is less than a tenth of the history,                              *)
First(l, e, t, m) ==
  /\ (Reads - 1) * m =< Few + Lag(l, t)
  /\ Mark(l, e, t) + Lag(l, t) >= (Reads - 1) * m

(* after it, as much again may be refused,                                 *)
Second(l, e, t, m) ==
  /\ (Reads - 1) * m =< 2 * Few + 1
  /\ Mark(l, e, t) + Few + 1 >= (Reads - 1) * m
  /\ Within(l, e, t) \/ Safe(l, e, t)

(* and from the second time on nothing, since it has a tenth.              *)
Third(l, e, t, m) ==
  /\ (Reads - 1) * m =< 2 * Few + 1
  /\ 10 * (e - l) >= Size /\ Safe(l, e, t)

Progress(l, e, t, m) ==
  First(l, e, t, m) \/ Second(l, e, t, m) \/ Third(l, e, t, m)

(* Few is the greatest number that is less than a tenth of the history.    *)
LEMMA FewBound == Few \in Nat /\ \A x \in Int : 10 * x < Size => x =< Few
<1>1. Size - 1 \in Nat
  BY RingSizes
<1> DEFINE a == Size - 1
<1>2. a \div 10 \in Nat /\ a < 10 * (a \div 10) + 10
  <2> HIDE DEF a
  <2> QED
    BY <1>1 DEF a
<1> QED
  BY <1>1, <1>2, RingSizes DEF Few

(* A mark is not longer than the places.                                   *)
LEMMA MarkBound ==
  ASSUME NEW l \in Nat, NEW e \in Nat, NEW t \in Nat, l =< e
  PROVE  Mark(l, e, t) \in Nat /\ Mark(l, e, t) =< e - l
BY DEF Mark, Within

(* Progress is kept by an update: a refusal (n = m + 1) leaves the value   *)
(* less than a tenth of the history.                                       *)
LEMMA ProgressRule ==
  ASSUME NEW l \in Nat, NEW e \in Nat, NEW t \in Nat, l =< e,
         NEW l2 \in Nat, NEW e2 \in Nat, NEW s \in Nat, l2 =< e2,
         Passes(l, e, t, l2, e2, s) \/ Enters(l, e, t, l2, e2, s),
         NEW m \in Nat, NEW n \in Nat, n = m \/ n = m + 1,
         n = m + 1 => 10 * (e2 - l2) < Size,
         Progress(l, e, t, m)
  PROVE  Progress(l2, e2, s, n)
<1> DEFINE g == Reads - 1
           x == g * m  y == g * n
           A == Mark(l, e, t)
           B == Mark(l2, e2, s)
           k == Lag(l, t)  k2 == Lag(l2, s)
           SW == Within(l2, e2, s) \/ Safe(l2, e2, s)
<1>1. /\ g \in Nat /\ g >= 2 /\ x \in Nat /\ y \in Nat /\ Size \in Nat
      /\ (n = m /\ y = x) \/ (n = m + 1 /\ y = x + g)
  <2>1. g \in Nat /\ g >= 2 /\ Size \in Nat
    BY RingSizes
  <2>2. n \in Nat /\ (n = m \/ n = m + 1)
    OBVIOUS
  <2> HIDE DEF g
  <2>3. g * m \in Nat /\ g * n \in Nat
    BY <2>1, <2>2
  <2>4. n = m + 1 => g * n = g * m + g
    BY <2>1, <2>2
  <2>5. n = m => g * n = g * m
    OBVIOUS
  <2> HIDE DEF x, y
  <2>6. x \in Nat /\ y \in Nat /\ (n = m => y = x) /\ (n = m + 1 => y = x + g)
    BY <2>3, <2>4, <2>5 DEF x, y
  <2> QED
    BY <2>1, <2>2, <2>6
<1>2. /\ A \in Nat /\ B \in Nat /\ A =< e - l /\ B =< e2 - l2
  BY MarkBound
<1>3. Few \in Nat /\ (n = m + 1 => e2 - l2 =< Few)
  <2>1. e2 - l2 \in Int
    OBVIOUS
  <2> QED
    BY <2>1, FewBound
<1>4. k \in {0, 1} /\ k2 \in {0, 1} /\ (l # t => k = 0) /\ (l2 = s => k2 = 1)
  BY DEF Lag
<1>5. Progress(l, e, t, m) <=>
        \/ x =< Few + k /\ A + k >= x
        \/ x =< 2 * Few + 1 /\ A + Few + 1 >= x /\ (Within(l, e, t) \/ Safe(l, e, t))
        \/ x =< 2 * Few + 1 /\ 10 * (e - l) >= Size /\ Safe(l, e, t)
  BY DEF Progress, First, Second, Third
<1>6. Progress(l2, e2, s, n) <=>
        \/ y =< Few + k2 /\ B + k2 >= y
        \/ y =< 2 * Few + 1 /\ B + Few + 1 >= y /\ SW
        \/ y =< 2 * Few + 1 /\ 10 * (e2 - l2) >= Size /\ Safe(l2, e2, s)
  BY DEF Progress, First, Second, Third
<1>7. CASE Passes(l, e, t, l2, e2, s)
  <2>1. /\ k = 0 /\ B >= A + g
        /\ Within(l, e, t) \/ Safe(l, e, t) => SW
        /\ Safe(l, e, t) /\ 10 * (e - l) >= Size
             => Safe(l2, e2, s) /\ 10 * (e2 - l2) >= Size
    BY <1>1, <1>2, <1>4, <1>7, RingSizes DEF Passes
  <2> HIDE DEF g, x, y, A, B, k, k2, SW
  <2> QED
    BY <1>1, <1>2, <1>3, <1>4, <1>5, <1>6, <2>1
<1>8. CASE Enters(l, e, t, l2, e2, s)
  <2>1. /\ SW \/ (k2 = 1 /\ B = e2 - l2 /\ e2 - l2 + 1 >= A + g + k)
        /\ 10 * (e2 - l2) >= Size \/ B >= g \/ B + (e2 - l2) + 1 >= A + g + k
        /\ Within(l, e, t) \/ Safe(l, e, t)
             => Safe(l2, e2, s) /\ 10 * (e2 - l2) >= Size
    <3>1. l2 = s => B = e2 - l2 /\ k2 = 1
      BY DEF Mark, Within, Lag
    <3>2. Reads = g + 1 /\ g \in Nat
      BY RingSizes
    <3> QED
      BY <1>1, <1>2, <1>4, <1>8, <3>1, <3>2 DEF Enters
  <2> HIDE DEF g, x, y, A, B, k, k2, SW
  <2> QED
    BY <1>1, <1>2, <1>3, <1>4, <1>5, <1>6, <2>1
<1> QED
  BY <1>7, <1>8

(* It is kept when the index wraps around,                                 *)
LEMMA ProgressWrap ==
  ASSUME NEW l \in Nat, NEW e \in Nat, l =< e, e =< Size, NEW m \in Nat,
         Progress(l, e, Size, m)
  PROVE  Progress(l, e, 0, m)
<1> DEFINE g == Reads - 1  w == 2 * Reads * (e - l)  x == g * m
<1>1. ~Within(l, e, Size) /\ ~Within(l, e, 0)
  BY RingSizes DEF Within
<1>2. Mark(l, e, 0) = e - l /\ Mark(l, e, Size) = e - l
  BY <1>1 DEF Mark
<1>3. /\ g \in Nat /\ g >= 2 /\ w \in Nat /\ Size \in Nat /\ Size > 0
      /\ g * l \in Nat /\ g * Size \in Nat /\ x \in Nat
      /\ x =< 1 => x = 0
  <2>1. g \in Nat /\ g >= 2 /\ Size \in Nat /\ Size > 0 /\ e - l \in Nat
    BY RingSizes
  <2>2. w \in Nat
    BY <2>1, RingSizes
  <2> HIDE DEF g, w
  <2>3. g * l \in Nat /\ g * Size \in Nat /\ g * m \in Nat
    BY <2>1
  <2>4. m > 0 => g * m >= 2
    BY <2>1
  <2>5. m = 0 => g * m = 0
    BY <2>1
  <2> QED
    BY <2>1, <2>2, <2>3, <2>4, <2>5
<1>4. Safe(l, e, Size) => Safe(l, e, 0)
  <2>1. Spare(l, e, 0) = (w + g * l) - g * 0
    BY <1>3 DEF Spare
  <2>2. Safe(l, e, 0) <=> Spare(l, e, 0) >= g * Size - 2
    BY <1>1 DEF Safe
  <2>3. CASE l < Size
    <3>1. Spare(l, e, Size) = (w + g * l) + 2 * g * (Size - Size)
      BY <1>3, <2>3 DEF Spare
    <3>2. Safe(l, e, Size) <=> Spare(l, e, Size) >= g * Size - 0
      BY <1>1, <2>3 DEF Safe
    <3>3. 2 * g * (Size - Size) = 0 /\ g * 0 = 0
      BY <1>3
    <3> HIDE DEF g, w
    <3> QED
      BY <1>3, <2>1, <2>2, <3>1, <3>2, <3>3
  <2>4. CASE ~(l < Size)
    <3>1. l = Size
      BY <1>3, <2>4
    <3>2. g * 0 = 0
      BY <1>3
    <3> HIDE DEF g, w
    <3> QED
      BY <1>3, <2>1, <2>2, <3>1, <3>2
  <2> QED
    BY <2>3, <2>4
<1>5. Few \in Nat
  BY FewBound
<1>6. CASE First(l, e, Size, m)
  <2>1. x =< Few + Lag(l, Size) /\ e - l + Lag(l, Size) >= x
    BY <1>2, <1>6 DEF First
  <2>2. Lag(l, Size) = (IF l = Size THEN 1 ELSE 0) /\ Lag(l, 0) \in {0, 1}
    BY DEF Lag
  <2> HIDE DEF x
  <2>3. x =< Few /\ e - l >= x
    BY <1>3, <1>5, <2>1, <2>2
  <2>4. x =< Few + Lag(l, 0) /\ e - l + Lag(l, 0) >= x
    BY <1>3, <1>5, <2>2, <2>3
  <2> QED
    BY <1>2, <2>4 DEF Progress, First, x
<1>7. CASE Second(l, e, Size, m)
  BY <1>1, <1>2, <1>4, <1>7 DEF Progress, Second
<1>8. CASE Third(l, e, Size, m)
  BY <1>4, <1>8 DEF Progress, Third
<1> QED
  BY <1>6, <1>7, <1>8 DEF Progress

(* holds when nothing has been refused,                                    *)
LEMMA ProgressStart ==
  ASSUME NEW l \in Nat, NEW e \in Nat, NEW t \in Nat, l =< e
  PROVE  Progress(l, e, t, 0)
<1>1. Mark(l, e, t) \in Nat /\ Few \in Nat /\ (Reads - 1) * 0 = 0
  BY MarkBound, FewBound, RingSizes
<1>2. Lag(l, t) \in {0, 1}
  BY DEF Lag
<1> QED
  BY <1>1, <1>2 DEF Progress, First

(* and bounds the refusals.                                                *)
LEMMA ProgressBound ==
  ASSUME NEW l, NEW e, NEW t, NEW m \in Nat, Progress(l, e, t, m)
  PROVE  m =< Patience
<1> DEFINE g == Reads - 1  a == 2 * Few + 1  q == a \div g  r == a % g
<1>1. g \in Nat /\ g >= 2 /\ a \in Nat /\ Few \in Nat
  BY FewBound, RingSizes
<1>2. g * m =< a
  <2>1. Lag(l, t) \in {0, 1}
    BY DEF Lag
  <2>2. g * m \in Int
    BY <1>1
  <2>3. g * m =< Few + Lag(l, t) \/ g * m =< a
    BY DEF Progress, First, Second, Third
  <2> HIDE DEF g
  <2> QED
    BY <1>1, <2>1, <2>2, <2>3
<1>3. Patience = q
  BY DEF Patience
<1> HIDE DEF g, a
<1>4. q \in Int /\ r \in 0..g-1 /\ a = g * q + r
  BY <1>1
<1> HIDE DEF q, r
<1>5. CASE m >= q + 1
  <2>1. g * m >= g * (q + 1)
    BY <1>1, <1>4, <1>5
  <2>2. g * (q + 1) = g * q + g /\ g * q \in Int /\ g * m \in Int
    BY <1>1, <1>4
  <2> QED
    BY <1>1, <1>2, <1>4, <2>1, <2>2
<1> QED
  BY <1>3, <1>4, <1>5

(* There is room for at least one refusal, or none.                        *)
LEMMA PatienceType == Patience \in Nat
<1> DEFINE g == Reads - 1  a == 2 * Few + 1  q == a \div g  r == a % g
<1>1. g \in Nat /\ g >= 2 /\ a \in Nat
  BY FewBound, RingSizes
<1>2. Patience = q
  BY DEF Patience
<1> HIDE DEF g, a
<1>3. q \in Int /\ r \in 0..g-1 /\ a = g * q + r
  BY <1>1
<1> HIDE DEF q, r
<1>4. CASE q =< -1
  <2>1. g * q =< g * (-1) /\ g * (-1) = -g /\ g * q \in Int
    BY <1>1, <1>3, <1>4
  <2> QED
    BY <1>1, <1>3, <2>1
<1> QED
  BY <1>2, <1>3, <1>4

(* The writing enters the places of the value.                             *)
Entry(l, t, lo) == t =< l /\ Ahead(l, t) + lo < t + Reads

(* The places of a value after an update.                                  *)
LEMMA AheadBounds ==
  ASSUME NEW l \in Nat, NEW e \in Nat, NEW t \in Nat,
         l =< e, e =< Size, t + Reads =< Size,
         NEW lo \in {0, 1}, NEW hi \in {0, 1}, lo + hi =< 1
  PROVE  /\ Ahead(l, t) + lo \in Nat /\ Ahead(e, t) + Reads - hi \in Nat
         /\ Ahead(l, t) + lo =< Ahead(e, t) + Reads - hi
         /\ Ahead(e, t) + Reads - hi =< Size
BY RingSizes DEF Ahead

(* Unless the writing enters the places of the water its mark grows by all *)
(* readings of the update but the disturbed one.                           *)
LEMMA Grow ==
  ASSUME NEW l \in Nat, NEW e \in Nat, NEW t \in Nat, l =< e,
         NEW lo \in {0, 1}, NEW hi \in {0, 1}, lo + hi =< 1,
         ~Entry(l, t, lo)
  PROVE  Mark(Ahead(l, t) + lo, Ahead(e, t) + Reads - hi, t + Reads)
           >= Mark(l, e, t) + Reads - 1
BY RingSizes DEF Ahead, Mark, Within, Entry

(* If it enters them they get longer by so much, or the mark is at least   *)
(* that of one update.                                                     *)
LEMMA Enter ==
  ASSUME NEW l \in Nat, NEW e \in Nat, NEW t \in Nat, l =< e,
         NEW lo \in {0, 1}, NEW hi \in {0, 1}, lo + hi =< 1,
         Entry(l, t, lo)
  PROVE  LET l2 == Ahead(l, t) + lo  e2 == Ahead(e, t) + Reads - hi IN
         \/ e2 - l2 >= e - l + Reads - 1
         \/ Mark(l2, e2, t + Reads) >= Reads - 1
BY RingSizes DEF Ahead, Mark, Within, Entry

(* When the writing leaves the places of the value, they are safe.         *)
LEMMA Leave ==
  ASSUME NEW l \in Nat, NEW e \in Nat, NEW t \in Nat, l =< e, l < e, l < t,
         t =< e + 1, t =< Size, e =< t
  PROVE  Safe(l, e, t)
<1> DEFINE w == e - l  g == Reads - 1
<1>1. w \in Nat /\ w >= 1 /\ g \in Nat /\ Reads = g + 1 /\ l >= t - 1 - w
  BY RingSizes
<1>2. g * l >= g * (t - 1 - w) /\ g * (Size - t) >= 0 /\ (g + 1) * w >= g
  <2>1. Size - t \in Nat
    BY RingSizes
  <2> QED
    BY <1>1, <2>1
<1> QED
  BY <1>1, <1>2, RingSizes DEF Safe, Within, Spare

(* An update keeps them safe, and makes them so when the writing was in    *)
(* them or enters them and is outside again.                               *)
LEMMA SafeStep ==
  ASSUME NEW l \in Nat, NEW e \in Nat, NEW t \in Nat,
         l =< e, e =< Size, t + Reads =< Size,
         NEW lo \in {0, 1}, NEW hi \in {0, 1}, lo + hi =< 1,
         NEW l2, NEW e2, NEW s,
         l2 = Ahead(l, t) + lo, e2 = Ahead(e, t) + Reads - hi, s = t + Reads,
         \/ Safe(l, e, t)
         \/ (Within(l, e, t) \/ Entry(l, t, lo)) /\ ~Within(l2, e2, s)
  PROVE  Safe(l2, e2, s)
<1> DEFINE g == Reads - 1
<1>1. /\ g \in Nat /\ Reads = g + 1 /\ g >= 2
      /\ l2 \in Nat /\ e2 \in Nat /\ l2 =< e2 /\ e2 =< Size
      /\ s \in Nat /\ s =< Size
  BY RingSizes DEF Ahead
<1>2. CASE Within(l, e, t) \/ Entry(l, t, lo)
  <2>1. CASE ~Within(l2, e2, s)
    <3>1. l2 < e2 /\ l2 < s /\ s =< e2 + 1 /\ e2 =< s
      BY RingSizes, <1>2, <2>1, <1>1 DEF Ahead, Entry, Within
    <3> QED
      BY <3>1, <1>1, Leave
  <2>2. CASE Within(l2, e2, s) /\ Within(l, e, t)
    <3>1. e > s /\ l2 = l + lo /\ e2 = e - hi
      BY RingSizes, <2>2, <1>1 DEF Ahead, Within
    <3>2. Rest(l2, e2, s) >= Rest(l, e, t)
      BY RingSizes, <1>1, <3>1 DEF Rest
    <3> QED
      BY RingSizes, <1>1, <2>2, <3>2 DEF Safe, Rest
  <2>3. CASE Within(l2, e2, s) /\ Entry(l, t, lo) /\ ~Within(l, e, t)
    <3>1. e > s /\ e2 = e - hi /\ t =< l
      BY RingSizes, <2>3, <1>1 DEF Ahead, Within, Entry
    <3> DEFINE y == l - t  w == e - l
    <3>2. 2 * Reads * w + g * y >= g * Size - 2
      BY RingSizes, <1>1, <2>3, <3>1 DEF Safe, Within, Spare, Entry
    <3>3. y \in Nat /\ w \in Nat
      BY <3>1
    <3>4. CASE l =< s
      <4>1. l2 = t + lo /\ Rest(l2, e2, s) >= g * (w + y)
        BY RingSizes, <3>4, <3>1, <1>1 DEF Ahead, Rest
      <4>2. 2 * Reads * (g * (w + y)) >= g * (2 * Reads * w + g * y)
        BY <3>3, <1>1
      <4>3. g * (2 * Reads * w + g * y) >= g * (g * Size - 2)
        BY <3>2, <3>3, <1>1, RingSizes
      <4> QED
        BY RingSizes, <1>1, <2>3, <4>1, <4>2, <4>3, <3>3 DEF Safe, Rest
    <3>5. CASE l > s
      <4>1. l2 = l - Reads + lo /\ y < 2 * Reads
        BY RingSizes, <3>5, <3>1, <1>1, <2>3 DEF Ahead, Entry
      <4>2. Rest(l2, e2, s) >= g * w + Reads * Reads - y
        BY RingSizes, <3>5, <3>1, <1>1, <4>1 DEF Rest
      <4>3. 2 * Reads * (g * w + Reads * Reads - y) >= g * (2 * Reads * w + g * y)
        BY <3>3, <1>1, <4>1
      <4>4. g * (2 * Reads * w + g * y) >= g * (g * Size - 2)
        BY <3>2, <3>3, <1>1, RingSizes
      <4> QED
        BY RingSizes, <1>1, <2>3, <4>1, <4>2, <4>3, <4>4, <3>3 DEF Safe, Rest
    <3> QED
      BY <3>4, <3>5, <1>1
  <2> QED
    BY <1>2, <2>1, <2>2, <2>3
<1>3. CASE ~Within(l, e, t) /\ ~Entry(l, t, lo)
  <2>1. ~Within(l2, e2, s) /\ Safe(l, e, t)
    BY RingSizes, <1>3, <1>1 DEF Ahead, Entry, Within
  <2>2. CASE t =< l
    <3>1. l2 = l - Reads + lo /\ e2 - l2 >= e - l + g /\ s =< l2
      BY RingSizes, <1>1, <1>3, <2>2 DEF Ahead, Entry, Within
    <3> QED
      BY RingSizes, <1>1, <1>3, <2>1, <2>2, <3>1 DEF Safe, Spare
  <2>3. CASE l < t
    <3>1. l2 = l + lo /\ e2 - l2 >= e - l + g /\ l2 < s
      BY RingSizes, <1>1, <1>3, <2>3 DEF Ahead, Entry, Within
    <3> QED
      BY RingSizes, <1>1, <1>3, <2>1, <2>3, <3>1 DEF Safe, Spare
  <2> QED
    BY <1>1, <2>2, <2>3
<1> QED
  BY <1>2, <1>3

(* Safe places that the writing enters, or that are a tenth of the         *)
(* history, are a tenth of it after the update.                            *)
LEMMA Enough ==
  ASSUME NEW l \in Nat, NEW e \in Nat, NEW t \in Nat,
         l =< e, e =< Size, t + Reads =< Size,
         NEW lo \in {0, 1}, NEW hi \in {0, 1}, lo + hi =< 1,
         NEW l2, NEW e2, NEW s,
         l2 = Ahead(l, t) + lo, e2 = Ahead(e, t) + Reads - hi, s = t + Reads,
         Safe(l, e, t), Entry(l, t, lo) \/ 10 * (e - l) >= Size
  PROVE  10 * (e2 - l2) >= Size
<1> DEFINE g == Reads - 1
<1>1. /\ g \in Nat /\ Reads = g + 1 /\ g >= 2
      /\ l2 \in Nat /\ e2 \in Nat /\ l2 =< e2 /\ e2 =< Size
      /\ s \in Nat /\ s =< Size
  BY RingSizes DEF Ahead
<1>2. ASSUME NEW w \in Nat, 2 * Reads * (Reads * w) >= g * g * Size - 2 * g
      PROVE  10 * w >= Size
  <2>1. Size >= g + 1
    BY <1>1, RingSizes
  <2>2. (g + 1) * (g + 1) * (2 * w) >= g * g * Size - 2 * g
    BY <1>1, <1>2, RingSizes
  <2> SUFFICES ASSUME 10 * w < Size PROVE FALSE
    BY RingSizes
  <2>3. (g + 1) * (g + 1) * (10 * w) =< (g + 1) * (g + 1) * (Size - 1)
    BY <1>1, RingSizes
  <2>4. 5 * (g * g * Size) - 10 * g =< (g + 1) * (g + 1) * (Size - 1)
    BY <1>1, <2>2, <2>3, RingSizes
  <2>5. 4 * (g * g) - 2 * g - 1 >= 0
    BY <1>1
  <2>6. (4 * (g * g) - 2 * g - 1) * Size >= (4 * (g * g) - 2 * g - 1) * (g + 1)
    BY <1>1, <2>1, <2>5, RingSizes
  <2>7. (4 * (g * g) - 2 * g - 1) * Size + (g + 1) * (g + 1) =< 10 * g
    BY <1>1, <2>4, RingSizes
  <2> QED
    BY <1>1, <2>6, <2>7, RingSizes
<1>3. CASE Within(l2, e2, s)
  <2>1. Safe(l2, e2, s)
    BY SafeStep
  <2>2. Reads * (e2 - l2) >= Rest(l2, e2, s)
    BY <1>1, <1>3 DEF Rest, Within
  <2>3. 2 * Reads * (Reads * (e2 - l2)) >= g * g * Size - 2 * g
    BY <2>1, <2>2, <1>1, <1>3, RingSizes DEF Safe, Rest
  <2> QED
    BY <1>1, <1>2, <2>3
<1>4. CASE ~Within(l2, e2, s) /\ Within(l, e, t)
  <2>1. /\ e =< s + 1 /\ l2 = l + lo /\ e2 - l2 >= s - 1 - l /\ e > t
    BY RingSizes, <1>4, <1>1 DEF Ahead, Within
  <2>2. Reads * (e2 - l2) >= Rest(l, e, t)
    BY RingSizes, <1>1, <2>1, <1>4 DEF Rest, Ahead, Within
  <2>3. 2 * Reads * (Reads * (e2 - l2)) >= g * g * Size - 2 * g
    BY <2>2, <1>1, <1>4, RingSizes DEF Safe, Rest
  <2> QED
    BY <1>1, <1>2, <2>3
<1>5. CASE ~Within(l2, e2, s) /\ Entry(l, t, lo)
  <2> DEFINE y == l - t  w == e - l
  <2>1. y \in Nat /\ w \in Nat /\ t =< l /\ e2 =< s
    BY RingSizes, <1>1, <1>5 DEF Entry, Within
  <2>2. 2 * Reads * w + g * y >= g * Size - 2
    BY RingSizes, <1>1, <1>5, <2>1 DEF Safe, Within, Spare
  <2>3. CASE e =< s
    <3>1. e2 - l2 >= g /\ w + y =< Reads
      BY RingSizes, <1>1, <1>5, <2>1, <2>3 DEF Ahead
    <3>2. 2 * Reads * w + g * y =< 2 * Reads * Reads
      BY <3>1, <2>1, <1>1
    <3>3. 2 * Reads * Reads + 2 =< g * (10 * g)
      BY <1>1
    <3>4. Size =< 10 * g
      BY <3>2, <3>3, <2>2, <1>1, RingSizes
    <3> QED
      BY <3>1, <3>4, <1>1, RingSizes
  <2>4. CASE e > s
    <3>1. e = s + 1 /\ hi = 1 /\ lo = 0
      BY RingSizes, <1>1, <1>5, <2>1, <2>4 DEF Ahead
    <3>2. e2 - l2 >= g /\ w + y = Reads + 1 /\ (l =< s => e2 - l2 = Reads)
      BY RingSizes, <1>1, <1>5, <2>1, <2>4, <3>1 DEF Ahead
    <3>3. CASE l =< s
      <4>1. 2 * Reads * w + g * y =< 2 * Reads * (Reads + 1)
        BY <3>2, <2>1, <1>1
      <4>2. 2 * Reads * (Reads + 1) + 2 =< g * (10 * Reads)
        BY <1>1
      <4>3. Size =< 10 * Reads
        BY <4>1, <4>2, <2>2, <1>1, RingSizes
      <4> QED
        BY <3>2, <3>3, <4>3, <1>1, RingSizes
    <3>4. CASE l > s
      <4>1. w = 0 /\ y = Reads + 1
        BY <3>1, <3>2, <3>4, <2>1
      <4>2. Size =< Reads + 2
        BY <4>1, <2>2, <1>1, RingSizes
      <4> QED
        BY <3>2, <4>2, <1>1, RingSizes
    <3> QED
      BY <3>3, <3>4, <1>1
  <2> QED
    BY <2>3, <2>4, <1>1
<1>6. CASE ~Within(l2, e2, s) /\ ~Entry(l, t, lo) /\ ~Within(l, e, t)
  <2>1. e2 - l2 >= e - l
    BY RingSizes, <1>6, <1>1 DEF Ahead, Entry, Within
  <2> QED
    BY <2>1, <1>1, <1>6, RingSizes
<1> QED
  BY <1>3, <1>4, <1>5, <1>6

(* An update that does not go across the end of the ring.                  *)
LEMMA StepAhead ==
  ASSUME NEW l \in Nat, NEW e \in Nat, NEW t \in Nat,
         l =< e, e =< Size, t + Reads =< Size,
         NEW lo \in {0, 1}, NEW hi \in {0, 1}, lo + hi =< 1,
         NEW l2, NEW e2, NEW s,
         l2 = Ahead(l, t) + lo, e2 = Ahead(e, t) + Reads - hi, s = t + Reads
  PROVE  Passes(l, e, t, l2, e2, s) \/ Enters(l, e, t, l2, e2, s)
<1> DEFINE A == Mark(l, e, t)  B == Mark(l2, e2, s)
<1>1. /\ l2 \in Nat /\ e2 \in Nat /\ l2 =< e2 /\ e2 =< Size
      /\ s \in Nat /\ Reads \in Nat /\ Reads >= 3 /\ Size \in Nat
  <2>1. l2 \in Nat /\ e2 \in Nat /\ l2 =< e2 /\ e2 =< Size
    BY AheadBounds
  <2> QED
    BY <2>1, RingSizes
<1>2. A \in Nat /\ B \in Nat /\ A =< e - l /\ B =< e2 - l2
  BY <1>1, MarkBound
<1>3. (\/ Safe(l, e, t)
       \/ (Within(l, e, t) \/ Entry(l, t, lo)) /\ ~Within(l2, e2, s))
        => Safe(l2, e2, s)
  BY SafeStep
<1>4. Safe(l, e, t) /\ (Entry(l, t, lo) \/ 10 * (e - l) >= Size)
        => 10 * (e2 - l2) >= Size
  BY Enough
<1>5. CASE ~Entry(l, t, lo)
  <2>1. Mark(Ahead(l, t) + lo, Ahead(e, t) + Reads - hi, t + Reads)
          >= Mark(l, e, t) + Reads - 1
    BY <1>5, Grow
  <2>2. l # t
    BY <1>1, <1>5 DEF Entry, Ahead
  <2> QED
    BY <1>3, <1>4, <2>1, <2>2 DEF Passes
<1>6. CASE Entry(l, t, lo)
  <2>1. e2 - l2 >= e - l + Reads - 1 \/ B >= Reads - 1
    BY <1>6, Enter
  <2>2. ~Within(l, e, t)
    BY <1>6 DEF Entry, Within
  <2>3. Lag(l, t) \in {0, 1}
    BY DEF Lag
  <2> HIDE DEF A, B
  <2>4. B >= Reads - 1 \/ B + (e2 - l2) + 1 >= A + Reads - 1 + Lag(l, t)
    BY <1>1, <1>2, <2>1, <2>3
  <2> QED
    BY <1>3, <1>4, <1>6, <2>2, <2>4 DEF Enters, A, B
<1> QED
  BY <1>5, <1>6

(* An update that goes across the end of the ring writes to its first b    *)
(* places and to those after t.                                            *)
LEMMA AcrossBounds ==
  ASSUME NEW l \in Nat, NEW e \in Nat, NEW t \in Nat,
         l =< e, e =< Size, t < Size, t + Reads > Size,
         NEW lo \in {0, 1}, NEW hi \in {0, 1}, lo + hi =< 1
  PROVE  /\ Across(l, t) + lo \in Nat /\ Across(e, t) + Reads - hi \in Nat
         /\ Across(l, t) + lo =< Across(e, t) + Reads - hi
         /\ Across(e, t) + Reads - hi =< Size
BY RingSizes DEF Across

(* The measures are whole numbers.                                         *)
LEMMA SpareType ==
  ASSUME NEW l \in Nat, NEW e \in Nat, NEW t \in Nat
  PROVE  Spare(l, e, t) \in Int /\ (Reads - 1) * Size \in Int
<1> DEFINE g == Reads - 1  w == e - l  z == Size - t
<1>1. g \in Int /\ w \in Int /\ z \in Int /\ Reads \in Int /\ Size \in Int
  BY RingSizes
<1>2. Spare(l, e, t) = 2 * Reads * w + g * l + (IF l < t THEN 2 * g * z ELSE -(g * t))
  BY DEF Spare
<1> HIDE DEF g, w, z
<1>3. /\ 2 * Reads * w \in Int /\ g * l \in Int /\ 2 * g * z \in Int
      /\ g * t \in Int /\ g * Size \in Int
  BY <1>1
<1> QED
  BY <1>2, <1>3 DEF g

(* What is left of the places, by what the writing has passed of them.     *)
LEMMA RestIs ==
  ASSUME NEW l \in Int, NEW e \in Int, NEW t \in Int
  PROVE  Rest(l, e, t) = (Reads - 1) * (e - l) + (t - l)
BY RingSizes DEF Rest

(* Half of the history, in proportion, is a tenth of it.                   *)
LEMMA HalfEnough ==
  ASSUME NEW w \in Nat, 2 * Reads * w >= (Reads - 1) * Size - 2 * (Reads - 1)
  PROVE  10 * w >= Size
<1> DEFINE g == Reads - 1
<1>1. g \in Nat /\ g >= 2 /\ Reads = g + 1 /\ Size \in Nat /\ Size >= g + 1
  BY RingSizes
<1> HIDE DEF g
<1> SUFFICES ASSUME 10 * w < Size PROVE FALSE
  BY RingSizes
<1>2. (g + 1) * (10 * w) >= 5 * (g * Size) - 10 * g
  BY <1>1
<1>3. (g + 1) * (10 * w) =< (g + 1) * (Size - 1)
  BY <1>1
<1>4. (4 * g - 1) * Size >= (4 * g - 1) * (g + 1)
  BY <1>1
<1>5. (4 * g - 1) * (g + 1) = 4 * (g * g) + 3 * g - 1 /\ g * g >= 2 * g
  BY <1>1
<1>6. (4 * g - 1) * Size =< 9 * g - 1
  BY <1>1, <1>2, <1>3
<1> QED
  BY <1>1, <1>4, <1>5, <1>6

(* The places keep clear of the first b, and of t if they are ahead of it. *)
LEMMA AcrossPasses ==
  ASSUME NEW l \in Nat, NEW e \in Nat, NEW t \in Nat,
         l =< e, e =< Size, t < Size, t + Reads > Size,
         NEW lo \in {0, 1}, NEW hi \in {0, 1}, lo + hi =< 1,
         NEW l2, NEW e2, NEW s,
         l2 = Across(l, t) + lo, e2 = Across(e, t) + Reads - hi,
         s = t + Reads - Size, s < l, l < t, s =< l2
  PROVE  Passes(l, e, t, l2, e2, s)
<1> DEFINE g == Reads - 1  a == Size - t
<1>1. /\ g \in Nat /\ g >= 2 /\ Reads = g + 1 /\ Size \in Nat /\ Size >= g + 1
      /\ a \in Nat /\ a >= 1 /\ s \in Nat /\ s >= 1 /\ a + s = g + 1
      /\ t = Size - a
  BY RingSizes
<1>2. l2 = l - s + lo /\ ~Within(l2, e2, s) /\ e2 \in Nat /\ l2 \in Nat
  <2>1. l2 \in Nat /\ e2 \in Nat
    BY AcrossBounds
  <2>2. Across(l, t) = l - s
    BY <1>1 DEF Across
  <2>3. ~Within(l2, e2, s)
    BY <1>1, <2>1 DEF Within
  <2> QED
    BY <2>1, <2>2, <2>3
<1>3. CASE e =< t
  <2>1. e2 - l2 = (e - l) + Reads - hi - lo /\ ~Within(l, e, t)
    BY <1>1, <1>2, <1>3 DEF Across, Within
  <2>2. Spare(l, e, t) = 2 * Reads * (e - l) + g * l + 2 * g * a
    BY <1>1 DEF Spare
  <2>3. Spare(l2, e2, s) = 2 * Reads * (e2 - l2) + g * l2 - g * s
    BY <1>1, <1>2 DEF Spare
  <2>4. Spare(l2, e2, s) >= Spare(l, e, t)
    <3> DEFINE w == e - l
    <3>1. w \in Nat /\ e2 - l2 = w + (g + 1) - hi - lo
      BY <1>1, <2>1
    <3> HIDE DEF g, a, w
    <3>2. 2 * (g + 1) * (w + (g + 1) - hi - lo) + g * (l - s + lo) - g * s
            = 2 * (g + 1) * w + g * l + 2 * g * a
                + 2 * (g + 1) * (1 - hi - lo) + g * lo
      <4>1. s = g + 1 - a
        BY <1>1
      <4> QED
        BY <1>1, <3>1, <4>1
    <3>3. 2 * (g + 1) * (1 - hi - lo) + g * lo >= 0
      BY <1>1
    <3> QED
      BY <1>1, <1>2, <2>2, <2>3, <3>1, <3>2, <3>3 DEF w
  <2>5. Mark(l2, e2, s) = e2 - l2 /\ Mark(l, e, t) = e - l
    BY <1>2, <2>1 DEF Mark
  <2>6. Safe(l, e, t) => Safe(l2, e2, s)
    <3>1. Spare(l, e, t) \in Int /\ Spare(l2, e2, s) \in Int /\ g * Size \in Int
      BY <1>1, <1>2, SpareType
    <3>2. Safe(l, e, t) <=> Spare(l, e, t) >= g * Size - 0
      BY <2>1 DEF Safe
    <3>3. Safe(l2, e2, s) <=> Spare(l2, e2, s) >= g * Size - 2
      BY <1>1, <1>2 DEF Safe
    <3> HIDE DEF g
    <3> QED
      BY <1>1, <2>4, <3>1, <3>2, <3>3
  <2> QED
    BY <1>1, <1>2, <2>1, <2>5, <2>6 DEF Passes
<1>4. CASE e > t
  <2>1. /\ e2 = Size - hi /\ Within(l, e, t)
        /\ e2 - l2 = (Size - l) + s - hi - lo
    BY <1>1, <1>2, <1>4 DEF Across, Within
  <2>2. Spare(l2, e2, s) = 2 * Reads * (e2 - l2) + g * l2 - g * s
    BY <1>1, <1>2 DEF Spare
  <2>3. Spare(l2, e2, s) >= g * Size
    <3> DEFINE y == Size - l
    <3>1. y \in Nat /\ y >= 2 /\ l = Size - y /\ e2 - l2 = y + s - hi - lo
      BY <1>1, <2>1
    <3> HIDE DEF g, a, y
    <3>2. 2 * (g + 1) * (y + s - hi - lo) + g * (Size - y - s + lo) - g * s
            = g * Size + (g + 2) * (y - 2) + 2 * s
               + 2 * (g + 1) * (1 - hi - lo) + g * lo + 2
      BY <1>1, <3>1
    <3>3. /\ (g + 2) * (y - 2) >= 0 /\ (g + 2) * (y - 2) \in Int
          /\ 2 * (g + 1) * (1 - hi - lo) >= 0 /\ g * lo >= 0
          /\ 2 * (g + 1) * (1 - hi - lo) \in Int /\ g * lo \in Int
          /\ g * Size \in Int
      BY <1>1, <3>1
    <3>4. Spare(l2, e2, s) = 2 * (g + 1) * (y + s - hi - lo) + g * (Size - y - s + lo) - g * s
      BY <1>1, <1>2, <2>2, <3>1
    <3> QED
      BY <1>1, <3>2, <3>3, <3>4
  <2>4. Mark(l2, e2, s) = e2 - l2 /\ Mark(l, e, t) = t - l
    BY <1>2, <2>1 DEF Mark
  <2>5. Safe(l2, e2, s)
    <3>1. Spare(l2, e2, s) \in Int /\ g * Size \in Int
      BY <1>1, <1>2, SpareType
    <3>2. Safe(l2, e2, s) <=> Spare(l2, e2, s) >= g * Size - 2
      BY <1>1, <1>2 DEF Safe
    <3> HIDE DEF g
    <3> QED
      BY <2>3, <3>1, <3>2
  <2>6. l # t /\ e2 - l2 >= e - l /\ e2 - l2 >= t - l + Reads - 1
    BY <1>1, <2>1
  <2>7. 10 * (e - l) >= Size => 10 * (e2 - l2) >= Size
    BY <1>1, <1>2, <2>6
  <2> QED
    BY <2>4, <2>5, <2>6, <2>7 DEF Passes
<1> QED
  BY <1>1, <1>3, <1>4

(* They are behind t: the update overwrites some of them and puts its      *)
(* readings at the end of the ring.                                        *)
LEMMA AcrossBehind ==
  ASSUME NEW l \in Nat, NEW e \in Nat, NEW t \in Nat,
         l =< e, e =< Size, t < Size, t + Reads > Size,
         NEW lo \in {0, 1}, NEW hi \in {0, 1}, lo + hi =< 1,
         NEW l2, NEW e2, NEW s,
         l2 = Across(l, t) + lo, e2 = Across(e, t) + Reads - hi,
         s = t + Reads - Size, t =< l
  PROVE  Enters(l, e, t, l2, e2, s)
<1> DEFINE g == Reads - 1  a == Size - t  w2 == e2 - l2
<1>1. /\ g \in Nat /\ g >= 2 /\ Reads = g + 1 /\ Size \in Nat /\ Size >= g + 1
      /\ a \in Nat /\ a >= 1 /\ s \in Nat /\ s >= 1 /\ a + s = g + 1
      /\ t = Size - a
  BY RingSizes
<1>2. /\ l2 = Size - (g + 1) + lo /\ e2 = Size - hi /\ w2 = g + 1 - hi - lo
      /\ l2 \in Nat /\ e2 \in Nat /\ w2 \in Nat /\ w2 >= g
      /\ ~Within(l, e, t)
  <2>1. Across(l, t) = Size - Reads /\ Across(e, t) = Size - Reads
    BY <1>1 DEF Across
  <2>2. l2 \in Nat /\ e2 \in Nat
    BY AcrossBounds
  <2>3. ~Within(l, e, t)
    BY <1>1 DEF Within
  <2> HIDE DEF g, a
  <2>4. l2 = Size - (g + 1) + lo /\ e2 = Size - hi
    BY <1>1, <2>1
  <2> QED
    BY <1>1, <2>2, <2>3, <2>4
<1> HIDE DEF g, a, w2
<1>3. Safe(l2, e2, s)
  <2>1. CASE Within(l2, e2, s)
    <3>1. l2 =< s - 1 /\ Size =< 2 * g
      BY <1>1, <1>2, <2>1 DEF Within
    <3>2. Rest(l2, e2, s) = g * w2 + (s - l2)
      BY <1>1, <1>2, RestIs DEF g, w2
    <3>3. Rest(l2, e2, s) >= g * g
      <4>1. g * w2 >= g * g /\ g * w2 \in Int /\ g * g \in Int
        BY <1>1, <1>2
      <4> QED
        BY <1>1, <1>2, <3>1, <3>2, <4>1
    <3>4. Rest(l2, e2, s) \in Int
      BY <1>1, <1>2, <3>2
    <3> DEFINE r == Rest(l2, e2, s)
    <3> HIDE DEF r
    <3>5. 2 * (g + 1) * r >= g * g * Size - 2 * g
      <4>1. 2 * (g + 1) * r >= 2 * (g + 1) * (g * g)
        BY <1>1, <3>3, <3>4 DEF r
      <4>2. g * g * Size =< g * g * (2 * g)
        BY <1>1, <3>1
      <4>3. g * g * (2 * g) =< 2 * (g + 1) * (g * g)
        BY <1>1
      <4>4. /\ g * g * Size \in Int /\ g * g * (2 * g) \in Int
            /\ 2 * (g + 1) * (g * g) \in Int /\ 2 * (g + 1) * r \in Int
        BY <1>1, <3>4 DEF r
      <4> QED
        BY <1>1, <4>1, <4>2, <4>3, <4>4
    <3> QED
      BY <1>1, <2>1, <3>5 DEF Safe, r, g
  <2>2. CASE ~Within(l2, e2, s)
    <3>1. Safe(l2, e2, s) <=>
            Spare(l2, e2, s) >= g * Size - (IF l2 < s THEN 0 ELSE 2)
      BY <2>2 DEF Safe, g
    <3>2. CASE l2 < s
      <4>1. Size = g + 1 /\ s = g /\ w2 >= g /\ l2 >= 0 /\ Size - s = 1
        BY <1>1, <1>2, <2>2, <3>2 DEF Within
      <4>2. Spare(l2, e2, s) = 2 * (g + 1) * w2 + g * l2 + 2 * g * 1
        BY <1>1, <3>2, <4>1 DEF Spare, g, w2
      <4>3. 2 * (g + 1) * w2 >= 2 * (g + 1) * g /\ g * l2 >= 0
            /\ 2 * (g + 1) * w2 \in Int /\ g * l2 \in Int
        BY <1>1, <1>2, <4>1
      <4>4. 2 * (g + 1) * g >= g * Size /\ 2 * (g + 1) * g \in Int /\ g * Size \in Int
        BY <1>1, <4>1
      <4>5. Spare(l2, e2, s) >= g * Size
        BY <1>1, <4>2, <4>3, <4>4
      <4>6. Safe(l2, e2, s) <=> Spare(l2, e2, s) >= g * Size - 0
        BY <3>1, <3>2
      <4>7. Spare(l2, e2, s) \in Int
        BY <1>1, <1>2, SpareType
      <4> QED
        BY <4>4, <4>5, <4>6, <4>7
    <3>3. CASE ~(l2 < s)
      <4>1. Spare(l2, e2, s) = 2 * (g + 1) * w2 + g * l2 - g * s
        BY <1>1, <3>3 DEF Spare, g, w2
      <4>2. 2 * (g + 1) * (g + 1 - hi - lo) + g * (Size - (g + 1) + lo) - g * s
              = g * Size + g * (g - s) + 2 * (g + 1) * (1 - hi - lo) + g * lo + g
        BY <1>1
      <4>3. /\ g * (g - s) >= 0 /\ 2 * (g + 1) * (1 - hi - lo) >= 0 /\ g * lo >= 0
            /\ g * (g - s) \in Int /\ 2 * (g + 1) * (1 - hi - lo) \in Int
            /\ g * lo \in Int /\ g * Size \in Int
        BY <1>1
      <4>4. Spare(l2, e2, s)
              = 2 * (g + 1) * (g + 1 - hi - lo) + g * (Size - (g + 1) + lo) - g * s
        BY <1>1, <1>2, <4>1
      <4>5. Spare(l2, e2, s) >= g * Size
        BY <1>1, <4>2, <4>3, <4>4
      <4> QED
        BY <1>1, <1>2, <3>1, <3>3, <4>3, <4>5, SpareType
    <3> QED
      BY <3>2, <3>3
  <2> QED
    BY <2>1, <2>2
<1>4. 10 * w2 >= Size \/ Mark(l2, e2, s) >= g
  <2> SUFFICES ASSUME 10 * w2 < Size PROVE Mark(l2, e2, s) >= g
    BY <1>1, <1>2
  <2>1. l2 >= s
    BY <1>1, <1>2
  <2>2. Mark(l2, e2, s) = w2
    BY <1>1, <1>2, <2>1 DEF Mark, Within, w2
  <2> QED
    BY <1>2, <2>2
<1>5. Safe(l, e, t) => 10 * w2 >= Size
  <2> SUFFICES ASSUME Safe(l, e, t) PROVE 10 * w2 >= Size
    OBVIOUS
  <2> DEFINE w == e - l  y == l - t
  <2>1. w \in Nat /\ y \in Nat /\ w + y =< a /\ a =< g
    BY <1>1
  <2>2. Spare(l, e, t) = 2 * (g + 1) * w + g * l - g * t
    BY <1>1 DEF Spare, g
  <2>3. Spare(l, e, t) >= g * Size - 2
    BY <1>1, <1>2 DEF Safe, g
  <2>4. g * l - g * t = g * y
    BY <1>1
  <2> HIDE DEF w, y
  <2>5. 2 * (g + 1) * w + g * y =< 2 * (g + 1) * (w + y)
    BY <1>1, <2>1
  <2>6. 2 * (g + 1) * (w + y) =< 2 * (g + 1) * g
    BY <1>1, <2>1
  <2>7. /\ 2 * (g + 1) * (w + y) \in Int /\ 2 * (g + 1) * g \in Int
        /\ 2 * (g + 1) * w \in Int /\ g * y \in Int /\ g * Size \in Int
        /\ g * l \in Int /\ g * t \in Int
    BY <1>1, <2>1
  <2>8. g * Size - 2 =< 2 * (g + 1) * g
    BY <2>2, <2>3, <2>4, <2>5, <2>6, <2>7 DEF w
  <2>9. 2 * (g + 1) * g =< 2 * (g + 1) * w2 /\ 2 * (g + 1) * w2 \in Int
    BY <1>1, <1>2
  <2>10. 2 * Reads * w2 >= (Reads - 1) * Size - 2 * (Reads - 1)
    BY <1>1, <2>7, <2>8, <2>9 DEF g
  <2> QED
    BY <1>2, <2>10, HalfEnough
<1> QED
  BY <1>1, <1>2, <1>3, <1>4, <1>5 DEF Enters, g, w2

(* The update begins within them and overwrites all that is behind t; they *)
(* begin in front of the places it ends at, or are cut there.              *)
LEMMA AcrossWithin ==
  ASSUME NEW l \in Nat, NEW e \in Nat, NEW t \in Nat,
         l =< e, e =< Size, t < Size, t + Reads > Size,
         NEW lo \in {0, 1}, NEW hi \in {0, 1}, lo + hi =< 1,
         NEW l2, NEW e2, NEW s,
         l2 = Across(l, t) + lo, e2 = Across(e, t) + Reads - hi,
         s = t + Reads - Size, l < t, t < e, l =< s \/ l2 < s
  PROVE  Enters(l, e, t, l2, e2, s)
<1> DEFINE g == Reads - 1  a == Size - t  w2 == e2 - l2
<1>1. /\ g \in Nat /\ g >= 2 /\ Reads = g + 1 /\ Size \in Nat /\ Size >= g + 1
      /\ a \in Nat /\ a >= 1 /\ s \in Nat /\ s >= 1 /\ a + s = g + 1
      /\ t = Size - a
  BY RingSizes
<1>2. l2 \in Nat /\ e2 \in Nat /\ l2 =< e2
  BY AcrossBounds
<1>3. /\ e2 = Size - hi /\ (l =< s => l2 = lo) /\ (l > s => l2 = l - s + lo)
  <2>1. Across(e, t) = Size - Reads
    BY <1>1 DEF Across
  <2>2. (l =< s => Across(l, t) = 0) /\ (l > s => Across(l, t) = l - s)
    BY <1>1 DEF Across
  <2> HIDE DEF g, a
  <2> QED
    BY <1>1, <2>1, <2>2
<1> HIDE DEF g, a
<1>4. w2 \in Nat /\ 2 * w2 >= Size
  BY <1>1, <1>2, <1>3
<1> HIDE DEF w2
<1>5. 2 * (g + 1) * w2 >= (g + 1) * Size /\ 2 * (g + 1) * w2 \in Int
      /\ (g + 1) * Size = g * Size + Size /\ g * Size \in Int
  BY <1>1, <1>4
<1>6. Safe(l2, e2, s)
  <2>1. CASE Within(l2, e2, s)
    <3> DEFINE r == Rest(l2, e2, s)
    <3>1. r = g * w2 + (s - l2)
      BY <1>1, <1>2, RestIs DEF g, w2
    <3>10. s - l2 >= 1
      BY <1>1, <1>2, <2>1 DEF Within
    <3>9. g * w2 \in Int
      BY <1>1, <1>4
    <3> HIDE DEF r
    <3>2. r \in Int /\ r >= g * w2
      BY <1>1, <1>2, <3>1, <3>9, <3>10
    <3>3. 2 * (g + 1) * r >= 2 * (g + 1) * (g * w2)
      BY <1>1, <1>4, <3>2
    <3>4. 2 * (g + 1) * (g * w2) = g * (2 * (g + 1) * w2)
      BY <1>1, <1>4
    <3>5. g * (2 * (g + 1) * w2) >= g * (g * Size + Size)
      BY <1>1, <1>5
    <3>6. g * (g * Size + Size) = g * g * Size + g * Size /\ g * Size >= 0
          /\ g * g * Size \in Int
      BY <1>1
    <3>7. 2 * (g + 1) * r \in Int
      BY <1>1, <3>2
    <3>8. 2 * (g + 1) * r >= g * g * Size - 2 * g
      BY <1>1, <1>5, <3>3, <3>4, <3>5, <3>6, <3>7
    <3> QED
      BY <1>1, <2>1, <3>8 DEF Safe, r, g
  <2>2. CASE ~Within(l2, e2, s)
    <3> DEFINE x == IF l2 < s THEN g * l2 + 2 * g * (Size - s) ELSE g * l2 - g * s
    <3>1. Spare(l2, e2, s) = 2 * (g + 1) * w2 + x
      BY <1>1, <1>2 DEF Spare, g, w2
    <3>2. x \in Int /\ x >= 0
      <4>1. g * l2 >= 0 /\ g * l2 \in Int
        BY <1>1, <1>2
      <4>2. 2 * g * (Size - s) >= 0 /\ 2 * g * (Size - s) \in Int
        BY <1>1
      <4>3. l2 >= s => g * l2 >= g * s
        BY <1>1, <1>2
      <4>4. g * s \in Int
        BY <1>1
      <4>5. CASE l2 < s
        <5>1. x = g * l2 + 2 * g * (Size - s)
          BY <4>5
        <5> DEFINE y == g * l2  z == 2 * g * (Size - s)
        <5>2. y \in Int /\ z \in Int /\ y >= 0 /\ z >= 0 /\ x = y + z
          BY <4>1, <4>2, <5>1
        <5> HIDE DEF x, y, z
        <5> QED
          BY <5>2
      <4>6. CASE ~(l2 < s)
        <5>1. x = g * l2 - g * s /\ l2 >= s
          BY <1>1, <1>2, <4>6
        <5> HIDE DEF x
        <5> DEFINE y == g * l2  z == g * s
        <5>2. y \in Int /\ z \in Int /\ y >= z /\ x = y - z
          BY <4>1, <4>3, <4>4, <5>1
        <5> HIDE DEF y, z
        <5> QED
          BY <5>2
      <4> QED
        BY <4>5, <4>6
    <3> HIDE DEF x
    <3>3. Spare(l2, e2, s) >= g * Size /\ Spare(l2, e2, s) \in Int
      BY <1>1, <1>5, <3>1, <3>2
    <3>4. Safe(l2, e2, s) <=>
            Spare(l2, e2, s) >= g * Size - (IF l2 < s THEN 0 ELSE 2)
      BY <2>2 DEF Safe, g
    <3> QED
      BY <1>5, <3>3, <3>4
  <2> QED
    BY <2>1, <2>2
<1>7. 10 * (e2 - l2) >= Size
  BY <1>1, <1>4 DEF w2
<1> QED
  BY <1>6, <1>7 DEF Enters

(* They are ahead of t and reach into the places the update ends at.       *)
LEMMA AcrossShort ==
  ASSUME NEW l \in Nat, NEW e \in Nat, NEW t \in Nat,
         l =< e, e =< Size, t < Size, t + Reads > Size,
         NEW lo \in {0, 1}, NEW hi \in {0, 1}, lo + hi =< 1,
         NEW l2, NEW e2, NEW s,
         l2 = Across(l, t) + lo, e2 = Across(e, t) + Reads - hi,
         s = t + Reads - Size, s < l, l < t, e =< t, l2 < s
  PROVE  Enters(l, e, t, l2, e2, s)
<1> DEFINE g == Reads - 1  a == Size - t  w == e - l  w2 == e2 - l2
<1>1. /\ g \in Nat /\ g >= 2 /\ Reads = g + 1 /\ Size \in Nat /\ Size >= g + 1
      /\ a \in Nat /\ a >= 1 /\ s \in Nat /\ s >= 1 /\ a + s = g + 1
      /\ t = Size - a /\ w \in Nat
  BY RingSizes
<1>2. l2 \in Nat /\ e2 \in Nat /\ l2 =< e2
  BY AcrossBounds
<1>3. l2 = l - s + lo /\ e2 = e - s + (g + 1) - hi
  BY <1>1 DEF Across
<1>4. w2 = w + (g + 1) - hi - lo /\ w2 \in Nat /\ w2 >= w + g
  <2> HIDE DEF g, a
  <2> QED
    BY <1>1, <1>2, <1>3
<1>5. /\ Within(l2, e2, s) /\ ~Within(l, e, t)
      /\ Mark(l, e, t) = w /\ Lag(l, t) = 0 /\ Mark(l2, e2, s) >= 0
      /\ Mark(l2, e2, s) \in Int
  <2>1. Within(l2, e2, s) /\ ~Within(l, e, t)
    BY <1>1, <1>2, <1>3 DEF Within
  <2> QED
    BY <1>1, <1>2, <2>1 DEF Mark, Lag, Within
<1>6. Safe(l, e, t) => 2 * (g + 1) * w + g * l + 2 * g * a >= g * Size
  <2>1. Spare(l, e, t) = 2 * (g + 1) * w + g * l + 2 * g * a
    BY <1>1 DEF Spare
  <2>2. Safe(l, e, t) <=> Spare(l, e, t) >= g * Size - 0
    BY <1>5 DEF Safe
  <2>3. g * Size \in Int
    BY <1>1
  <2> HIDE DEF g, a, w
  <2> QED
    BY <2>1, <2>2, <2>3
<1> HIDE DEF g, a, w, w2
<1>7. ASSUME 2 * (g + 1) * w + g * l + 2 * g * a >= g * Size
      PROVE  Safe(l2, e2, s) /\ 10 * w2 >= Size
  <2> DEFINE h == hi + lo
  <2>1. h \in {0, 1} /\ l =< 2 * s - lo - 1 /\ w2 = w + (g + 1) - h
    BY <1>1, <1>3, <1>4
  <2>2. /\ 2 * (g + 1) * w2 = 2 * (g + 1) * w + 2 * (g + 1) * (g + 1 - h)
        /\ 2 * (g + 1) * w \in Int /\ g * l \in Int /\ 2 * g * a \in Int
        /\ g * Size \in Int /\ 2 * (g + 1) * w2 \in Int
    <3> HIDE DEF h
    <3> QED
      BY <1>1, <1>4, <2>1
  <2>3. g * l =< g * (2 * s - lo - 1) /\ g * (2 * s - lo - 1) \in Int
    BY <1>1, <2>1
  <2>4. g * (2 * s - lo - 1) + 2 * g * a = 2 * (g + 1) * g - g * lo - g
    <3>1. a = g + 1 - s
      BY <1>1
    <3> QED
      BY <1>1, <3>1
  <2>5. 2 * (g + 1) * (g + 1 - h) >= 2 * (g + 1) * g
        /\ 2 * (g + 1) * (g + 1 - h) \in Int /\ 2 * (g + 1) * g \in Int
        /\ g * lo >= 0 /\ g * lo \in Int
    BY <1>1, <2>1
  <2> HIDE DEF h
  <2>6. 2 * (g + 1) * w2 >= g * Size + g * lo + g
    BY <1>1, <1>7, <2>2, <2>3, <2>4, <2>5
  <2>7. 10 * w2 >= Size
    <3>1. 2 * Reads * w2 >= (Reads - 1) * Size - 2 * (Reads - 1)
      BY <1>1, <2>2, <2>5, <2>6
    <3> QED
      BY <1>4, <3>1, HalfEnough
  <2> DEFINE r == Rest(l2, e2, s)
  <2>8. r = g * w2 + (s - l2) /\ s - l2 >= 1 /\ r \in Int /\ r >= g * w2
        /\ g * w2 \in Int
    <3>1. r = g * w2 + (s - l2)
      BY <1>1, <1>2, RestIs DEF g, w2
    <3>2. g * w2 \in Int
      BY <1>1, <1>4
    <3> HIDE DEF r
    <3> QED
      BY <1>1, <1>2, <3>1, <3>2
  <2> HIDE DEF r
  <2>9. 2 * (g + 1) * r >= g * g * Size - 2 * g
    <3>1. 2 * (g + 1) * r >= 2 * (g + 1) * (g * w2) /\ 2 * (g + 1) * r \in Int
      BY <1>1, <1>4, <2>8
    <3>2. 2 * (g + 1) * (g * w2) = g * (2 * (g + 1) * w2)
      BY <1>1, <1>4
    <3>3. g * (2 * (g + 1) * w2) >= g * (g * Size)
      BY <1>1, <2>2, <2>5, <2>6
    <3>4. g * (g * Size) = g * g * Size /\ g * g * Size \in Int
      BY <1>1
    <3> QED
      BY <1>1, <2>2, <3>1, <3>2, <3>3, <3>4
  <2> QED
    BY <1>1, <1>5, <2>7, <2>9 DEF Safe, r, g
<1>8. /\ Mark(l2, e2, s) + (e2 - l2) + 1 >= Mark(l, e, t) + Reads - 1 + Lag(l, t)
  BY <1>1, <1>4, <1>5 DEF w2
<1>9. Within(l, e, t) \/ Safe(l, e, t)
        => Safe(l2, e2, s) /\ 10 * (e2 - l2) >= Size
  BY <1>5, <1>6, <1>7 DEF w2
<1> QED
  BY <1>5, <1>8, <1>9 DEF Enters

(* They are within the first places, which the update overwrites.          *)
LEMMA AcrossFront ==
  ASSUME NEW l \in Nat, NEW e \in Nat, NEW t \in Nat,
         l =< e, e =< Size, t < Size, t + Reads > Size,
         NEW lo \in {0, 1}, NEW hi \in {0, 1}, lo + hi =< 1,
         NEW l2, NEW e2, NEW s,
         l2 = Across(l, t) + lo, e2 = Across(e, t) + Reads - hi,
         s = t + Reads - Size, l < t, e =< s
  PROVE  Enters(l, e, t, l2, e2, s)
<1> DEFINE g == Reads - 1  a == Size - t  w == e - l  w2 == e2 - l2
<1>1. /\ g \in Nat /\ g >= 2 /\ Reads = g + 1 /\ Size \in Nat /\ Size >= g + 1
      /\ a \in Nat /\ a >= 1 /\ s \in Nat /\ s >= 1 /\ a + s = g + 1
      /\ t = Size - a /\ w \in Nat /\ s =< t /\ s =< g
  BY RingSizes
<1>2. l2 \in Nat /\ e2 \in Nat /\ l2 =< e2
  BY AcrossBounds
<1>3. l2 = lo /\ e2 = (g + 1) - hi
  BY <1>1 DEF Across
<1>4. w2 = (g + 1) - hi - lo /\ w2 \in Nat /\ w2 >= g /\ w =< s
  <2> HIDE DEF g, a
  <2> QED
    BY <1>1, <1>2, <1>3
<1>5. ~Within(l, e, t) /\ Mark(l, e, t) = w /\ Lag(l, t) = 0
  BY <1>1 DEF Within, Mark, Lag
<1> HIDE DEF g, a, w, w2
<1>6. \/ Within(l2, e2, s) /\ l2 < s
      \/ ~Within(l2, e2, s) /\ s = g /\ w2 = g /\ l2 = 0
      \/ ~Within(l2, e2, s) /\ s = 1 /\ l2 = 1 /\ w2 = g
  BY <1>1, <1>2, <1>3, <1>4 DEF Within
<1>7. Safe(l, e, t) => g * Size =< 2 * (g + 1) * g + 2 * s
  <2> SUFFICES ASSUME Safe(l, e, t) PROVE g * Size =< 2 * (g + 1) * g + 2 * s
    OBVIOUS
  <2>1. Spare(l, e, t) = 2 * (g + 1) * w + g * l + 2 * g * a
    BY <1>1 DEF Spare, g, w, a
  <2>2. Spare(l, e, t) >= g * Size - 0
    BY <1>5 DEF Safe, g
  <2>3. w + l =< s /\ l \in Nat
    BY <1>1 DEF w
  <2>4. 2 * (g + 1) * w + g * l =< 2 * (g + 1) * (w + l)
    BY <1>1, <2>3
  <2>5. 2 * (g + 1) * (w + l) =< 2 * (g + 1) * s
    BY <1>1, <2>3
  <2>6. 2 * (g + 1) * s + 2 * g * a = 2 * (g + 1) * g + 2 * s
    <3>1. a = g + 1 - s
      BY <1>1
    <3> QED
      BY <1>1, <3>1
  <2>7. /\ 2 * (g + 1) * w \in Int /\ g * l \in Int /\ 2 * (g + 1) * s \in Int
        /\ 2 * (g + 1) * (w + l) \in Int /\ 2 * g * a \in Int /\ g * Size \in Int
    BY <1>1, <2>3
  <2> QED
    BY <2>1, <2>2, <2>4, <2>5, <2>6, <2>7
<1>8. CASE ~Within(l2, e2, s) /\ l2 < s
  <2>1. s = g /\ w2 = g /\ l2 = 0
    BY <1>6, <1>8, <1>1
  <2>2. Spare(l2, e2, s) = 2 * (g + 1) * g + g * 0 + 2 * g * (Size - g)
    BY <1>1, <1>8, <2>1 DEF Spare, g, w2
  <2>3. 2 * (g + 1) * g + g * 0 + 2 * g * (Size - g) = 2 * g * Size + 2 * g
        /\ g * Size >= 0 /\ g * Size \in Int
    BY <1>1
  <2>4. Spare(l2, e2, s) >= g * Size - 0
    BY <1>1, <2>2, <2>3
  <2>5. Safe(l2, e2, s)
    BY <1>8, <2>4 DEF Safe, g
  <2>6. Mark(l2, e2, s) >= g
    BY <1>2, <1>8, <2>1 DEF Mark, w2
  <2>7. Safe(l, e, t) => 10 * w2 >= Size
    <3> SUFFICES ASSUME Safe(l, e, t) PROVE 10 * w2 >= Size
      OBVIOUS
    <3>1. 2 * Reads * w2 >= (Reads - 1) * Size - 2 * (Reads - 1)
      <4>1. g * Size =< 2 * (g + 1) * w2 + 2 * g
        BY <1>1, <1>7, <2>1
      <4>2. g * Size \in Int /\ 2 * (g + 1) * w2 \in Int
        BY <1>1, <1>4
      <4>3. 2 * (g + 1) * w2 >= g * Size - 2 * g
        BY <1>1, <4>1, <4>2
      <4> QED
        BY <1>1, <4>3 DEF g
    <3> QED
      BY <1>4, <3>1, HalfEnough
  <2> QED
    BY <1>1, <1>5, <2>5, <2>6, <2>7 DEF Enters, w2
<1>9. 2 * (g + 1) * w2 >= 2 * (g + 1) * g /\ 2 * (g + 1) * w2 \in Int
      /\ 2 * (g + 1) * g \in Int /\ g * Size \in Int
  BY <1>1, <1>4
<1>10. Safe(l, e, t) => 10 * w2 >= Size
  <2> SUFFICES ASSUME Safe(l, e, t) PROVE 10 * w2 >= Size
    OBVIOUS
  <2>1. 2 * (g + 1) * w2 >= g * Size - 2 * g
    BY <1>1, <1>7, <1>9
  <2>2. 2 * Reads * w2 >= (Reads - 1) * Size - 2 * (Reads - 1)
    BY <1>1, <2>1 DEF g
  <2> QED
    BY <1>4, <2>2, HalfEnough
<1>11. CASE Within(l2, e2, s)
  <2> DEFINE r == Rest(l2, e2, s)
  <2>1. Mark(l2, e2, s) = s - lo
    BY <1>3, <1>11 DEF Mark
  <2>2. Mark(l2, e2, s) + (e2 - l2) + 1 >= Mark(l, e, t) + Reads - 1 + Lag(l, t)
    BY <1>1, <1>2, <1>3, <1>4, <1>5, <2>1 DEF w2
  <2>3. r = g * w2 + (s - l2) /\ s - l2 >= 1 /\ s - l2 \in Int
    <3>1. r = g * w2 + (s - l2)
      BY <1>1, <1>2, RestIs DEF g, w2
    <3>2. s - l2 >= 1 /\ s - l2 \in Int
      BY <1>1, <1>2, <1>11 DEF Within
    <3> QED
      BY <3>1, <3>2
  <2> HIDE DEF r
  <2>4. Safe(l, e, t) => 2 * (g + 1) * r >= g * g * Size - 2 * g
    <3> SUFFICES ASSUME Safe(l, e, t)
                 PROVE  2 * (g + 1) * r >= g * g * Size - 2 * g
      OBVIOUS
    <3>1. g * (g * Size) =< g * (2 * (g + 1) * g + 2 * s)
      BY <1>1, <1>7, <1>9
    <3>2. 2 * (g + 1) * r = 2 * (g + 1) * (g * w2) + 2 * (g + 1) * (s - l2)
      <4> DEFINE z == s - l2
      <4>1. z \in Int /\ r = g * w2 + z
        BY <2>3
      <4> HIDE DEF z
      <4>2. 2 * (g + 1) * (g * w2 + z) = 2 * (g + 1) * (g * w2) + 2 * (g + 1) * z
        BY <1>1, <1>4, <4>1
      <4> QED
        BY <4>1, <4>2 DEF z
    <3>3. 2 * (g + 1) * (g * w2) >= 2 * (g + 1) * (g * g)
      <4>1. g * w2 >= g * g /\ g * w2 \in Int /\ g * g \in Int
        BY <1>1, <1>4
      <4> DEFINE y == g * w2  z == g * g
      <4> HIDE DEF y, z
      <4>2. y \in Int /\ z \in Int /\ y >= z
        BY <4>1 DEF y, z
      <4>3. 2 * (g + 1) * y >= 2 * (g + 1) * z
        BY <1>1, <4>2
      <4> QED
        BY <4>3 DEF y, z
    <3>4. 2 * (g + 1) * (s - l2) >= 2 * g * s - 2 * g
      <4>1. 2 * (g + 1) * (s - l2) >= 2 * (g + 1) * (s - 1)
        BY <1>1, <1>2, <1>3
      <4>2. 2 * (g + 1) * (s - 1) = 2 * g * s - 2 * g + 2 * (s - 1)
        BY <1>1
      <4>3. 2 * (g + 1) * (s - l2) \in Int /\ 2 * g * s \in Int
        BY <1>1, <1>2
      <4> QED
        BY <1>1, <4>1, <4>2, <4>3
    <3>5. /\ g * (2 * (g + 1) * g + 2 * s) = 2 * (g + 1) * (g * g) + 2 * g * s
          /\ g * (g * Size) = g * g * Size
          /\ 2 * (g + 1) * (g * g) \in Int /\ 2 * g * s \in Int
          /\ g * g * Size \in Int /\ 2 * (g + 1) * (g * w2) \in Int
          /\ 2 * (g + 1) * (s - l2) \in Int
      <4>1. g * g \in Int /\ g * w2 \in Int
        BY <1>1, <1>4
      <4> QED
        BY <1>1, <1>2, <4>1
    <3> QED
      BY <1>1, <3>1, <3>2, <3>3, <3>4, <3>5
  <2>5. Safe(l, e, t) => Safe(l2, e2, s)
    BY <1>1, <1>11, <2>4 DEF Safe, r, g
  <2> QED
    BY <1>5, <1>10, <1>11, <2>2, <2>5 DEF Enters, w2
<1>12. CASE ~Within(l2, e2, s) /\ ~(l2 < s)
  <2>1. s = 1 /\ l2 = 1 /\ w2 = g
    BY <1>1, <1>6, <1>12
  <2>2. Spare(l2, e2, s) = 2 * (g + 1) * g + g * 1 - g * 1
    BY <1>1, <2>1 DEF Spare, g, w2
  <2>3. g * 1 = g
    BY <1>1
  <2>4. Safe(l2, e2, s) <=> Spare(l2, e2, s) >= g * Size - 2
    BY <1>12 DEF Safe, g
  <2>5. Safe(l, e, t) => Safe(l2, e2, s)
    <3> SUFFICES ASSUME Safe(l, e, t) PROVE Safe(l2, e2, s)
      OBVIOUS
    <3>1. g * Size =< 2 * (g + 1) * g + 2
      BY <1>7, <2>1
    <3>2. Spare(l2, e2, s) = 2 * (g + 1) * g
      BY <1>1, <1>9, <2>2, <2>3
    <3> QED
      BY <1>9, <2>4, <3>1, <3>2
  <2>6. e2 - l2 + 1 >= Mark(l, e, t) + Reads - 1 + Lag(l, t) /\ l2 = s
    BY <1>1, <1>4, <1>5, <2>1 DEF w2
  <2>7. Mark(l2, e2, s) >= Reads - 1
    BY <1>1, <1>2, <1>12, <2>1 DEF Mark, w2
  <2> QED
    BY <1>5, <1>10, <2>5, <2>6, <2>7 DEF Enters, w2
<1> QED
  BY <1>8, <1>11, <1>12

(* They reach from the first places, which the update overwrites, to the   *)
(* others.                                                                 *)
LEMMA AcrossLong ==
  ASSUME NEW l \in Nat, NEW e \in Nat, NEW t \in Nat,
         l =< e, e =< Size, t < Size, t + Reads > Size,
         NEW lo \in {0, 1}, NEW hi \in {0, 1}, lo + hi =< 1,
         NEW l2, NEW e2, NEW s,
         l2 = Across(l, t) + lo, e2 = Across(e, t) + Reads - hi,
         s = t + Reads - Size, l < t, l =< s, s < e, e =< t
  PROVE  Enters(l, e, t, l2, e2, s)
<1> DEFINE g == Reads - 1  a == Size - t  w == e - l  w2 == e2 - l2
           h == hi + lo
<1>1. /\ g \in Nat /\ g >= 2 /\ Reads = g + 1 /\ Size \in Nat /\ Size >= g + 1
      /\ a \in Nat /\ a >= 1 /\ s \in Nat /\ s >= 1 /\ a + s = g + 1
      /\ t = Size - a /\ w \in Nat
  BY RingSizes
<1>2. l2 \in Nat /\ e2 \in Nat /\ l2 =< e2
  BY AcrossBounds
<1>3. l2 = lo /\ e2 = e + a - hi
  <2>1. Across(l, t) = 0 /\ Across(e, t) = e - s
    BY <1>1 DEF Across
  <2> HIDE DEF g, a
  <2> QED
    BY <1>1, <2>1
<1>4. w2 = w + l + a - h /\ w2 \in Nat /\ h \in {0, 1} /\ w >= 1
  <2> HIDE DEF g, a
  <2> QED
    BY <1>1, <1>2, <1>3
<1>5. ~Within(l, e, t) /\ Mark(l, e, t) = w /\ Lag(l, t) = 0
  BY <1>1 DEF Within, Mark, Lag
<1>6. Safe(l, e, t) => 2 * (g + 1) * w + g * l + 2 * g * a >= g * Size
  <2>1. Spare(l, e, t) = 2 * (g + 1) * w + g * l + 2 * g * a
    BY <1>1 DEF Spare
  <2>2. Safe(l, e, t) <=> Spare(l, e, t) >= g * Size - 0
    BY <1>5 DEF Safe
  <2>3. g * Size \in Int
    BY <1>1
  <2> HIDE DEF g, a, w
  <2> QED
    BY <2>1, <2>2, <2>3
<1> HIDE DEF g, a, w, w2, h
<1>7. ASSUME Safe(l, e, t)
      PROVE  2 * (g + 1) * w2 >= g * Size + 2 * a - 2 * (g + 1) * h
  <2>1. 2 * (g + 1) * w2
          = (2 * (g + 1) * w + g * l + 2 * g * a) + (g + 2) * l + 2 * a
              - 2 * (g + 1) * h
    BY <1>1, <1>4
  <2>2. (g + 2) * l >= 0 /\ (g + 2) * l \in Int /\ 2 * (g + 1) * h \in Int
        /\ g * Size \in Int /\ 2 * (g + 1) * w2 \in Int
        /\ 2 * (g + 1) * w + g * l + 2 * g * a \in Int
    BY <1>1, <1>4
  <2> DEFINE y == 2 * (g + 1) * w + g * l + 2 * g * a
  <2>3. y >= g * Size
    BY <1>6, <1>7
  <2> HIDE DEF y
  <2> QED
    BY <1>1, <2>1, <2>2, <2>3 DEF y
<1>8. 2 * (g + 1) * w2 \in Int /\ g * Size \in Int /\ 2 * (g + 1) * h \in Int
      /\ 2 * (g + 1) * h =< 2 * (g + 1)
  BY <1>1, <1>4
<1>9. Safe(l, e, t) => 10 * w2 >= Size
  <2> SUFFICES ASSUME Safe(l, e, t) PROVE 10 * w2 >= Size
    OBVIOUS
  <2>1. 2 * (g + 1) * w2 >= g * Size - 2 * g
    BY <1>1, <1>7, <1>8
  <2>2. 2 * Reads * w2 >= (Reads - 1) * Size - 2 * (Reads - 1)
    BY <1>1, <2>1 DEF g
  <2> QED
    BY <1>4, <2>2, HalfEnough
<1>10. CASE lo < s
  <2>1. Within(l2, e2, s)
    <3>1. e2 >= s + 1
      BY <1>1, <1>3
    <3> QED
      BY <1>1, <1>2, <1>3, <1>10, <3>1 DEF Within
  <2>2. Mark(l2, e2, s) = s - lo
    BY <1>3, <2>1 DEF Mark
  <2>3. Mark(l2, e2, s) + (e2 - l2) + 1 >= Mark(l, e, t) + Reads - 1 + Lag(l, t)
    BY <1>1, <1>4, <1>5, <2>2 DEF w2, h
  <2> DEFINE r == Rest(l2, e2, s)
  <2>4. r = g * w2 + (s - lo)
    BY <1>1, <1>2, <1>3, RestIs DEF g, w2
  <2> HIDE DEF r
  <2>5. Safe(l, e, t) => 2 * (g + 1) * r >= g * g * Size - 2 * g
    <3> SUFFICES ASSUME Safe(l, e, t)
                 PROVE  2 * (g + 1) * r >= g * g * Size - 2 * g
      OBVIOUS
    <3>1. 2 * (g + 1) * r = g * (2 * (g + 1) * w2) + 2 * (g + 1) * (s - lo)
      BY <1>1, <1>4, <2>4
    <3>2. g * (2 * (g + 1) * w2) >= g * (g * Size + 2 * a - 2 * (g + 1) * h)
      BY <1>1, <1>7, <1>8
    <3>3. g * (g * Size + 2 * a - 2 * (g + 1) * h)
            = g * g * Size + 2 * g * a - 2 * (g * (g + 1)) * h
      BY <1>1, <1>4
    <3>4. 2 * g * a - 2 * (g * (g + 1)) * h + 2 * (g + 1) * (s - lo) >= -2 * g
      <4>1. a = g + 1 - s
        BY <1>1
      <4>2. CASE h = 0
        <5>1. lo = 0
          BY <1>4, <4>2 DEF h
        <5>2. 2 * g * a >= 0 /\ 2 * (g + 1) * (s - 0) >= 0
              /\ 2 * (g * (g + 1)) * 0 = 0
              /\ 2 * g * a \in Int /\ 2 * (g + 1) * (s - 0) \in Int
          BY <1>1
        <5> QED
          BY <1>1, <4>2, <5>1, <5>2
      <4>3. CASE h = 1 /\ lo = 0
        <5>1. 2 * g * (g + 1 - s) - 2 * (g * (g + 1)) * 1 + 2 * (g + 1) * (s - 0) = 2 * s
          BY <1>1
        <5> QED
          BY <1>1, <4>1, <4>3, <5>1
      <4>4. CASE h = 1 /\ lo = 1
        <5>1. 2 * g * (g + 1 - s) - 2 * (g * (g + 1)) * 1 + 2 * (g + 1) * (s - 1)
                = 2 * s - 2 * g - 2
          BY <1>1
        <5> QED
          BY <1>1, <4>1, <4>4, <5>1
      <4> QED
        BY <1>4, <4>2, <4>3, <4>4
    <3>5. /\ g * (2 * (g + 1) * w2) \in Int /\ 2 * (g + 1) * (s - lo) \in Int
          /\ g * g * Size \in Int /\ 2 * g * a \in Int
          /\ 2 * (g * (g + 1)) * h \in Int
      BY <1>1, <1>4, <1>8
    <3> QED
      BY <1>1, <3>1, <3>2, <3>3, <3>4, <3>5
  <2>6. Safe(l, e, t) => Safe(l2, e2, s)
    BY <1>1, <2>1, <2>5 DEF Safe, r, g
  <2> QED
    BY <1>5, <1>9, <2>1, <2>3, <2>6 DEF Enters, w2
<1>11. CASE ~(lo < s)
  <2>1. s = 1 /\ lo = 1 /\ hi = 0 /\ h = 1 /\ a = g /\ l2 = s
    BY <1>1, <1>3, <1>11 DEF h
  <2>2. ~Within(l2, e2, s) /\ Mark(l2, e2, s) = w2
    BY <2>1 DEF Within, Mark, w2
  <2>3. e2 - l2 + 1 >= Mark(l, e, t) + Reads - 1 + Lag(l, t)
    BY <1>1, <1>4, <1>5, <2>1 DEF w2
  <2>4. Mark(l2, e2, s) + (e2 - l2) + 1 >= Mark(l, e, t) + Reads - 1 + Lag(l, t)
    BY <1>1, <1>4, <1>5, <2>1, <2>2 DEF w2
  <2>5. Spare(l2, e2, s) = 2 * (g + 1) * w2 + g * 1 - g * 1
    BY <1>1, <2>1 DEF Spare, g, w2
  <2>6. Safe(l2, e2, s) <=> Spare(l2, e2, s) >= g * Size - 2
    <3>1. ~Within(l2, e2, s) /\ ~(l2 < s)
      BY <1>1, <2>1, <2>2
    <3>2. g = Reads - 1
      BY DEF g
    <3> QED
      BY <3>1, <3>2 DEF Safe
  <2>7. Safe(l, e, t) => Safe(l2, e2, s)
    <3> SUFFICES ASSUME Safe(l, e, t) PROVE Safe(l2, e2, s)
      OBVIOUS
    <3>1. 2 * (g + 1) * w2 >= g * Size - 2
      <4>1. 2 * (g + 1) * w2 >= g * Size + 2 * g - 2 * (g + 1) * 1
        BY <1>7, <2>1
      <4> QED
        BY <1>1, <1>8, <4>1
    <3>2. Spare(l2, e2, s) = 2 * (g + 1) * w2
      BY <1>1, <1>8, <2>5
    <3> QED
      BY <1>8, <2>6, <3>1, <3>2
  <2> QED
    BY <1>5, <1>9, <2>1, <2>3, <2>4, <2>7 DEF Enters, w2
<1> QED
  BY <1>10, <1>11

(* An update that goes across the end.  The places are cut there, but what *)
(* is in the first ones counts as a mark of the pass that begins.          *)
LEMMA StepAcross ==
  ASSUME NEW l \in Nat, NEW e \in Nat, NEW t \in Nat,
         l =< e, e =< Size, t < Size, t + Reads > Size,
         NEW lo \in {0, 1}, NEW hi \in {0, 1}, lo + hi =< 1,
         NEW l2, NEW e2, NEW s,
         l2 = Across(l, t) + lo, e2 = Across(e, t) + Reads - hi,
         s = t + Reads - Size
  PROVE  Passes(l, e, t, l2, e2, s) \/ Enters(l, e, t, l2, e2, s)
<1>1. Size \in Nat /\ Reads \in Nat /\ s \in Nat
  BY RingSizes
<1>0. l2 \in Nat
  BY AcrossBounds
<1>2. CASE t =< l
  BY <1>2, AcrossBehind
<1>3. CASE l < t /\ s < l /\ s =< l2
  BY <1>3, AcrossPasses
<1>4. CASE l < t /\ t < e /\ (l =< s \/ l2 < s)
  BY <1>4, AcrossWithin
<1>5. CASE l < t /\ e =< t /\ s < l /\ l2 < s
  BY <1>5, AcrossShort
<1>6. CASE l < t /\ l =< s /\ e =< s
  BY <1>6, AcrossFront
<1>7. CASE l < t /\ l =< s /\ s < e /\ e =< t
  BY <1>7, AcrossLong
<1> QED
  BY <1>0, <1>1, <1>2, <1>3, <1>4, <1>5, <1>6, <1>7

(* The index of the ring after so many readings.                           *)
Place(t, n) == IF t + n < Size THEN t + n ELSE t + n - Size

(* Progress is kept by every full update.                                  *)
LEMMA ProgressStep ==
  ASSUME NEW l \in Nat, NEW e \in Nat, NEW t \in Nat,
         l =< e, e =< Size, t < Size,
         NEW lo \in {0, 1}, NEW hi \in {0, 1}, lo + hi =< 1,
         NEW l2, NEW e2,
         l2 = Kept(l, t) + lo, e2 = Kept(e, t) + Reads - hi,
         NEW m \in Nat, NEW n \in Nat, n = m \/ n = m + 1, n = m + 1 => 10 * (e2 - l2) < Size,
         Progress(l, e, t, m)
  PROVE  Progress(l2, e2, Place(t, Reads), n)
<1>1. Size \in Nat /\ Reads \in Nat /\ n \in Nat
  BY RingSizes
<1>4. \A a, b, s \in Nat :
          /\ a =< b /\ (n = m + 1 => 10 * (b - a) < Size)
          /\ Passes(l, e, t, a, b, s) \/ Enters(l, e, t, a, b, s)
          => Progress(a, b, s, n)
  <2> TAKE a, b, s \in Nat
  <2> HAVE /\ a =< b /\ (n = m + 1 => 10 * (b - a) < Size)
           /\ Passes(l, e, t, a, b, s) \/ Enters(l, e, t, a, b, s)
  <2> QED
    BY ProgressRule
<1>2. CASE t + Reads =< Size
  <2> DEFINE s == t + Reads
  <2>1. s \in Nat /\ s =< Size
    BY <1>1, <1>2
  <2>2. l2 = Ahead(l, t) + lo /\ e2 = Ahead(e, t) + Reads - hi
    BY <1>2 DEF Kept
  <2>3. l2 \in Nat /\ e2 \in Nat /\ l2 =< e2 /\ e2 =< Size
    BY <1>2, <2>2, AheadBounds
  <2>4. Passes(l, e, t, l2, e2, s) \/ Enters(l, e, t, l2, e2, s)
    BY <1>2, <2>2, StepAhead
  <2> HIDE DEF s
  <2>5. Progress(l2, e2, s, n)
    BY <1>4, <2>1, <2>3, <2>4
  <2>6. CASE s = Size
    <3>1. Place(t, Reads) = 0
      BY <1>1, <2>6 DEF Place, s
    <3>2. Progress(l2, e2, Size, n)
      BY <2>5, <2>6
    <3>3. Progress(l2, e2, 0, n)
      BY <1>1, <2>3, <3>2, ProgressWrap
    <3> QED
      BY <3>1, <3>3
  <2>7. CASE s # Size
    <3>1. Place(t, Reads) = s
      BY <1>1, <2>1, <2>7 DEF Place, s
    <3> QED
      BY <2>5, <3>1
  <2> QED
    BY <2>6, <2>7
<1>3. CASE t + Reads > Size
  <2> DEFINE s == t + Reads - Size
  <2>1. s \in Nat /\ Place(t, Reads) = s
    BY <1>1, <1>3 DEF Place
  <2>2. l2 = Across(l, t) + lo /\ e2 = Across(e, t) + Reads - hi
    BY <1>1, <1>3 DEF Kept
  <2>3. l2 \in Nat /\ e2 \in Nat /\ l2 =< e2 /\ e2 =< Size
    BY <1>3, <2>2, AcrossBounds
  <2>4. Passes(l, e, t, l2, e2, s) \/ Enters(l, e, t, l2, e2, s)
    BY <1>3, <2>2, StepAcross
  <2> HIDE DEF s
  <2>5. Progress(l2, e2, s, n)
    BY <1>4, <2>1, <2>3, <2>4
  <2> QED
    BY <2>1, <2>5
<1> QED
  BY <1>1, <1>2, <1>3

-----------------------------------------------------------------------------
(* The invariant.                                                          *)

(* The ring index after an update.                                         *)
LEMMA NextPlace ==
  ASSUME NEW t \in 0..Size-1, NEW n \in 0..Size
  PROVE  (t + n) % Size = Place(t, n) /\ Place(t, n) \in 0..Size-1
<1>1. Size \in Nat \ {0} /\ t \in Nat /\ t < Size /\ n \in Nat /\ n =< Size
  BY RingSizes
<1>2. CASE t + n < Size
  <2> DEFINE a == t + n
  <2>1. a \in Nat /\ -Size =< a /\ a < Size
    BY <1>1, <1>2
  <2> HIDE DEF a
  <2>2. a % Size = a
    BY <1>1, <2>1, Wrapped
  <2>3. Place(t, n) = a
    BY <1>2 DEF Place, a
  <2> QED
    BY <1>1, <2>1, <2>2, <2>3 DEF a
<1>3. CASE ~(t + n < Size)
  <2> DEFINE a == t + n - Size
  <2>1. a \in Nat /\ a < Size /\ t + n = Size * 1 + a /\ t + n \in Int
    BY <1>1, <1>3
  <2> HIDE DEF a
  <2>2. (t + n) % Size = a
    BY <1>1, <2>1
  <2> QED
    BY <1>1, <1>3, <2>1, <2>2 DEF Place, a
<1> QED
  BY <1>2, <1>3

(* A history that is not yet full ends before the next place.              *)
LEMMA NextEnd ==
  ASSUME NEW d, NEW t, Ring(d, t), Len(d) \in Nat, NEW n \in 0..Size
  PROVE  /\ Filled(d, n) \in Nat /\ Filled(d, n) =< Size
         /\ Len(d) + n > 0 => Filled(d, n) > 0
         /\ Filled(d, n) < Size => Place(t, n) = Filled(d, n)
BY RingSizes DEF Ring, Filled, Place

(* The inductive invariant.  The history is sorted, as Median leaves it;   *)
(* until it is full the next place is its end.  The refusals are bounded   *)
(* by the progress of the water's reading.                                 *)
IInv ==
  /\ TypeOK
  /\ Ordered(data)
  /\ Len(data) < Size => ttl = Len(data)
  /\ water = NoReading => misses = 0
  /\ data = <<>> => temp = NoReading
  /\ water # NoReading =>
       Progress(UpTo(data, water - 1), UpTo(data, water), ttl, misses)

(* Nothing is in order.                                                    *)
LEMMA EmptyHistory ==
  Ordered(<<>>) /\ \A x \in Int : UpTo(<<>>, x) = 0
<1>1. \A x \in Int : {i \in DOMAIN <<>> : <<>>[i] =< x} = {}
  OBVIOUS
<1>2. \A x \in Int : UpTo(<<>>, x) = 0
  BY <1>1, FS_EmptySet DEF UpTo
<1>3. 1..0 = {}
  OBVIOUS
<1> QED
  BY <1>1, <1>2, <1>3 DEF Ordered

(* The invariant holds initially.                                          *)
LEMMA InitInv == Init => IInv
<1> SUFFICES ASSUME Init PROVE IInv
  OBVIOUS
<1>1. TypeOK
  <2>1. Size \in Nat \ {0} /\ <<>> \in Seq(Readings) /\ Len(<<>>) = 0
    BY RingSizes
  <2>2. failed \in BOOLEAN
    BY DEF Init
  <2>3. data = <<>> /\ ttl = 0 /\ temp = NoReading /\ misses = 0
        /\ water \in Readings \cup {NoReading}
    BY DEF Init
  <2> QED
    BY <2>1, <2>2, <2>3 DEF TypeOK
<1>2. Ordered(data)
  BY EmptyHistory DEF Init
<1>3. ttl = Len(data)
  BY DEF Init
<1>4. ASSUME water # NoReading
      PROVE  Progress(UpTo(data, water - 1), UpTo(data, water), ttl, misses)
  <2>1. water \in Nat \ {0}
    BY <1>4, ThermometerAssumption DEF ThermometerAssumption, Init
  <2>2. water \in Int /\ water - 1 \in Int
    BY <2>1
  <2>3. UpTo(data, water - 1) = 0 /\ UpTo(data, water) = 0
    BY <2>2, EmptyHistory DEF Init
  <2>4. 0 \in Nat /\ 0 =< 0
    OBVIOUS
  <2>5. Progress(0, 0, 0, 0)
    BY <2>4, ProgressStart
  <2> QED
    BY <2>3, <2>5 DEF Init
<1> QED
  BY <1>1, <1>2, <1>3, <1>4 DEF IInv, Init

(* The facts about the state that every step uses.                         *)
LEMMA HistoryFacts ==
  ASSUME IInv
  PROVE  /\ data \in Seq(Readings) /\ data \in Seq(Nat) /\ Len(data) \in Nat
         /\ Ring(data, ttl) /\ Ordered(data) /\ ttl \in 0..Size-1
         /\ Readings \subseteq Nat \ {0} /\ Readings \subseteq Nat
         /\ misses \in Nat
<1>1. /\ data \in Seq(Readings) /\ Len(data) =< Size
      /\ ttl \in 0..Size-1 /\ misses \in Nat
      /\ Len(data) < Size => ttl = Len(data)
      /\ Ordered(data)
  BY DEF IInv, TypeOK
<1>2. Readings \subseteq Nat \ {0} /\ Readings \subseteq Nat
  BY ThermometerAssumption DEF ThermometerAssumption
<1>3. data \in Seq(Nat)
  BY <1>1, <1>2, Wider
<1>4. ttl \in Nat /\ ttl < Size
  BY <1>1, RingSizes
<1> QED
  BY <1>1, <1>2, <1>3, <1>4 DEF Ring

(* The updates: none from a dead sensor, n readings from a live one.       *)
LEMMA SamplesAre ==
  ASSUME IInv, NEW rs \in Samples
  PROVE  /\ rs \in Seq(Readings) /\ Len(rs) \in 0..Reads
         /\ water = NoReading => Len(rs) = 0
         /\ water # NoReading =>
              \E v \in Readings : rs = Sample(Len(rs), v, water)
<1>1. PICK n \in (IF water = NoReading THEN {0} ELSE 0..Reads), v \in Readings :
        rs = Sample(n, v, water)
  BY DEF Samples, Sample
<1>2. n \in Nat /\ n \in 0..Reads /\ (water = NoReading => n = 0)
  BY <1>1, RingSizes
<1>3. water \in Readings \cup {NoReading}
  BY DEF IInv, TypeOK
<1>4. CASE n = 0
  <2>1. rs = <<>>
    BY <1>1, <1>4 DEF Sample
  <2>2. rs \in Seq(Readings) /\ Len(rs) = 0 /\ 0 \in 0..Reads
    BY <2>1, RingSizes
  <2>3. rs = Sample(Len(rs), v, water)
    BY <1>1, <1>4, <2>2
  <2> QED
    BY <2>2, <2>3
<1>5. CASE n # 0
  <2>1. water \in Readings
    BY <1>2, <1>3, <1>5
  <2>2. rs \in Seq(Readings) /\ Len(rs) = n
    BY <1>1, <1>2, <2>1, SampleType
  <2> QED
    BY <1>1, <1>2, <1>5, <2>2
<1> QED
  BY <1>4, <1>5

(* What becomes of the history in an update.                               *)
LEMMA UpdateIs ==
  ASSUME IInv, NEW rs \in Samples, Update(rs)
  PROVE  /\ Pushed(data, ttl, rs) \in Seq(Readings)
         /\ Pushed(data, ttl, rs) \in Seq(Nat)
         /\ Len(Pushed(data, ttl, rs)) = Filled(data, Len(rs))
         /\ data' \in Seq(Readings) /\ data' \in Seq(Nat)
         /\ Len(data') = Filled(data, Len(rs)) /\ Ordered(data')
         /\ \A x \in Nat : UpTo(data', x) = UpTo(Pushed(data, ttl, rs), x)
         /\ ttl' = Place(ttl, Len(rs)) /\ ttl' \in 0..Size-1
<1> DEFINE p == Pushed(data, ttl, rs)
           n == Len(rs)
<1>1. rs \in Seq(Readings) /\ n \in 0..Size /\ n \in Nat /\ n =< Size
  BY SamplesAre, RingSizes
<1>2. data \in Seq(Readings) /\ Ring(data, ttl) /\ Readings \subseteq Nat
      /\ ttl \in 0..Size-1
  BY HistoryFacts
<1>3. p \in Seq(Readings) /\ Len(p) = Filled(data, n)
  <2> HIDE DEF p
  <2>1. /\ Pushed(data, ttl, rs) \in Seq(Readings)
        /\ Len(Pushed(data, ttl, rs)) = Filled(data, Len(rs))
    BY <1>1, <1>2, PushedType
  <2> QED
    BY <2>1 DEF p
<1>4. data' = Sorted(p) /\ ttl' = (ttl + n) % Size
  BY DEF Update, Remembered
<1>5. ttl' = Place(ttl, n) /\ ttl' \in 0..Size-1
  <2> HIDE DEF n
  <2>1. (ttl + n) % Size = Place(ttl, n) /\ Place(ttl, n) \in 0..Size-1
    BY <1>1, <1>2, NextPlace
  <2> QED
    BY <1>4, <2>1
<1> HIDE DEF p, n
<1>6. p \in Seq(Nat)
  BY <1>2, <1>3, Wider
<1>7. data' \in Seq(Readings) /\ Len(data') = Filled(data, n)
  BY <1>2, <1>3, <1>4, SortedType
<1>8. data' \in Seq(Nat)
  BY <1>2, <1>7, Wider
<1>9. Ordered(data') /\ \A x \in Nat : UpTo(data', x) = UpTo(p, x)
  BY <1>4, <1>6, SortedOrdered
<1> QED
  BY <1>3, <1>5, <1>6, <1>7, <1>8, <1>9 DEF p, n

(* The median of an update: what the water reads if there are three        *)
(* readings or more.                                                       *)
LEMMA MedianIs ==
  ASSUME IInv, NEW rs \in Samples
  PROVE  /\ rs = <<>> => Median(rs) = NoReading
         /\ rs # <<>> => Median(rs) \in Range(rs) /\ Median(rs) \in Readings
         /\ Len(rs) >= 3 => Median(rs) = water
<1>1. /\ rs \in Seq(Readings) /\ Len(rs) \in 0..Reads /\ Len(rs) \in Nat
      /\ water = NoReading => Len(rs) = 0
      /\ water # NoReading => \E v \in Readings : rs = Sample(Len(rs), v, water)
  BY SamplesAre
<1>2. Readings \subseteq Nat \ {0} /\ Readings \subseteq Nat
  BY HistoryFacts
<1>3. rs \in Seq(Nat)
  BY <1>1, <1>2, Wider
<1>4. rs = <<>> => Median(rs) = NoReading
  BY DEF Median
<1>5. rs # <<>> => Median(rs) \in Range(rs)
  BY <1>3, MedianIn
<1>6. Range(rs) \subseteq Readings
  BY <1>1 DEF Range
<1>7. ASSUME Len(rs) >= 3 PROVE Median(rs) = water
  <2>1. water # NoReading
    BY <1>1, <1>7
  <2>2. PICK v \in Readings : rs = Sample(Len(rs), v, water)
    BY <1>1, <2>1
  <2>3. water \in Nat \ {0} /\ v \in Nat
    BY <1>2, <2>1 DEF IInv, TypeOK
  <2> DEFINE n == Len(rs)
  <2>4. n \in Nat /\ n >= 3
    BY <1>1, <1>7
  <2> HIDE DEF n
  <2>5. Median(Sample(n, v, water)) = water
    BY <2>3, <2>4, SampleMedian
  <2> QED
    BY <2>2, <2>5 DEF n
<1> QED
  BY <1>4, <1>5, <1>6, <1>7

(* The marks of the water after a full update.                             *)
LEMMA FullCounts ==
  ASSUME IInv, NEW rs \in Samples, Update(rs), Len(rs) = Reads
  PROVE  /\ water \in Nat \ {0}
         /\ \E lo, hi \in {0, 1} :
              /\ lo + hi =< 1
              /\ UpTo(data', water - 1) = Kept(UpTo(data, water - 1), ttl) + lo
              /\ UpTo(data', water) = Kept(UpTo(data, water), ttl) + Reads - hi
<1>1. Reads \in Nat /\ Reads >= 3
  BY RingSizes
<1>2. rs \in Seq(Readings) /\ water # NoReading
  BY <1>1, SamplesAre
<1>3. PICK v \in Readings : rs = Sample(Reads, v, water)
  BY <1>2, SamplesAre
<1>4. Readings \subseteq Nat \ {0} /\ Readings \subseteq Nat
  BY HistoryFacts
<1>5. water \in Nat \ {0} /\ v \in Nat
  BY <1>2, <1>4 DEF IInv, TypeOK
<1> DEFINE lo == IF v < water THEN 1 ELSE 0
           hi == IF v > water THEN 1 ELSE 0
<1>6. UpTo(rs, water - 1) = lo /\ UpTo(rs, water) = Reads - hi
  BY <1>1, <1>3, <1>5, SampleCounts
<1>7. lo \in {0, 1} /\ hi \in {0, 1} /\ lo + hi =< 1
  BY <1>5
<1>8. water - 1 \in Nat /\ water \in Nat
  BY <1>5
<1>9. rs \in Seq(Nat)
  BY <1>2, <1>4, Wider
<1>10. data \in Seq(Nat) /\ Ring(data, ttl) /\ Ordered(data)
  BY HistoryFacts
<1>11. \A x \in Nat : /\ UpTo(data', x) = Kept(UpTo(data, x), ttl) + UpTo(rs, x)
                      /\ Kept(UpTo(data, x), ttl) \in Nat
  <2> SUFFICES ASSUME NEW x \in Nat
               PROVE  /\ UpTo(data', x) = Kept(UpTo(data, x), ttl) + UpTo(rs, x)
                      /\ Kept(UpTo(data, x), ttl) \in Nat
    OBVIOUS
  <2>1. /\ UpTo(Pushed(data, ttl, rs), x) = Kept(UpTo(data, x), ttl) + UpTo(rs, x)
        /\ Kept(UpTo(data, x), ttl) \in Nat
    BY <1>9, <1>10, PushedCounts
  <2>2. UpTo(data', x) = UpTo(Pushed(data, ttl, rs), x)
    BY UpdateIs
  <2> QED
    BY <2>1, <2>2
<1> HIDE DEF lo, hi
<1>12. /\ UpTo(data', water - 1) = Kept(UpTo(data, water - 1), ttl) + lo
       /\ UpTo(data', water) = Kept(UpTo(data, water), ttl) + (Reads - hi)
       /\ Kept(UpTo(data, water), ttl) \in Nat
  BY <1>6, <1>8, <1>11
<1>13. UpTo(data', water) = Kept(UpTo(data, water), ttl) + Reads - hi
  BY <1>1, <1>7, <1>12
<1> QED
  BY <1>5, <1>7, <1>12, <1>13

(* The counts at the water's reading are those of places.                  *)
LEMMA CountsAre ==
  ASSUME NEW d \in Seq(Nat), NEW w \in Nat \ {0}
  PROVE  /\ UpTo(d, w - 1) \in Nat /\ UpTo(d, w) \in Nat
         /\ UpTo(d, w - 1) =< UpTo(d, w) /\ UpTo(d, w) =< Len(d)
<1>1. w \in Int /\ w - 1 \in Int /\ w - 1 =< w /\ Len(d) \in Nat
  OBVIOUS
<1>2. UpTo(d, w) \in 0..Len(d) /\ UpTo(d, w - 1) \in 0..Len(d)
  BY <1>1, UpToType, Zenon
<1>3. UpTo(d, w - 1) =< UpTo(d, w)
  BY <1>1, UpToType, Zenon
<1> QED
  BY <1>1, <1>2, <1>3

(* A full update is refused only while the water makes up less than a      *)
(* tenth of the history.                                                   *)
LEMMA RefusedMark ==
  ASSUME IInv, NEW rs \in Samples, Update(rs), water \in Nat \ {0},
         TooFar(Pushed(data, ttl, rs), water)
  PROVE  10 * (UpTo(data', water) - UpTo(data', water - 1)) < Len(data')
<1> DEFINE p == Pushed(data, ttl, rs)
<1>1. /\ p \in Seq(Nat) /\ Len(p) = Len(data')
      /\ \A x \in Nat : UpTo(data', x) = UpTo(p, x)
  BY UpdateIs
<1> HIDE DEF p
<1>2. Nat \subseteq Int /\ water \in Int /\ water \in Nat /\ water - 1 \in Nat
  OBVIOUS
<1>3. p \in Seq(Int)
  BY <1>1, <1>2, Wider
<1>4. TooFar(p, water)
  BY DEF p
<1>5. 10 * Cardinality(EqualTo(p, water)) < Len(p)
  BY <1>2, <1>3, <1>4, Tenth
<1>6. Cardinality(EqualTo(p, water)) = UpTo(p, water) - UpTo(p, water - 1)
  BY <1>1, EqualCount
<1> QED
  BY <1>1, <1>2, <1>5, <1>6

(* A full update keeps the progress,                                       *)
LEMMA FullProgress ==
  ASSUME IInv, NEW rs \in Samples, Update(rs), Len(rs) = Reads
  PROVE  Progress(UpTo(data', water - 1), UpTo(data', water), ttl', misses')
<1> DEFINE l == UpTo(data, water - 1)  e == UpTo(data, water)
           l2 == UpTo(data', water - 1)  e2 == UpTo(data', water)
           m == misses  k == misses'
<1>1. water \in Nat \ {0} /\ water # NoReading
  BY FullCounts DEF NoReading
<1>2. PICK lo \in {0, 1}, hi \in {0, 1} :
        lo + hi =< 1 /\ l2 = Kept(l, ttl) + lo /\ e2 = Kept(e, ttl) + Reads - hi
  BY FullCounts
<1>3. l \in Nat /\ e \in Nat /\ l =< e /\ e =< Size
  <2>1. data \in Seq(Nat) /\ Len(data) =< Size /\ Len(data) \in Nat
    BY HistoryFacts DEF Ring
  <2>2. l \in Nat /\ e \in Nat /\ l =< e /\ e =< Len(data)
    BY <1>1, <2>1, CountsAre
  <2> HIDE DEF l, e
  <2> QED
    BY <2>1, <2>2, RingSizes
<1>4. ttl \in Nat /\ ttl < Size /\ ttl' = Place(ttl, Reads)
  BY HistoryFacts, UpdateIs DEF Ring
<1>5. Median(rs) = water
  BY MedianIs, RingSizes
<1>6. /\ m \in Nat /\ k \in Nat /\ (k = m \/ k = m + 1)
      /\ k = m + 1 => TooFar(Pushed(data, ttl, rs), water)
  <2>1. m \in Nat
    BY HistoryFacts
  <2>2. k = IF TooFar(Pushed(data, ttl, rs), water) THEN m + 1 ELSE m
    <3>1. ~(Reads < Reads)
      BY RingSizes
    <3> QED
      BY <1>5, <3>1 DEF Update
  <2> HIDE DEF m, k
  <2> QED
    BY <2>1, <2>2
<1>7. k = m + 1 => 10 * (e2 - l2) < Size
  <2>1. k = m + 1 => 10 * (e2 - l2) < Len(data')
    BY <1>1, <1>6, RefusedMark
  <2>2. Len(data') \in Nat /\ Len(data') =< Size
    <3>1. Len(data') = Filled(data, Reads) /\ Reads \in 0..Size
      BY UpdateIs, RingSizes
    <3> QED
      BY <3>1, HistoryFacts, NextEnd
  <2>3. e2 \in Nat /\ l2 \in Nat
    BY <1>1, UpdateIs, CountsAre
  <2> HIDE DEF l2, e2, k, m
  <2> QED
    BY <2>1, <2>2, <2>3, RingSizes
<1>8. Progress(l, e, ttl, m)
  BY <1>1 DEF IInv
<1> HIDE DEF l, e, l2, e2, m, k
<1>9. Progress(l2, e2, Place(ttl, Reads), k)
  BY <1>2, <1>3, <1>4, <1>6, <1>7, <1>8, ProgressStep
<1> QED
  BY <1>4, <1>9 DEF l2, e2, k

(* and any update the invariant;                                           *)
LEMMA UpdateInv ==
  ASSUME IInv, NEW rs \in Samples, Update(rs)
  PROVE  IInv'
<1> DEFINE n == Len(rs)
<1>1. /\ data' \in Seq(Readings) /\ data' \in Seq(Nat) /\ Ordered(data')
      /\ Len(data') = Filled(data, n)
      /\ ttl' = Place(ttl, n) /\ ttl' \in 0..Size-1
  BY UpdateIs
<1>2. n \in 0..Reads /\ n \in 0..Size /\ n \in Nat
  BY SamplesAre, RingSizes
<1>3. water' = water /\ failed' \in BOOLEAN /\ temp' \in {temp, Median(rs)}
      /\ misses' \in {0, misses, misses + 1}
  BY DEF Update, TooFar
<1>4. /\ TypeOK /\ misses \in Nat /\ (data = <<>> => temp = NoReading)
      /\ water = NoReading => misses = 0
  BY DEF IInv, TypeOK
<1>5. Median(rs) \in Readings \cup {NoReading} /\ (rs = <<>> => Median(rs) = NoReading)
  BY MedianIs
<1>6. /\ Filled(data, n) \in Nat /\ Filled(data, n) =< Size
      /\ Len(data) + n > 0 => Filled(data, n) > 0
      /\ Filled(data, n) < Size => Place(ttl, n) = Filled(data, n)
  BY <1>2, HistoryFacts, NextEnd
<1>7. misses' \in Nat
  BY <1>3, <1>4
<1>8. TypeOK'
  BY <1>1, <1>3, <1>4, <1>5, <1>6, <1>7 DEF TypeOK
<1>9. (Len(data) < Size => ttl = Len(data))'
  BY <1>1, <1>6
<1>10. (data = <<>> => temp = NoReading)'
  <2> SUFFICES ASSUME data' = <<>> PROVE temp' = NoReading
    OBVIOUS
  <2>1. Filled(data, n) = 0
    BY <1>1
  <2>2. Len(data) = 0 /\ n = 0
    BY <1>2, <1>6, <2>1, HistoryFacts
  <2>3. data = <<>> /\ rs = <<>>
    BY <2>2, HistoryFacts, SamplesAre
  <2> QED
    BY <1>3, <1>4, <1>5, <2>3
<1>11. n < Reads => misses' = 0
  BY DEF Update
<1>12. (water = NoReading => misses = 0)'
  <2> SUFFICES ASSUME water = NoReading PROVE misses' = 0
    BY <1>3
  <2>1. n = 0
    BY SamplesAre
  <2> QED
    BY <1>11, <2>1, RingSizes
<1>13. (water # NoReading =>
          Progress(UpTo(data, water - 1), UpTo(data, water), ttl, misses))'
  <2> SUFFICES ASSUME water # NoReading
               PROVE  Progress(UpTo(data', water - 1), UpTo(data', water),
                               ttl', misses')
    BY <1>3
  <2>1. CASE n = Reads
    BY <2>1, FullProgress
  <2>2. CASE n # Reads
    <3>1. misses' = 0
      BY <1>2, <1>11, <2>2, RingSizes
    <3>2. water \in Nat \ {0}
      BY HistoryFacts DEF IInv, TypeOK
    <3>3. /\ UpTo(data', water - 1) \in Nat /\ UpTo(data', water) \in Nat
          /\ UpTo(data', water - 1) =< UpTo(data', water)
      BY <1>1, <3>2, CountsAre
    <3>4. ttl' \in Nat
      BY <1>1, RingSizes
    <3>5. Progress(UpTo(data', water - 1), UpTo(data', water), ttl', 0)
      BY <3>3, <3>4, ProgressStart
    <3> QED
      BY <3>1, <3>5
  <2> QED
    BY <2>1, <2>2
<1>14. Ordered(data)'
  BY <1>1
<1> QED
  BY <1>8, <1>9, <1>10, <1>12, <1>13, <1>14 DEF IInv

(* so does a change of the water.                                          *)
LEMMA ChangeInv ==
  ASSUME IInv, Change
  PROVE  IInv'
<1>1. /\ water' \in Readings \cup {NoReading} /\ misses' = 0
      /\ data' = data /\ ttl' = ttl /\ temp' = temp /\ failed' = failed
  BY DEF Change
<1>2. /\ TypeOK /\ Ordered(data)
      /\ Len(data) < Size => ttl = Len(data)
      /\ data = <<>> => temp = NoReading
  BY DEF IInv
<1>3. TypeOK'
  BY <1>1, <1>2 DEF TypeOK
<1>4. ASSUME water' # NoReading
      PROVE  Progress(UpTo(data, water' - 1), UpTo(data, water'), ttl, 0)
  <2>1. data \in Seq(Nat) /\ Ring(data, ttl) /\ Readings \subseteq Nat \ {0}
    BY HistoryFacts
  <2>2. water' \in Nat \ {0}
    BY <1>1, <1>4, <2>1
  <2> DEFINE w == water'
  <2>3. w \in Nat \ {0}
    BY <2>2
  <2> HIDE DEF w
  <2>4. /\ UpTo(data, w - 1) \in Nat /\ UpTo(data, w) \in Nat
        /\ UpTo(data, w - 1) =< UpTo(data, w)
    BY <2>1, <2>3, CountsAre
  <2>5. ttl \in Nat
    BY <2>1 DEF Ring
  <2>6. Progress(UpTo(data, w - 1), UpTo(data, w), ttl, 0)
    BY <2>4, <2>5, ProgressStart
  <2> QED
    BY <2>6 DEF w
<1>5. Ordered(data)'
  BY <1>1, <1>2
<1>6. (water # NoReading =>
         Progress(UpTo(data, water - 1), UpTo(data, water), ttl, misses))'
  BY <1>1, <1>4
<1> QED
  BY <1>1, <1>2, <1>3, <1>5, <1>6 DEF IInv

(* So every step does.                                                     *)
LEMMA StepInv == IInv /\ [Next]_vars => IInv'
<1> SUFFICES ASSUME IInv, [Next]_vars PROVE IInv'
  OBVIOUS
<1>1. CASE Change
  BY <1>1, ChangeInv
<1>2. CASE \E rs \in Samples : Update(rs)
  BY <1>2, UpdateInv
<1>3. CASE UNCHANGED vars
  BY <1>3 DEF IInv, TypeOK, Ordered, UpTo, vars
<1> QED
  BY <1>1, <1>2, <1>3 DEF Next

-----------------------------------------------------------------------------
(* The theorems.                                                           *)

(* The invariant holds in every reachable state.                           *)
THEOREM InductiveInvariant == Spec => []IInv
BY InitInv, StepInv, PTL DEF Spec

(* The history never outgrows its size and holds nothing but readings, the *)
(* index of the ring stays in it.                                          *)
THEOREM TypeCorrect == Spec => []TypeOK
<1>1. IInv => TypeOK
  BY DEF IInv
<1> QED
  BY <1>1, InductiveInvariant, PTL

(* The invariant bounds the refusals, whatever the sensor.                 *)
LEMMA MissesBound == IInv => ChangeAccepted
<1> SUFFICES ASSUME IInv PROVE misses =< Patience
  BY DEF ChangeAccepted
<1>1. misses \in Nat
  BY DEF IInv, TypeOK
<1>2. CASE water = NoReading
  <2>1. misses = 0
    BY <1>2 DEF IInv
  <2> QED
    BY <2>1, PatienceType
<1>3. CASE water # NoReading
  BY <1>1, <1>3, ProgressBound DEF IInv
<1> QED
  BY <1>2, <1>3

(* After any change of the water, and with a disturbed reading in every    *)
(* update, at most Patience full updates are refused (thermometer.go:239): *)
(* for every size of the history, wherever the updates go across its end.  *)
THEOREM ChangeAcceptedHolds == Spec => []ChangeAccepted
BY InductiveInvariant, MissesBound, PTL

(* An accepted value is the median of an update.                           *)
LEMMA Accepted ==
  ASSUME IInv, [Next]_vars, temp' # temp
  PROVE  \E rs \in Samples :
           Update(rs) /\ temp' = Median(rs) /\ ~TooFar(Pushed(data, ttl, rs), temp')
<1>1. ~Change /\ ~UNCHANGED vars
  BY DEF Change, vars
<1>2. PICK rs \in Samples : Update(rs)
  BY <1>1 DEF Next
<1>3. temp' = Median(rs) /\ ~TooFar(Pushed(data, ttl, rs), Median(rs))
  BY <1>2 DEF Update
<1> QED
  BY <1>2, <1>3

(* The index of the ring moves by the number of the readings.              *)
LEMMA MovedBy ==
  ASSUME NEW t \in 0..Size-1, NEW n \in 0..Size-1
  PROVE  (Place(t, n) - t) % Size = n
<1>1. Size \in Nat \ {0} /\ t \in Nat /\ t < Size /\ n \in Nat /\ n < Size
  BY RingSizes
<1> DEFINE a == Place(t, n) - t
<1>2. a \in Int /\ -Size =< a /\ a < Size /\ n = (IF a < 0 THEN a + Size ELSE a)
  BY <1>1 DEF Place
<1> HIDE DEF a
<1>3. a % Size = IF a < 0 THEN a + Size ELSE a
  BY <1>1, <1>2, Wrapped
<1> QED
  BY <1>2, <1>3 DEF a

(* The accepted value is what an undisturbed sensor reads.                 *)
LEMMA DisturbanceStep ==
  ASSUME IInv, [Next]_vars, temp' # temp
  PROVE  temp' = water \/ (ttl' - ttl) % Size < 3
<1>1. PICK rs \in Samples : Update(rs) /\ temp' = Median(rs)
  BY Accepted
<1> DEFINE n == Len(rs)
<1>2. n \in 0..Reads
  BY SamplesAre
<1>3. CASE n >= 3
  BY <1>1, <1>3, MedianIs
<1>4. CASE ~(n >= 3)
  <2>1. n \in 0..Size-1 /\ n < 3
    BY <1>2, <1>4, RingSizes
  <2>2. ttl' = Place(ttl, n) /\ ttl \in 0..Size-1
    BY <1>1, UpdateIs, HistoryFacts
  <2> HIDE DEF n
  <2>3. (Place(ttl, n) - ttl) % Size = n
    BY <2>1, <2>2, MovedBy
  <2>4. (ttl' - ttl) % Size = n
    BY <2>2, <2>3
  <2> QED
    BY <2>1, <2>4
<1> QED
  BY <1>3, <1>4

(* The accepted value only ever becomes what an undisturbed sensor reads   *)
(* (thermometer.go:239): a single disturbed reading never gets through,    *)
(* unless the update has only two readings or one.                         *)
THEOREM DisturbanceIgnoredHolds == Spec => DisturbanceIgnored
<1>1. IInv /\ [Next]_vars
        => (temp' # temp => temp' = water \/ (ttl' - ttl) % Size < 3)
  BY DisturbanceStep
<1>2. IInv /\ [Next]_vars
        => [temp' # temp => temp' = water \/ (ttl' - ttl) % Size < 3]_vars
  BY <1>1
<1> QED
  BY <1>2, InductiveInvariant, PTL DEF Spec, DisturbanceIgnored

(* What a step is to the controller.                                       *)
LEMMA ProbeStep ==
  ASSUME IInv, IInv', [Next]_vars
  PROVE  [\/ Contract!Accept \/ Contract!Refuse
          \/ Contract!Guess \/ Contract!Change]_Contract!vars
<1>1. CASE Change
  BY <1>1 DEF Change, Contract!Change
<1>2. CASE UNCHANGED vars
  BY <1>2 DEF vars, Contract!vars
<1>3. CASE \E rs \in Samples : Update(rs)
  <2>1. PICK rs \in Samples : Update(rs)
    BY <1>3
  <2>2. /\ water' = water /\ temp' \in {temp, Median(rs)}
        /\ Len(rs) < Reads => misses' = 0
        /\ ~(Len(rs) < Reads) =>
             \/ temp' = temp /\ misses' = misses + 1
             \/ temp' = Median(rs) /\ misses' = misses
    BY <2>1 DEF Update
  <2>3. /\ rs = <<>> => Median(rs) = NoReading
        /\ rs # <<>> => Median(rs) \in Readings
        /\ Len(rs) >= 3 => Median(rs) = water
    BY MedianIs
  <2>4. CASE water = NoReading
    <3>1. misses = 0 /\ misses' = 0
      BY <2>2, <2>4 DEF IInv
    <3>2. rs = <<>>
      BY <2>4, SamplesAre
    <3>3. temp' = temp \/ temp' = water
      BY <2>2, <2>3, <2>4, <3>2
    <3> QED
      BY <2>2, <2>4, <3>1, <3>3 DEF Contract!Accept, Contract!vars
  <2>5. CASE water # NoReading /\ Len(rs) < Reads
    <3>1. temp' \in Readings \cup {NoReading, temp}
      BY <2>2, <2>3
    <3> QED
      BY <2>2, <2>5, <3>1 DEF Contract!Guess
  <2>6. CASE water # NoReading /\ ~(Len(rs) < Reads)
    <3>1. Median(rs) = water
      <4>1. Len(rs) \in Nat
        BY SamplesAre
      <4> QED
        BY <2>3, <2>6, <4>1, RingSizes
    <3>2. CASE temp' = Median(rs) /\ misses' = misses
      BY <2>2, <3>1, <3>2 DEF Contract!Accept
    <3>3. CASE temp' = temp /\ misses' = misses + 1
      <4>1. misses \in Nat /\ Patience \in Nat
        BY PatienceType DEF IInv, TypeOK
      <4>2. misses' =< Patience
        <5>1. ChangeAccepted'
          BY MissesBound, PTL
        <5> QED
          BY <5>1 DEF ChangeAccepted, Patience, Few
      <4>3. misses < Patience
        BY <3>3, <4>1, <4>2
      <4> QED
        BY <2>2, <2>6, <3>3, <4>3 DEF Contract!Refuse
    <3> QED
      BY <2>2, <2>6, <3>2, <3>3
  <2> QED
    BY <2>4, <2>5, <2>6
<1> QED
  BY <1>1, <1>2, <1>3 DEF Next

(* The thermometer implements Probe, the contract that the composition of  *)
(* thermometers and controller rests on: every full update is accepted     *)
(* with the value of the water or refused, and a good sensor is refused at *)
(* most Patience times after a change or a sparse update.                  *)
THEOREM ImplementsProbeHolds == Spec => ImplementsProbe
<1>1. Init => Contract!Init
  BY DEF Init, Contract!Init
<1>2. IInv /\ IInv' /\ [Next]_vars
        => [\/ Contract!Accept \/ Contract!Refuse
            \/ Contract!Guess \/ Contract!Change]_Contract!vars
  BY ProbeStep
<1> QED
  BY <1>1, <1>2, InductiveInvariant, PTL DEF Spec, ImplementsProbe, Contract!Spec

(* Among ten values each is a tenth.                                       *)
LEMMA StartStep ==
  ASSUME IInv, [Next]_vars, Len(data) < Len(data'), Len(data') =< 10
  PROVE  ~failed'
<1>1. Len(data) \in Nat
  BY HistoryFacts
<1>2. PICK rs \in Samples : Update(rs)
  BY <1>1 DEF Next, Change, vars
<1> DEFINE p == Pushed(data, ttl, rs)
           m == Median(rs)
           n == Len(rs)
<1>3. /\ rs \in Seq(Readings) /\ n \in 0..Reads /\ n \in Nat /\ n =< Size
      /\ Readings \subseteq Nat
  BY SamplesAre, HistoryFacts, RingSizes
<1>4. p \in Seq(Nat) /\ Len(p) = Filled(data, n) /\ Len(data') = Filled(data, n)
  BY <1>2, UpdateIs
<1>5. rs # <<>>
  <2> SUFFICES ASSUME rs = <<>> PROVE FALSE
    OBVIOUS
  <2>1. Filled(data, 0) = Len(data)
    BY <1>1, HistoryFacts, RingSizes DEF Filled, Ring
  <2> QED
    BY <1>1, <1>4, <2>1
<1>6. m \in Range(rs) /\ m \in Readings /\ m \in Nat
  BY <1>3, <1>5, MedianIs
<1>7. PICK j \in 1..n : rs[j] = m
  BY <1>3, <1>6 DEF Range
<1>8. \E i \in 1..Len(p) : p[i] = m
  <2> DEFINE at == IF ttl + j =< Size THEN ttl + j ELSE ttl + j - Size
  <2>1. ttl \in Nat /\ ttl < Size /\ Size \in Nat
    BY HistoryFacts, RingSizes DEF Ring
  <2>2. at \in 1..Size /\ Reading(at, ttl) = j
    BY <1>3, <2>1 DEF Reading
  <2>3. /\ \A i \in 1..Filled(data, n) :
             Pushed(data, ttl, rs)[i] =
               IF Reading(i, ttl) =< Len(rs) THEN rs[Reading(i, ttl)] ELSE data[i]
        /\ \A i \in 1..Size : Reading(i, ttl) =< Len(rs) => i \in 1..Filled(data, n)
    BY <1>3, HistoryFacts, PushedType
  <2> HIDE DEF at
  <2>4. at \in 1..Filled(data, n)
    BY <1>3, <2>2, <2>3
  <2>5. p[at] = rs[j]
    BY <1>3, <2>2, <2>3, <2>4
  <2> QED
    BY <1>4, <1>7, <2>4, <2>5
<1> HIDE DEF p, m, n
<1>9. Cardinality(EqualTo(p, m)) \in Nat /\ Cardinality(EqualTo(p, m)) >= 1
  <2>1. Len(p) \in Nat /\ EqualTo(p, m) \in SUBSET (1..Len(p))
    BY <1>4 DEF EqualTo
  <2>2. IsFiniteSet(EqualTo(p, m)) /\ Cardinality(EqualTo(p, m)) \in Nat
    BY <2>1, Places
  <2>3. EqualTo(p, m) # {}
    BY <1>4, <1>8 DEF EqualTo
  <2>4. Cardinality(EqualTo(p, m)) # 0
    BY <2>2, <2>3, FS_EmptySet
  <2> QED
    BY <2>2, <2>4
<1>10. ~TooFar(p, m)
  <2> SUFFICES ASSUME TooFar(p, m) PROVE FALSE
    OBVIOUS
  <2>1. p \in Seq(Int) /\ m \in Int
    <3>1. Nat \subseteq Int
      OBVIOUS
    <3> QED
      BY <1>4, <1>6, <3>1, Wider
  <2>2. 10 * Cardinality(EqualTo(p, m)) < Len(p)
    BY <2>1, Tenth
  <2>3. Len(p) =< 10 /\ Len(p) \in Nat
    BY <1>4
  <2> QED
    BY <1>9, <2>2, <2>3
<1> QED
  BY <1>2, <1>10 DEF Update, p, m

(* An update with readings is not refused before the history has more than *)
(* ten discharge times, so that the controller does not give up at the     *)
(* start (main.go:43) because the water changed, a reading was disturbed   *)
(* or most of the attempts failed.                                         *)
THEOREM StartAcceptedHolds == Spec => StartAccepted
<1>1. IInv /\ [Next]_vars =>
        (Len(data) < Len(data') /\ Len(data') =< 10 => ~failed')
  BY StartStep
<1>2. IInv /\ [Next]_vars =>
        [Len(data) < Len(data') /\ Len(data') =< 10 => ~failed']_vars
  BY <1>1
<1> QED
  BY <1>2, InductiveInvariant, PTL DEF Spec, StartAccepted

(* The median of nothing is accepted only from a history that varies.      *)
LEMMA DeadStep ==
  ASSUME IInv, [Next]_vars, temp # NoReading, temp' = NoReading
  PROVE  \E v, w \in Range(data) : 2 * w > 3 * v
<1>1. PICK rs \in Samples :
        Update(rs) /\ temp' = Median(rs) /\ ~TooFar(Pushed(data, ttl, rs), temp')
  BY Accepted
<1>2. rs = <<>>
  <2>1. NoReading \notin Readings
    BY HistoryFacts DEF NoReading
  <2> QED
    BY <1>1, <2>1, MedianIs
<1>3. /\ data \in Seq(Nat) /\ data \in Seq(Readings) /\ Readings \subseteq Nat \ {0}
      /\ Len(data) \in Nat /\ Len(data) > 0
  <2>1. data # <<>>
    BY DEF IInv
  <2> QED
    BY <2>1, HistoryFacts
<1>4. ~TooFar(data, 0)
  <2>1. Pushed(data, ttl, <<>>) = data
    <3>1. ttl \in Int /\ Len(data) =< Size
      BY HistoryFacts, RingSizes DEF Ring
    <3> QED
      BY <1>3, <3>1, NothingPushed
  <2> QED
    BY <1>1, <1>2, <2>1 DEF NoReading
<1> DEFINE R == Range(data)
<1>5. /\ R \subseteq Nat \ {0} /\ R \subseteq Nat /\ R # {}
      /\ \A i \in DOMAIN data : data[i] \in R
  <2>1. R \subseteq Nat \ {0} /\ \A i \in DOMAIN data : data[i] \in R
    BY <1>3 DEF Range
  <2>2. 1 \in DOMAIN data
    BY <1>3
  <2> QED
    BY <2>1, <2>2
<1>6. PICK k \in Nat : \A i \in DOMAIN data : data[i] =< k
  BY <1>3, BoundedBy
<1>7. \A x \in R : x =< k
  BY <1>6 DEF Range
<1> HIDE DEF R
<1>8. PICK a \in R : \A x \in R : a =< x
  BY <1>5, Least
<1>9. PICK b \in R : \A x \in R : x =< b
  BY <1>5, <1>7, Greatest
<1>10. ~(2 * b =< 3 * a)
  <2> SUFFICES ASSUME 2 * b =< 3 * a PROVE FALSE
    OBVIOUS
  <2>1. a \in Nat \ {0} /\ b \in Nat
    BY <1>5
  <2>2. \A i \in DOMAIN data : a =< data[i] /\ data[i] =< b
    BY <1>5, <1>8, <1>9
  <2> QED
    BY <1>3, <1>4, <2>1, <2>2, NothingIsFar
<1>11. a \in Nat /\ b \in Nat /\ 2 * b > 3 * a
  BY <1>5, <1>10
<1> QED
  BY <1>11 DEF R

(* A sensor that dies is not taken for one that reads nothing as long as   *)
(* the history does not vary by more than half of its smallest value       *)
(* (thermometer.go:239): for every history.                                *)
THEOREM DeadRefusedHolds == Spec => DeadRefused
<1>1. IInv /\ [Next]_vars =>
        (temp # NoReading /\ temp' = NoReading =>
           \E v, w \in Range(data) : 2 * w > 3 * v)
  BY DeadStep
<1>2. IInv /\ [Next]_vars =>
        [temp # NoReading /\ temp' = NoReading =>
           \E v, w \in Range(data) : 2 * w > 3 * v]_vars
  BY <1>1
<1> QED
  BY <1>2, InductiveInvariant, PTL DEF Spec, DeadRefused
=============================================================================
