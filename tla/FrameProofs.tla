---------------------------- MODULE FrameProofs ----------------------------
(***************************************************************************)
(* FramedColumn, for every array, block size, width and size of elements:  *)
(* what was put into a block-wise or affine column is what it answers for. *)
(***************************************************************************)
EXTENDS FramedColumn, PoolFacts

-----------------------------------------------------------------------------
(* Sums.                                                                    *)

\* t[i] is the sum of the first i numbers of s.
Adds(t, s) ==
  /\ t \in [0 .. Len(s) -> Int] /\ t[0] = 0
  /\ \A i \in 1 .. Len(s) : t[i] = t[i - 1] + s[i]

\* Every sequence of integers has such partial sums.
LEMMA AddsExist ==
  ASSUME NEW s \in Seq(Int)
  PROVE  \E t : Adds(t, s)
  <1> DEFINE n == Len(s)
             st == [i \in 1 .. n |-> [x \in Int |-> x + s[i]]]
  <1>1. n \in Nat /\ \A i \in 1 .. n : s[i] \in Int
    OBVIOUS
  <1> HIDE DEF n
  <1>2. st \in [1 .. n -> [Int -> Int]] /\ 0 \in Int
    BY <1>1
  <1> HIDE DEF st
  <1>3. PICK t : Stepping(t, n, Int, 0, st)
    BY <1>1, <1>2, StepsExist
  <1>4. t \in [0 .. n -> Int] /\ t[0] = 0
    BY <1>3 DEF Stepping
  <1>5. \A i \in 1 .. n : t[i] = t[i - 1] + s[i]
    <2> SUFFICES ASSUME NEW i \in 1 .. n
                 PROVE  t[i] = t[i - 1] + s[i]
      OBVIOUS
    <2>1. t[i] = st[i][t[i - 1]]
      BY <1>3 DEF Stepping
    <2>2. i - 1 \in 0 .. n
      BY <1>1
    <2>3. t[i - 1] \in Int
      BY <1>4, <2>2
    <2>4. st[i][t[i - 1]] = t[i - 1] + s[i]
      BY <2>3 DEF st
    <2> QED
      BY <2>1, <2>4
  <1> QED
    BY <1>4, <1>5 DEF Adds, n

\* SumWrapped is the sum modulo the word.
LEMMA SumWrappedIs ==
  ASSUME NEW s \in Seq(Int), NEW t, Adds(t, s)
  PROVE  SumWrapped(s) = Wrap(t[Len(s)]) /\ SumWrapped(s) \in Word
  <1> DEFINE n == Len(s)
             f == CHOOSE g : Sums(g, s, n)
  <1>1. n \in Nat /\ \A i \in 1 .. n : s[i] \in Int
    OBVIOUS
  <1>2. Sums(f, s, n)
    <2> HIDE DEF n
    <2> QED
      BY <1>1, SumsExist
  <1>3. SumWrapped(s) = f[n]
    BY DEF SumWrapped, Sums, Wrap
  <1> HIDE DEF f, n
  <1>4. f[0] = 0 /\ \A i \in 1 .. n : f[i] = Raw(K, f[i - 1] + s[i])
    BY <1>1, <1>2, SumsFacts
  <1>5. t \in [0 .. n -> Int] /\ t[0] = 0 /\ \A i \in 1 .. n : t[i] = t[i - 1] + s[i]
    BY DEF Adds, n
  <1>6. \A i \in 0 .. n : f[i] = Wrap(t[i])
    <2> DEFINE S == {i \in 0 .. n : f[i] = Wrap(t[i])}
    <2>1. 0 \in S
      <3>1. K \in Classes
        BY Conversions
      <3>2. Raw(K, 0) = 0
        BY <3>1, PowFacts, RawSmall
      <3> QED
        BY <1>1, <1>4, <1>5, <3>2 DEF Wrap
    <2>2. ASSUME NEW i \in 1 .. n, i - 1 \in S PROVE i \in S
      <3>1. i - 1 \in 0 .. n /\ i \in 0 .. n
        BY <1>1
      <3>2. t[i - 1] \in Int /\ s[i] \in Int
        BY <1>1, <1>5, <3>1
      <3>3. f[i] = Raw(K, Raw(K, t[i - 1]) + s[i])
        BY <1>4, <2>2 DEF Wrap
      <3>4. f[i] = Raw(K, t[i - 1] + s[i])
        BY <3>2, <3>3, RawPlus
      <3> QED
        BY <1>5, <3>1, <3>4 DEF Wrap
    <2>3. S \in SUBSET (0 .. n)
      OBVIOUS
    <2>4. S = 0 .. n
      <3> HIDE DEF S
      <3> QED
        BY <1>1, <2>1, <2>2, <2>3, UpTo
    <2> QED
      BY <2>4
  <1>7. t[n] \in Int
    BY <1>1, <1>5
  <1>8. Wrap(t[n]) \in Word
    BY <1>7, Conversions DEF Wrap, U64
  <1> QED
    BY <1>1, <1>3, <1>6, <1>8 DEF n

\* A sum counts a set whose positions weigh 1.
LEMMA AddsCount ==
  ASSUME NEW n \in Nat, NEW G \in SUBSET (1 .. n), NEW s, NEW t,
         s = [i \in 1 .. n |-> IF i \in G THEN 1 ELSE 0], Adds(t, s)
  PROVE  t[n] = Cardinality(G) /\ Cardinality(G) \in Nat
  <1> DEFINE upto(m) == {i \in G : i <= m}
             S == {m \in 0 .. n : IsFiniteSet(upto(m)) /\ t[m] = Cardinality(upto(m))}
  <1>0. Len(s) = n /\ \A i \in 1 .. n : s[i] = IF i \in G THEN 1 ELSE 0
    OBVIOUS
  <1>1. t \in [0 .. n -> Int] /\ t[0] = 0 /\ \A i \in 1 .. n : t[i] = t[i - 1] + s[i]
    BY <1>0 DEF Adds
  <1>9. \A i \in G : i \in Nat /\ 1 <= i /\ i <= n
    OBVIOUS
  <1>2. 0 \in S
    <2>0. ASSUME NEW i \in upto(0) PROVE FALSE
      <3>1. i \in G /\ i <= 0
        OBVIOUS
      <3> QED
        BY <3>1, <1>9
    <2>1. upto(0) = {}
      BY <2>0
    <2>2. IsFiniteSet(upto(0)) /\ Cardinality(upto(0)) = 0
      BY <2>1, FS_EmptySet
    <2> HIDE DEF upto
    <2> QED
      BY <1>1, <2>2
  <1>3. ASSUME NEW m \in 1 .. n, m - 1 \in S PROVE m \in S
    <2>1. IsFiniteSet(upto(m - 1)) /\ t[m - 1] = Cardinality(upto(m - 1))
      BY <1>3
    <2>2. t[m] = t[m - 1] + s[m] /\ s[m] = IF m \in G THEN 1 ELSE 0
      BY <1>0, <1>1
    <2>4. t[m - 1] \in Int
      BY <1>1
    <2>3. CASE m \in G
      <3>a. ASSUME NEW i \in G PROVE (i <= m) <=> (i <= m - 1 \/ i = m)
        BY <1>9
      <3>b. upto(m) = upto(m - 1) \cup {m}
        BY <3>a, <2>3
      <3>c. ~(m <= m - 1)
        OBVIOUS
      <3>1. upto(m) = upto(m - 1) \cup {m} /\ m \notin upto(m - 1)
        BY <3>b, <3>c
      <3> HIDE DEF upto
      <3>2. IsFiniteSet(upto(m)) /\ Cardinality(upto(m)) = Cardinality(upto(m - 1)) + 1
        BY <2>1, <3>1, FS_AddElement
      <3>3. t[m] = Cardinality(upto(m))
        BY <2>1, <2>2, <2>3, <3>2
      <3> QED
        BY <3>2, <3>3
    <2>5. CASE m \notin G
      <3>a. ASSUME NEW i \in G PROVE (i <= m) <=> (i <= m - 1)
        BY <1>9, <2>5
      <3>1. upto(m) = upto(m - 1)
        BY <3>a
      <3> HIDE DEF upto
      <3>2. t[m] = t[m - 1]
        BY <2>2, <2>4, <2>5
      <3> QED
        BY <2>1, <3>1, <3>2
    <2> QED
      BY <2>3, <2>5
  <1>4. S = 0 .. n
    <2>1. S \in SUBSET (0 .. n)
      OBVIOUS
    <2> HIDE DEF S
    <2> QED
      BY <1>2, <1>3, <2>1, UpTo
  <1>5. upto(n) = G
    BY <1>9
  <1>6. IsFiniteSet(upto(n)) /\ t[n] = Cardinality(upto(n))
    BY <1>4
  <1>7. IsFiniteSet(G) /\ t[n] = Cardinality(G)
    BY <1>5, <1>6
  <1> QED
    BY <1>7, FS_CardinalityType
\* Words that agree stay so under addition.
LEMMA WrapPlus ==
  ASSUME NEW a \in Int, NEW b \in Int, NEW c \in Int, NEW d \in Int,
         Wrap(a) = Wrap(c), Wrap(b) = Wrap(d)
  PROVE  Wrap(a + b) = Wrap(c + d)
  <1>1. Raw(K, a) \in Int /\ Raw(K, c) \in Int /\ K \in Classes
    BY RawRange, Conversions DEF Word
  <1>2. Wrap(a + b) = Wrap(Wrap(a) + b)
    BY RawPlus DEF Wrap
  <1>3. Wrap(c + b) = Wrap(Wrap(c) + b)
    BY RawPlus DEF Wrap
  <1>4. Wrap(b + c) = Wrap(Wrap(b) + c)
    BY RawPlus DEF Wrap
  <1>5. Wrap(d + c) = Wrap(Wrap(d) + c)
    BY RawPlus DEF Wrap
  <1>6. b + c = c + b /\ d + c = c + d
    OBVIOUS
  <1> QED
    BY <1>2, <1>3, <1>4, <1>5, <1>6

-----------------------------------------------------------------------------
(* An array cut into blocks.                                                *)

\* The elements of block bi are those after Before up to UpTill.
Before(block, bi) == (bi - 1) * block
UpTill(n, block, bi) == IF bi * block <= n THEN bi * block ELSE n

\* A product grows with its factor.
LEMMA TimesGrows ==
  ASSUME NEW a \in Int, NEW c \in Int, NEW b \in Nat, a <= c
  PROVE  a * b <= c * b /\ a * b \in Int /\ c * b \in Int
  <1>1. c - a \in Nat
    OBVIOUS
  <1>2. (c - a) * b >= 0
    BY <1>1
  <1>3. (c - a) * b = c * b - a * b
    OBVIOUS
  <1>4. a * b \in Int /\ c * b \in Int
    OBVIOUS
  <1> QED
    BY <1>2, <1>3, <1>4

\* The blocks follow each other and none is empty.
LEMMA BlocksCover ==
  ASSUME NEW n \in Nat, NEW block \in Nat \ {0}, NEW nb, nb = CeilDiv(n, block)
  PROVE  /\ nb \in Nat /\ (n = 0 => nb = 0) /\ (n > 0 => nb > 0)
         /\ UpTill(n, block, nb) = n
         /\ \A bi \in 1 .. nb :
              /\ Before(block, bi) \in Nat /\ UpTill(n, block, bi) \in Nat
              /\ Before(block, bi) < UpTill(n, block, bi) /\ UpTill(n, block, bi) <= n
              /\ UpTill(n, block, bi) - Before(block, bi) <= block
              /\ Before(block, bi) = UpTill(n, block, bi - 1)
  <1> DEFINE r == (n + block - 1) % block
             p(k) == k * block
  <1>1. /\ nb \in Int /\ n + block - 1 = nb * block + r /\ r \in 0 .. block - 1
    <2>1. n + block - 1 \in Int
      OBVIOUS
    <2> QED
      BY <2>1, DivMod DEF CeilDiv
  <1> HIDE DEF r
  <1>2. \A k \in Int : p(k) \in Int /\ p(k - 1) = p(k) - block
    OBVIOUS
  <1>3. p(nb) = n + block - 1 - r
    <2>1. n + block - 1 = p(nb) + r
      BY <1>1
    <2> HIDE DEF p
    <2> QED
      BY <1>1, <1>2, <2>1
  <1>4. \A k, l \in Int : k <= l => p(k) <= p(l)
    BY TimesGrows
  <1>z. p(0) = 0 /\ p(1) = block /\ p(-1) = -block
    OBVIOUS
  <1>d. \A bi \in Int : /\ Before(block, bi) = p(bi - 1)
                        /\ UpTill(n, block, bi) = IF p(bi) <= n THEN p(bi) ELSE n
    BY DEF Before, UpTill
  <1> HIDE DEF p
  <1>5. nb \in Nat
    <2> SUFFICES ASSUME nb <= -1 PROVE FALSE
      BY <1>1
    <2>1. p(nb) <= p(-1)
      BY <1>1, <1>4
    <2> QED
      BY <1>1, <1>3, <1>z, <2>1
  <1>6. n = 0 => nb = 0
    <2> SUFFICES ASSUME n = 0, nb >= 1 PROVE FALSE
      BY <1>5
    <2>1. p(1) <= p(nb)
      BY <1>5, <1>4
    <2> QED
      BY <1>1, <1>3, <1>z, <2>1
  <1>7. n > 0 => nb > 0
    <2> SUFFICES ASSUME n > 0, nb = 0 PROVE FALSE
      BY <1>5
    <2> QED
      BY <1>1, <1>3, <1>z
  <1>8. UpTill(n, block, nb) = n
    <2>1. p(nb) >= n /\ p(nb) \in Int
      BY <1>1, <1>2, <1>3
    <2> QED
      BY <2>1, <1>d, <1>5
  <1>9. ASSUME NEW bi \in 1 .. nb
        PROVE  /\ Before(block, bi) \in Nat /\ UpTill(n, block, bi) \in Nat
               /\ Before(block, bi) < UpTill(n, block, bi) /\ UpTill(n, block, bi) <= n
               /\ UpTill(n, block, bi) - Before(block, bi) <= block
               /\ Before(block, bi) = UpTill(n, block, bi - 1)
    <2>1. bi \in Int /\ bi - 1 \in Int /\ nb - 1 \in Int /\ 0 <= bi - 1 /\ bi - 1 <= nb - 1
      BY <1>5
    <2>2. p(0) <= p(bi - 1) /\ p(bi - 1) <= p(nb - 1)
      BY <1>4, <2>1
    <2>3. p(nb - 1) < n
      BY <1>1, <1>2, <1>3, <1>5
    <2>4. p(bi - 1) = p(bi) - block /\ p(bi) \in Int /\ p(bi - 1) \in Int /\ p(nb - 1) \in Int
      BY <1>2, <2>1
    <2>5. p(bi - 1) >= 0 /\ p(bi - 1) < n
      BY <1>z, <2>2, <2>3, <2>4
    <2>6. Before(block, bi) = p(bi - 1) /\ UpTill(n, block, bi) = IF p(bi) <= n THEN p(bi) ELSE n
      BY <1>d, <2>1
    <2>8. UpTill(n, block, bi - 1) = IF p(bi - 1) <= n THEN p(bi - 1) ELSE n
      BY <1>d, <2>1
    <2>7. UpTill(n, block, bi - 1) = p(bi - 1)
      BY <2>4, <2>5, <2>8
    <2> QED
      BY <2>4, <2>5, <2>6, <2>7
  <1> QED
    BY <1>5, <1>6, <1>7, <1>8, <1>9

\* Where an element is: number j of block bi.
LEMMA PlaceOf ==
  ASSUME NEW n \in Nat, NEW block \in Nat \ {0}, NEW i \in 1 .. n,
         NEW bi, bi = (i - 1) \div block + 1, NEW j, j = ((i - 1) % block) + 1
  PROVE  /\ bi \in 1 .. CeilDiv(n, block) /\ j \in 1 .. block
         /\ i = Before(block, bi) + j
         /\ j <= UpTill(n, block, bi) - Before(block, bi)
  <1> DEFINE nb == CeilDiv(n, block)
             p(k) == k * block
             q == (i - 1) \div block
             r == (i - 1) % block
  <1>1. q \in Int /\ i - 1 = q * block + r /\ r \in 0 .. block - 1
    BY DivMod
  <1>2. nb \in Nat /\ UpTill(n, block, nb) = n
    BY BlocksCover
  <1>3. bi = q + 1 /\ j = r + 1
    OBVIOUS
  <1> HIDE DEF q, r, nb
  <1>4. \A k \in Int : p(k) \in Int /\ p(k - 1) = p(k) - block
    OBVIOUS
  <1>5. \A k, l \in Int : k <= l => p(k) <= p(l)
    BY TimesGrows
  <1>6. \A k \in Int : /\ Before(block, k) = p(k - 1)
                       /\ UpTill(n, block, k) = IF p(k) <= n THEN p(k) ELSE n
    BY DEF Before, UpTill
  <1>7. i - 1 = p(q) + r /\ p(0) = 0 /\ p(-1) = -block
    BY <1>1
  <1> HIDE DEF p
  <1>8. q >= 0
    <2> SUFFICES ASSUME q <= -1 PROVE FALSE
      BY <1>1
    <2>1. p(q) <= p(-1) /\ p(q) \in Int
      BY <1>1, <1>4, <1>5
    <2> QED
      BY <1>1, <1>7, <2>1
  <1>9. q < nb
    <2> SUFFICES ASSUME nb <= q PROVE FALSE
      BY <1>1, <1>2
    <2>3. nb \in Int
      BY <1>2
    <2>4. p(q) \in Int /\ p(nb) \in Int
      BY <1>1, <1>4, <2>3
    <2>1. p(nb) <= p(q) /\ p(q) \in Int /\ p(nb) \in Int
      BY <1>1, <1>5, <2>3, <2>4
    <2>2. p(nb) >= n
      BY <1>2, <1>6, <2>1
    <2> QED
      BY <1>1, <1>7, <2>1, <2>2
  <1>10. bi \in 1 .. nb /\ j \in 1 .. block
    BY <1>1, <1>2, <1>3, <1>8, <1>9
  <1>11. Before(block, bi) = p(q) /\ p(q) \in Int /\ i = p(q) + j
    <2>1. bi \in Int /\ bi - 1 = q
      BY <1>1, <1>3
    <2> QED
      BY <1>1, <1>3, <1>4, <1>6, <1>7, <2>1
  <1>12. j <= UpTill(n, block, bi) - Before(block, bi)
    <2>1. bi \in Int /\ bi - 1 = q
      BY <1>1, <1>3
    <2>2. UpTill(n, block, bi) = IF p(bi) <= n THEN p(bi) ELSE n
      BY <1>6, <2>1
    <2>3. p(q) = p(bi) - block /\ p(bi) \in Int
      BY <1>4, <2>1
    <2> QED
      BY <1>1, <1>3, <1>11, <2>2, <2>3
  <1> QED
    BY <1>10, <1>11, <1>12 DEF nb

\* B has a number for every block: modulo the word, what the block adds to the sum.
Blockwise(B, t, n, block) ==
  /\ B \in Seq(Int) /\ Len(B) = CeilDiv(n, block)
  /\ \A bi \in 1 .. CeilDiv(n, block) :
       Wrap(B[bi]) = Wrap(t[UpTill(n, block, bi)] - t[Before(block, bi)])

\* Totals of the blocks, taken modulo the word, add up to that of the array.
LEMMA BlocksAddUp ==
  ASSUME NEW s \in Seq(Int), NEW t, Adds(t, s), NEW block \in Nat \ {0},
         NEW B, Blockwise(B, t, Len(s), block)
  PROVE  SumWrapped(B) = Wrap(t[Len(s)]) /\ SumWrapped(B) = SumWrapped(s)
  <1> DEFINE n == Len(s)
             nb == CeilDiv(n, block)
  <1>1. n \in Nat
    OBVIOUS
  <1>0. /\ B \in Seq(Int) /\ Len(B) = nb
        /\ \A k \in 1 .. nb : Wrap(B[k]) = Wrap(t[UpTill(n, block, k)] - t[Before(block, k)])
    BY DEF Blockwise
  <1>2. PICK u : Adds(u, B)
    BY <1>0, AddsExist
  <1>3. nb \in Nat
    BY <1>1, BlocksCover
  <1> HIDE DEF nb
  <1>4. u \in [0 .. nb -> Int] /\ u[0] = 0 /\ \A k \in 1 .. nb : u[k] = u[k - 1] + B[k] /\ B[k] \in Int
    BY <1>0, <1>2, <1>3 DEF Adds
  <1>5. t \in [0 .. n -> Int] /\ t[0] = 0
    BY DEF Adds
  <1> DEFINE R == {k \in 0 .. nb : Wrap(u[k]) = Wrap(t[UpTill(n, block, k)])}
  <1>6. 0 \in R
    <2>1. UpTill(n, block, 0) = 0
      BY <1>1 DEF UpTill
    <2> QED
      BY <1>3, <1>4, <1>5, <2>1
  <1>7. ASSUME NEW k \in 1 .. nb, k - 1 \in R PROVE k \in R
    <2>1. /\ Before(block, k) \in Nat /\ UpTill(n, block, k) \in Nat
          /\ Before(block, k) < UpTill(n, block, k) /\ UpTill(n, block, k) <= n
          /\ Before(block, k) = UpTill(n, block, k - 1)
      BY <1>1, BlocksCover DEF nb
    <2> DEFINE x == t[Before(block, k)]
               y == t[UpTill(n, block, k)]
    <2>2. x \in Int /\ y \in Int
      <3>1. Before(block, k) \in 0 .. n /\ UpTill(n, block, k) \in 0 .. n
        BY <1>1, <2>1
      <3> QED
        BY <1>5, <3>1
    <2>3. Wrap(u[k - 1]) = Wrap(x)
      BY <1>7, <2>1
    <2>4. Wrap(B[k]) = Wrap(y - x)
      BY <1>0
    <2> HIDE DEF x, y
    <2>5. u[k - 1] \in Int /\ B[k] \in Int /\ u[k] = u[k - 1] + B[k]
      <3>1. k - 1 \in 0 .. nb
        BY <1>3
      <3> QED
        BY <1>4, <3>1
    <2>6. Wrap(u[k - 1] + B[k]) = Wrap(x + (y - x))
      <3> DEFINE z == y - x
      <3>1. z \in Int /\ Wrap(B[k]) = Wrap(z)
        BY <2>2, <2>4
      <3> HIDE DEF z
      <3>3. \A a, b, c, d \in Int :
              Wrap(a) = Wrap(c) /\ Wrap(b) = Wrap(d) => Wrap(a + b) = Wrap(c + d)
        BY WrapPlus
      <3> DEFINE a == u[k - 1]
                 b == B[k]
      <3>4. a \in Int /\ b \in Int /\ Wrap(a) = Wrap(x) /\ Wrap(b) = Wrap(z)
        BY <2>3, <2>5, <3>1
      <3> HIDE DEF a, b
      <3>5. Wrap(a + b) = Wrap(x + z)
        BY <2>2, <3>1, <3>3, <3>4
      <3>2. Wrap(u[k - 1] + B[k]) = Wrap(x + z)
        BY <3>5 DEF a, b
      <3> QED
        BY <3>2 DEF z
    <2>7. x + (y - x) = y
      BY <2>2
    <2>8. Wrap(u[k]) = Wrap(y)
      BY <2>5, <2>6, <2>7
    <2> QED
      BY <1>3, <2>8 DEF y
  <1>8. R = 0 .. nb
    <2>1. R \in SUBSET (0 .. nb)
      OBVIOUS
    <2> HIDE DEF R
    <2> QED
      BY <1>3, <1>6, <1>7, <2>1, UpTo
  <1>9. Wrap(u[nb]) = Wrap(t[UpTill(n, block, nb)])
    BY <1>3, <1>8
  <1>10. UpTill(n, block, nb) = n
    BY <1>1, BlocksCover DEF nb
  <1>11. SumWrapped(B) = Wrap(u[nb])
    BY <1>0, <1>2, SumWrappedIs
  <1>12. SumWrapped(s) = Wrap(t[n])
    BY SumWrappedIs
  <1> QED
    BY <1>9, <1>10, <1>11, <1>12
-----------------------------------------------------------------------------
(* Extremes and common steps.                                               *)

\* The extremes of a sequence are the elements beyond which there is none.
LEMMA GreatestIs ==
  ASSUME NEW s \in Seq(Int), NEW i \in DOMAIN s, \A j \in DOMAIN s : s[j] <= s[i]
  PROVE  Greatest(s) = s[i]
  <1> DEFINE V == {s[j] : j \in DOMAIN s}
             v == CHOOSE x \in V : \A j \in DOMAIN s : s[j] <= x
  <1>1. \A j \in DOMAIN s : s[j] \in Int
    OBVIOUS
  <1>2. s[i] \in V /\ \A j \in DOMAIN s : s[j] <= s[i]
    OBVIOUS
  <1>3. v \in V /\ \A j \in DOMAIN s : s[j] <= v
    BY <1>2
  <1>4. PICK k \in DOMAIN s : v = s[k]
    BY <1>3
  <1>5. Greatest(s) = v
    BY DEF Greatest
  <1> HIDE DEF v
  <1>6. s[i] <= v /\ v <= s[i]
    BY <1>3, <1>4
  <1> QED
    BY <1>1, <1>4, <1>5, <1>6

\* The least, likewise.
LEMMA LeastIs ==
  ASSUME NEW s \in Seq(Int), NEW i \in DOMAIN s, \A j \in DOMAIN s : s[i] <= s[j]
  PROVE  Least(s) = s[i]
  <1> DEFINE V == {s[j] : j \in DOMAIN s}
             v == CHOOSE x \in V : \A j \in DOMAIN s : x <= s[j]
  <1>1. \A j \in DOMAIN s : s[j] \in Int
    OBVIOUS
  <1>2. s[i] \in V /\ \A j \in DOMAIN s : s[i] <= s[j]
    OBVIOUS
  <1>3. v \in V /\ \A j \in DOMAIN s : v <= s[j]
    BY <1>2
  <1>4. PICK k \in DOMAIN s : v = s[k]
    BY <1>3
  <1>5. Least(s) = v
    BY DEF Least
  <1> HIDE DEF v
  <1>6. s[i] <= v /\ v <= s[i]
    BY <1>3, <1>4
  <1> QED
    BY <1>1, <1>4, <1>5, <1>6

\* Every sequence that is not empty has them.
LEMMA ExtremesExist ==
  ASSUME NEW s \in Seq(Int), Len(s) > 0
  PROVE  /\ \E i \in DOMAIN s : \A j \in DOMAIN s : s[j] <= s[i]
         /\ \E i \in DOMAIN s : \A j \in DOMAIN s : s[i] <= s[j]
  <1> DEFINE n == Len(s)
             Top1(k) == \E i \in 1 .. k : \A j \in 1 .. k : s[j] <= s[i]
             Bottom(k) == \E i \in 1 .. k : \A j \in 1 .. k : s[i] <= s[j]
             S == {k \in 0 .. n : k > 0 => Top1(k) /\ Bottom(k)}
  <1>1. n \in Nat /\ DOMAIN s = 1 .. n /\ \A i \in 1 .. n : s[i] \in Int
    OBVIOUS
  <1> HIDE DEF n
  <1>2. 0 \in S
    BY <1>1
  <1>3. ASSUME NEW k \in 1 .. n, k - 1 \in S PROVE k \in S
    <2>0. k \in Nat /\ k > 0 /\ k <= n /\ s[k] \in Int /\ \A j \in 1 .. k : s[j] \in Int
      BY <1>1
    <2>1. CASE k = 1
      <3>1. \A j \in 1 .. k : j = 1
        BY <2>1
      <3>2. 1 \in 1 .. k /\ s[1] <= s[1]
        BY <2>0, <2>1
      <3>3. \A j \in 1 .. k : s[j] <= s[1] /\ s[1] <= s[j]
        BY <3>1, <3>2
      <3>4. Top1(k) /\ Bottom(k)
        BY <3>2, <3>3
      <3> HIDE DEF Top1, Bottom
      <3> QED
        BY <3>4, <1>1
    <2>2. CASE k > 1
      <3>1. k - 1 > 0
        BY <2>0, <2>2
      <3>2. PICK a \in 1 .. k - 1 : \A j \in 1 .. k - 1 : s[j] <= s[a]
        BY <1>3, <3>1
      <3>3. PICK b \in 1 .. k - 1 : \A j \in 1 .. k - 1 : s[b] <= s[j]
        BY <1>3, <3>1
      <3>4. a \in 1 .. k /\ b \in 1 .. k /\ k \in 1 .. k /\ s[a] \in Int /\ s[b] \in Int
        BY <2>0, <1>1
      <3>5. \A j \in 1 .. k : j \in 1 .. k - 1 \/ j = k
        BY <2>0
      <3>8. s[k] <= s[k]
        BY <2>0
      <3>6. Top1(k)
        <4>1. CASE s[k] <= s[a]
          <5>1. \A j \in 1 .. k : s[j] <= s[a]
            BY <3>2, <3>5, <4>1
          <5> QED
            BY <3>4, <5>1
        <4>2. CASE s[a] <= s[k]
          <5>1. \A j \in 1 .. k - 1 : s[j] <= s[k]
            BY <2>0, <3>2, <3>4, <4>2
          <5>2. \A j \in 1 .. k : s[j] <= s[k]
            BY <3>5, <3>8, <5>1
          <5> QED
            BY <3>4, <5>2
        <4>3. s[k] <= s[a] \/ s[a] <= s[k]
          BY <2>0, <3>4
        <4> QED
          BY <4>1, <4>2, <4>3
      <3>7. Bottom(k)
        <4>1. CASE s[b] <= s[k]
          <5>1. \A j \in 1 .. k : s[b] <= s[j]
            BY <3>3, <3>5, <4>1
          <5> QED
            BY <3>4, <5>1
        <4>2. CASE s[k] <= s[b]
          <5>1. \A j \in 1 .. k - 1 : s[k] <= s[j]
            BY <2>0, <3>3, <3>4, <4>2
          <5>2. \A j \in 1 .. k : s[k] <= s[j]
            BY <3>5, <3>8, <5>1
          <5> QED
            BY <3>4, <5>2
        <4>3. s[k] <= s[b] \/ s[b] <= s[k]
          BY <2>0, <3>4
        <4> QED
          BY <4>1, <4>2, <4>3
      <3> HIDE DEF Top1, Bottom
      <3> QED
        BY <1>1, <3>6, <3>7
    <2> QED
      BY <2>0, <2>1, <2>2
  <1>4. S = 0 .. n
    <2>1. S \in SUBSET (0 .. n)
      OBVIOUS
    <2> HIDE DEF S
    <2> QED
      BY <1>1, <1>2, <1>3, <2>1, UpTo
  <1>5. n > 0
    BY DEF n
  <1>6. Top1(n) /\ Bottom(n)
    <2> HIDE DEF Top1, Bottom
    <2> QED
      BY <1>1, <1>4, <1>5
  <1> QED
    BY <1>1, <1>6

\* Least and Greatest are elements between which all lie.
LEMMA Extremes ==
  ASSUME NEW s \in Seq(Int), Len(s) > 0
  PROVE  /\ \E i \in DOMAIN s : Greatest(s) = s[i]
         /\ \E i \in DOMAIN s : Least(s) = s[i]
         /\ Greatest(s) \in Int /\ Least(s) \in Int /\ Least(s) <= Greatest(s)
         /\ \A j \in DOMAIN s : Least(s) <= s[j] /\ s[j] <= Greatest(s)
  <1>1. PICK a \in DOMAIN s : \A j \in DOMAIN s : s[j] <= s[a]
    BY ExtremesExist
  <1>2. PICK b \in DOMAIN s : \A j \in DOMAIN s : s[b] <= s[j]
    BY ExtremesExist
  <1>3. Greatest(s) = s[a]
    BY <1>1, GreatestIs
  <1>4. Least(s) = s[b]
    BY <1>2, LeastIs
  <1>5. s[a] \in Int /\ s[b] \in Int
    OBVIOUS
  <1> QED
    BY <1>1, <1>2, <1>3, <1>4, <1>5

\* x is a multiple of g.
Multiple(x, g) == \E k \in Nat : x = k * g

\* A multiple of a multiple.
LEMMA MultipleTwice ==
  ASSUME NEW x \in Nat, NEW y \in Nat, NEW g \in Nat, Multiple(x, y), Multiple(y, g)
  PROVE  Multiple(x, g)
  <1>1. PICK k \in Nat : x = k * y
    BY DEF Multiple
  <1>2. PICK l \in Nat : y = l * g
    BY DEF Multiple
  <1>3. k * l \in Nat /\ k * (l * g) = (k * l) * g
    OBVIOUS
  <1> QED
    BY <1>1, <1>2, <1>3 DEF Multiple

\* A common divisor of y and of the remainder divides x, and the other way round.
LEMMA SameDivisors ==
  ASSUME NEW x \in Nat, NEW y \in Nat \ {0}, NEW d \in Nat, Multiple(y, d)
  PROVE  Multiple(x, d) <=> Multiple(x % y, d)
  <1> DEFINE q == x \div y
             r == x % y
  <1>1. q \in Int /\ x = q * y + r /\ r \in 0 .. y - 1
    <2>1. x \in Int
      OBVIOUS
    <2> QED
      BY <2>1, DivMod
  <1> HIDE DEF r
  <1>2. q \in Nat
    <2> HIDE DEF q
    <2> SUFFICES ASSUME q <= -1 PROVE FALSE
      BY <1>1
    <2>1. q * y <= (-1) * y
      BY <1>1, TimesGrows
    <2>2. (-1) * y = -y /\ q * y \in Int
      BY <1>1
    <2> QED
      BY <1>1, <2>1, <2>2
  <1> HIDE DEF q
  <1>3. PICK l \in Nat : y = l * d
    BY DEF Multiple
  <1> DEFINE ql == q * l
  <1>4. ql \in Nat /\ q * y = ql * d
    <2>1. q * (l * d) = (q * l) * d
      BY <1>2
    <2>2. q * l \in Nat
      BY <1>2
    <2> QED
      BY <1>3, <2>1, <2>2
  <1> HIDE DEF ql
  <1>5. ASSUME Multiple(r, d) PROVE Multiple(x, d)
    <2>1. PICK k \in Nat : r = k * d
      BY <1>5 DEF Multiple
    <2>2. (ql + k) * d = ql * d + k * d /\ ql + k \in Nat
      BY <1>4
    <2>3. x = (ql + k) * d
      BY <1>1, <1>4, <2>1, <2>2
    <2> QED
      BY <2>2, <2>3 DEF Multiple
  <1>6. ASSUME Multiple(x, d) PROVE Multiple(r, d)
    <2>1. PICK k \in Nat : x = k * d
      BY <1>6 DEF Multiple
    <2>2. (k - ql) * d = k * d - ql * d /\ k - ql \in Int
      BY <1>4
    <2>3. r = (k - ql) * d
      <3>1. ql * d \in Int /\ k * d \in Int
        BY <1>4
      <3> QED
        BY <1>1, <1>4, <2>1, <2>2, <3>1
    <2>4. CASE k - ql >= 0
      BY <2>2, <2>3, <2>4 DEF Multiple
    <2>5. CASE k - ql <= -1
      <3>1. (k - ql) * d <= (-1) * d
        BY <2>2, <2>5, TimesGrows
      <3>2. (-1) * d = -d
        OBVIOUS
      <3>3. r = 0
        BY <1>1, <2>3, <3>1, <3>2
      <3>4. r = 0 * d
        BY <3>3
      <3> QED
        BY <3>4 DEF Multiple
    <2> QED
      BY <2>2, <2>4, <2>5
  <1> QED
    BY <1>5, <1>6 DEF r
\* What the loop of s2r_gcd64 computes, whatever it is started with.
Euclid(g) ==
  g = [w \in Nat \X Nat |-> IF w[2] = 0 THEN w[1] ELSE g[<<w[2], w[1] % w[2]>>]]

\* The loop ends: the greatest common divisor is such a function.
LEMMA EuclidEnds == \E g : Euclid(g)
  <1> DEFINE D(x, y) == {d \in Nat : Multiple(x, d) /\ Multiple(y, d)}
             Top1(S) == CHOOSE d \in S : \A e \in S : e <= d
             Gr(x, y) == IF y = 0 THEN x ELSE Top1(D(x, y))
             g == [w \in Nat \X Nat |-> Gr(w[1], w[2])]
  <1>1. ASSUME NEW x \in Nat, NEW y \in Nat, y # 0
        PROVE  Gr(x, y) = Gr(y, x % y)
    <2>0. x % y \in Nat
      <3>1. x \in Int /\ y \in Nat \ {0}
        BY <1>1
      <3>2. x % y \in 0 .. y - 1
        BY <3>1, ModRange
      <3> QED
        BY <3>2
    <2>1. \A d \in Nat : Multiple(y, d) => (Multiple(x, d) <=> Multiple(x % y, d))
      BY <1>1, SameDivisors
    <2>2. \A d : d \in D(x, y) <=> d \in D(y, x % y)
      BY <2>1
    <2>3. D(x, y) = D(y, x % y)
      BY <2>2
    <2>4. Gr(x, y) = Top1(D(x, y))
      BY <1>1
    <2>5. CASE x % y # 0
      <3>1. Gr(y, x % y) = Top1(D(y, x % y))
        BY <2>5
      <3> HIDE DEF D
      <3>2. Top1(D(x, y)) = Top1(D(y, x % y))
        BY <2>3
      <3> HIDE DEF Top1, Gr
      <3> QED
        BY <2>4, <3>1, <3>2
    <2>6. CASE x % y = 0
      <3>1. Gr(y, x % y) = y
        BY <2>6
      <3>2. Multiple(y, y) /\ Multiple(x % y, y)
        <4>1. y = 1 * y /\ 0 = 0 * y
          OBVIOUS
        <4> QED
          BY <2>6, <4>1 DEF Multiple
      <3>3. y \in D(x, y)
        BY <2>1, <3>2
      <3>4. ASSUME NEW e \in D(x, y) PROVE e <= y
        <4>1. e \in Nat /\ Multiple(y, e)
          OBVIOUS
        <4>2. PICK k \in Nat : y = k * e
          BY <4>1 DEF Multiple
        <4>3. k >= 1
          <5> SUFFICES ASSUME k = 0 PROVE FALSE
            BY <4>2
          <5>1. 0 * e = 0
            BY <4>1
          <5> QED
            BY <1>1, <4>2, <5>1
        <4>4. 1 * e <= k * e
          BY <4>1, <4>2, <4>3, TimesGrows
        <4>5. 1 * e = e
          BY <4>1
        <4> QED
          BY <4>2, <4>4, <4>5
      <3> DEFINE S == D(x, y)
      <3>5. y \in S /\ \A e \in S : e <= y /\ e \in Nat
        BY <3>3, <3>4
      <3> HIDE DEF S, D
      <3>6. Top1(S) \in S /\ \A e \in S : e <= Top1(S)
        BY <3>5
      <3>7. Top1(S) = y
        <4> DEFINE z == Top1(S)
        <4>1. z \in S /\ y <= z
          BY <3>5, <3>6
        <4> HIDE DEF z
        <4>2. z = y
          BY <3>5, <4>1
        <4> QED
          BY <4>2 DEF z
      <3> QED
        BY <2>4, <3>1, <3>7 DEF S
    <2> QED
      BY <2>5, <2>6
  <1>2. ASSUME NEW w \in Nat \X Nat
        PROVE  g[w] = IF w[2] = 0 THEN w[1] ELSE g[<<w[2], w[1] % w[2]>>]
    <2> DEFINE x == w[1]
               y == w[2]
    <2>1. x \in Nat /\ y \in Nat
      OBVIOUS
    <2>2. g[w] = Gr(x, y)
      OBVIOUS
    <2> HIDE DEF x, y
    <2>3. CASE y = 0
      BY <2>2, <2>3 DEF x, y
    <2>4. CASE y # 0
      <3>1. x % y \in Nat
        <4>1. x \in Int /\ y \in Nat \ {0}
          BY <2>1, <2>4
        <4>2. x % y \in 0 .. y - 1
          BY <4>1, ModRange
        <4> QED
          BY <4>2
      <3>2. <<y, x % y>> \in Nat \X Nat
        BY <2>1, <3>1
      <3> DEFINE v == <<y, x % y>>
      <3>3. v \in Nat \X Nat /\ v[1] = y /\ v[2] = x % y
        BY <3>2
      <3> HIDE DEF v
      <3>4. g[v] = Gr(y, x % y)
        <4> HIDE DEF Gr
        <4>1. g[v] = Gr(v[1], v[2])
          BY <3>3
        <4> QED
          BY <3>3, <4>1
      <3>5. Gr(x, y) = Gr(y, x % y)
        BY <1>1, <2>1, <2>4
      <3> HIDE DEF g, Gr
      <3> QED
        BY <2>2, <2>4, <3>4, <3>5 DEF v, x, y
    <2> QED
      BY <2>3, <2>4
  <1>3. g = [w \in Nat \X Nat |-> IF w[2] = 0 THEN w[1] ELSE g[<<w[2], w[1] % w[2]>>]]
    <2> DEFINE h == [w \in Nat \X Nat |-> IF w[2] = 0 THEN w[1] ELSE g[<<w[2], w[1] % w[2]>>]]
    <2>1. \A w \in Nat \X Nat : g[w] = h[w]
      <3> HIDE DEF g
      <3> QED
        BY <1>2
    <2>2. g = [w \in Nat \X Nat |-> g[w]] /\ h = [w \in Nat \X Nat |-> h[w]]
      OBVIOUS
    <2> HIDE DEF g, h
    <2>3. g = h
      BY <2>1, <2>2
    <2> QED
      BY <2>3 DEF h
  <1>4. Euclid(g)
    <2> HIDE DEF g
    <2> QED
      BY <1>3 DEF Euclid
  <1> QED
    BY <1>4

\* Whatever it computes divides both numbers.
LEMMA EuclidDivides ==
  ASSUME NEW g, Euclid(g), NEW n \in Nat, NEW a \in Nat
  PROVE  g[<<a, n>>] \in Nat /\ Multiple(a, g[<<a, n>>]) /\ Multiple(n, g[<<a, n>>])
  <1> DEFINE Ok(x, y) == /\ g[<<x, y>>] \in Nat
                         /\ Multiple(x, g[<<x, y>>]) /\ Multiple(y, g[<<x, y>>])
             S == {k \in 0 .. n : \A y \in 0 .. k : \A x \in Nat : Ok(x, y)}
  <1>0. ASSUME NEW x \in Nat, NEW y \in Nat
        PROVE  g[<<x, y>>] = IF y = 0 THEN x ELSE g[<<y, x % y>>]
    <2>1. <<x, y>> \in Nat \X Nat /\ <<x, y>>[1] = x /\ <<x, y>>[2] = y
      OBVIOUS
    <2> QED
      BY <2>1 DEF Euclid
  <1>1. ASSUME NEW x \in Nat PROVE Ok(x, 0)
    <2>1. g[<<x, 0>>] = x
      BY <1>0
    <2>2. x = 1 * x /\ 0 = 0 * x
      OBVIOUS
    <2>3. Multiple(x, x) /\ Multiple(0, x)
      BY <2>2 DEF Multiple
    <2> QED
      BY <2>1, <2>3
  <1>2. 0 \in S
    <2>1. \A y \in 0 .. 0 : y = 0
      OBVIOUS
    <2>2. \A y \in 0 .. 0 : \A x \in Nat : Ok(x, y)
      <3> HIDE DEF Ok
      <3> QED
        BY <1>1, <2>1
    <2> HIDE DEF Ok
    <2> QED
      BY <2>2
  <1>3. ASSUME NEW k \in 1 .. n, k - 1 \in S PROVE k \in S
    <2>1. \A y \in 0 .. k - 1 : \A x \in Nat : Ok(x, y)
      <3> HIDE DEF Ok
      <3> QED
        BY <1>3
    <2>2. ASSUME NEW x \in Nat PROVE Ok(x, k)
      <3>1. k \in Nat \ {0} /\ x \in Int
        OBVIOUS
      <3>2. x % k \in 0 .. k - 1
        BY <3>1, ModRange
      <3> DEFINE r == x % k
                 d == g[<<k, r>>]
      <3>3. r \in 0 .. k - 1 /\ k \in Nat
        BY <3>1, <3>2
      <3> HIDE DEF r
      <3>4. Ok(k, r)
        <4> HIDE DEF Ok
        <4> QED
          BY <2>1, <3>3
      <3>5. d \in Nat /\ Multiple(k, d) /\ Multiple(r, d)
        BY <3>4
      <3>6. g[<<x, k>>] = d
        BY <1>0, <3>1 DEF r
      <3> HIDE DEF d
      <3>7. Multiple(x, d)
        BY <3>1, <3>5, SameDivisors DEF r
      <3> QED
        BY <3>5, <3>6, <3>7
    <2>3. \A y \in 0 .. k : y \in 0 .. k - 1 \/ y = k
      OBVIOUS
    <2> HIDE DEF Ok
    <2>4. \A y \in 0 .. k : \A x \in Nat : Ok(x, y)
      BY <2>1, <2>2, <2>3
    <2>5. k \in 0 .. n
      OBVIOUS
    <2> QED
      BY <2>4, <2>5
  <1>4. S = 0 .. n
    <2>1. S \in SUBSET (0 .. n)
      OBVIOUS
    <2> HIDE DEF S
    <2> QED
      BY <1>2, <1>3, <2>1, UpTo
  <1>5. Ok(a, n)
    <2> HIDE DEF Ok
    <2>1. n \in S /\ n \in 0 .. n
      BY <1>4
    <2> QED
      BY <2>1
  <1> QED
    BY <1>5

\* s2r_gcd64 returns a common divisor.
LEMMA GcdDivides ==
  ASSUME NEW a \in Nat, NEW b \in Nat
  PROVE  Gcd(a, b) \in Nat /\ Multiple(a, Gcd(a, b)) /\ Multiple(b, Gcd(a, b))
  <1> DEFINE g == CHOOSE f : Euclid(f)
  <1>1. Euclid(g)
    BY EuclidEnds
  <1>2. Gcd(a, b) = g[<<a, b>>]
    BY DEF Gcd, Euclid
  <1> HIDE DEF g
  <1> QED
    BY <1>1, <1>2, EuclidDivides
\* The gcd of a sequence divides its elements.
LEMMA GcdOfDivides ==
  ASSUME NEW s \in Seq(Nat)
  PROVE  GcdOf(s) \in Nat /\ \A i \in DOMAIN s : Multiple(s[i], GcdOf(s))
  <1> DEFINE n == Len(s)
             Fold(f) == f = [i \in 0 .. n |-> IF i = 0 THEN 0 ELSE Gcd(f[i - 1], s[i])]
             st == [i \in 1 .. n |-> [x \in Nat |-> Gcd(x, s[i])]]
             f0 == CHOOSE f : Fold(f)
  <1>1. n \in Nat /\ DOMAIN s = 1 .. n /\ \A i \in 1 .. n : s[i] \in Nat
    OBVIOUS
  <1>2. \E f : Fold(f)
    <2> HIDE DEF n
    <2>1. st \in [1 .. n -> [Nat -> Nat]] /\ 0 \in Nat
      BY <1>1, GcdDivides
    <2> HIDE DEF st
    <2>2. PICK t : Stepping(t, n, Nat, 0, st)
      BY <1>1, <2>1, StepsExist
    <2>3. t \in [0 .. n -> Nat] /\ t[0] = 0
      BY <2>2 DEF Stepping
    <2>4. ASSUME NEW i \in 1 .. n PROVE t[i] = Gcd(t[i - 1], s[i])
      <3>1. t[i] = st[i][t[i - 1]]
        BY <2>2 DEF Stepping
      <3>2. i - 1 \in 0 .. n
        BY <1>1
      <3>3. t[i - 1] \in Nat
        BY <2>3, <3>2
      <3>4. st[i][t[i - 1]] = Gcd(t[i - 1], s[i])
        BY <3>3 DEF st
      <3> QED
        BY <3>1, <3>4
    <2>5. \A i \in 0 .. n : t[i] = IF i = 0 THEN 0 ELSE Gcd(t[i - 1], s[i])
      BY <1>1, <2>3, <2>4
    <2>6. t = [i \in 0 .. n |-> t[i]]
      BY <2>3
    <2>7. Fold(t)
      BY <2>5, <2>6
    <2> QED
      BY <2>7
  <1>3. Fold(f0)
    BY <1>2
  <1>4. GcdOf(s) = f0[n]
    BY DEF GcdOf
  <1> HIDE DEF f0, n, st
  <1>5. f0[0] = 0 /\ \A i \in 1 .. n : f0[i] = Gcd(f0[i - 1], s[i])
    BY <1>1, <1>3
  <1> HIDE DEF Fold
  <1> DEFINE Ok(k) == f0[k] \in Nat /\ \A i \in 1 .. k : Multiple(s[i], f0[k])
             S == {k \in 0 .. n : Ok(k)}
  <1>6. 0 \in S
    <2>1. Ok(0)
      BY <1>5
    <2> HIDE DEF Ok
    <2> QED
      BY <1>1, <2>1
  <1>7. ASSUME NEW k \in 1 .. n, k - 1 \in S PROVE k \in S
    <2> DEFINE g == f0[k - 1]
    <2>1. g \in Nat /\ \A i \in 1 .. k - 1 : Multiple(s[i], g)
      BY <1>7
    <2>2. f0[k] = Gcd(g, s[k]) /\ s[k] \in Nat
      BY <1>1, <1>5
    <2> HIDE DEF g
    <2>3. f0[k] \in Nat /\ Multiple(g, f0[k]) /\ Multiple(s[k], f0[k])
      BY <2>1, <2>2, GcdDivides
    <2>4. ASSUME NEW i \in 1 .. k PROVE Multiple(s[i], f0[k])
      <3>1. CASE i = k
        BY <3>1, <2>3
      <3>2. CASE i # k
        <4>1. i \in 1 .. k - 1 /\ i \in 1 .. n
          BY <1>1, <3>2
        <4>2. s[i] \in Nat /\ Multiple(s[i], g)
          BY <1>1, <2>1, <4>1
        <4> QED
          BY <2>1, <2>3, <4>2, MultipleTwice
      <3> QED
        BY <3>1, <3>2
    <2>5. Ok(k)
      BY <2>3, <2>4
    <2> HIDE DEF Ok
    <2> QED
      BY <1>1, <2>5
  <1>8. S = 0 .. n
    <2>1. S \in SUBSET (0 .. n)
      OBVIOUS
    <2> HIDE DEF S
    <2> QED
      BY <1>1, <1>6, <1>7, <2>1, UpTo
  <1>9. Ok(n)
    <2> HIDE DEF Ok
    <2> QED
      BY <1>1, <1>8
  <1> QED
    BY <1>1, <1>4, <1>9

\* The step divides the offsets and is not 0.
LEMMA StrideDivides ==
  ASSUME NEW s \in Seq(Nat)
  PROVE  StrideOf(s) \in Nat \ {0} /\ \A i \in DOMAIN s : Multiple(s[i], StrideOf(s))
  <1> DEFINE g == GcdOf(s)
  <1>1. g \in Nat /\ \A i \in DOMAIN s : Multiple(s[i], g)
    BY GcdOfDivides
  <1>2. StrideOf(s) = IF g < 2 THEN 1 ELSE g
    BY DEF StrideOf
  <1> HIDE DEF g
  <1>3. CASE g < 2
    <2>1. \A x \in Nat : x = x * 1
      OBVIOUS
    <2>2. \A i \in DOMAIN s : s[i] \in Nat
      OBVIOUS
    <2>3. \A i \in DOMAIN s : Multiple(s[i], 1)
      BY <2>1, <2>2 DEF Multiple
    <2> QED
      BY <1>2, <1>3, <2>3
  <1>4. CASE ~(g < 2)
    BY <1>1, <1>2, <1>4
  <1> QED
    BY <1>3, <1>4

\* A multiple, divided.
LEMMA MultipleDiv ==
  ASSUME NEW x \in Nat, NEW g \in Nat \ {0}, Multiple(x, g)
  PROVE  (x \div g) \in Nat /\ x = g * (x \div g)
  <1>1. PICK k \in Nat : x = k * g
    BY DEF Multiple
  <1>2. (x \div g) \in Int /\ x = (x \div g) * g + (x % g) /\ (x % g) \in 0 .. g - 1
    <2>1. x \in Int
      OBVIOUS
    <2> QED
      BY <2>1, DivMod
  <1>3. x % g = 0
    <2>1. x = k * g + 0 /\ 0 \in 0 .. g - 1
      BY <1>1
    <2>2. x \in Int /\ k \in Int
      OBVIOUS
    <2> QED
      BY <2>1, <2>2, ModUnique
  <1> DEFINE q == x \div g
  <1>4. q \in Int /\ x = q * g
    BY <1>2, <1>3
  <1> HIDE DEF q
  <1>5. q >= 0
    <2> SUFFICES ASSUME q <= -1 PROVE FALSE
      BY <1>4
    <2>1. q * g <= (-1) * g
      BY <1>4, TimesGrows
    <2>2. (-1) * g = -g /\ q * g \in Int
      BY <1>4
    <2> QED
      BY <1>4, <2>1, <2>2
  <1>6. q * g = g * q
    BY <1>4
  <1>7. q \in Nat /\ x = g * q
    BY <1>4, <1>5, <1>6
  <1> QED
    BY <1>7 DEF q

\* A larger multiple has a larger quotient.
LEMMA FactorGrows ==
  ASSUME NEW a \in Int, NEW b \in Int, NEW g \in Nat \ {0}
  PROVE  /\ g * a \in Int /\ g * b \in Int
         /\ g * a <= g * b <=> a <= b
  <1>1. a * g = g * a /\ b * g = g * b /\ g * a \in Int /\ g * b \in Int
    OBVIOUS
  <1>2. a <= b => g * a <= g * b
    BY <1>1, TimesGrows
  <1>3. ASSUME b + 1 <= a PROVE g * b < g * a
    <2>1. (b + 1) * g <= a * g
      BY <1>3, TimesGrows
    <2>2. (b + 1) * g = b * g + g
      OBVIOUS
    <2> QED
      BY <1>1, <2>1, <2>2
  <1> QED
    BY <1>1, <1>2, <1>3
\* Zeros have no common step but 0.
LEMMA GcdOfZeros ==
  ASSUME NEW s \in Seq(Nat), \A i \in DOMAIN s : s[i] = 0
  PROVE  GcdOf(s) = 0
  <1> DEFINE n == Len(s)
             Fold(f) == f = [i \in 0 .. n |-> IF i = 0 THEN 0 ELSE Gcd(f[i - 1], s[i])]
             f0 == CHOOSE f : Fold(f)
             z == [i \in 0 .. n |-> 0]
  <1>1. n \in Nat /\ DOMAIN s = 1 .. n /\ \A i \in 1 .. n : s[i] = 0
    OBVIOUS
  <1>2. Gcd(0, 0) = 0
    <2> DEFINE g == CHOOSE f : Euclid(f)
    <2>1. Euclid(g)
      BY EuclidEnds
    <2>2. Gcd(0, 0) = g[<<0, 0>>]
      BY DEF Gcd, Euclid
    <2> HIDE DEF g
    <2>3. <<0, 0>> \in Nat \X Nat /\ <<0, 0>>[1] = 0 /\ <<0, 0>>[2] = 0
      OBVIOUS
    <2> QED
      BY <2>1, <2>2, <2>3 DEF Euclid
  <1>3. GcdOf(s) = f0[n]
    BY DEF GcdOf
  <1> HIDE DEF n
  <1>4. Fold(z)
    <2>1. \A i \in 0 .. n : i # 0 => z[i - 1] = 0 /\ s[i] = 0
      BY <1>1
    <2>2. \A i \in 0 .. n : 0 = IF i = 0 THEN 0 ELSE Gcd(z[i - 1], s[i])
      BY <1>2, <2>1
    <2> QED
      BY <2>2
  <1>5. Fold(f0)
    BY <1>4
  <1> HIDE DEF f0, z
  <1>6. f0[0] = 0 /\ \A i \in 1 .. n : f0[i] = Gcd(f0[i - 1], s[i])
    BY <1>1, <1>5
  <1> DEFINE S == {k \in 0 .. n : f0[k] = 0}
  <1>7. 0 \in S
    BY <1>1, <1>6
  <1>8. ASSUME NEW k \in 1 .. n, k - 1 \in S PROVE k \in S
    <2>1. f0[k] = Gcd(0, 0)
      BY <1>1, <1>6, <1>8
    <2> QED
      BY <1>1, <1>2, <2>1
  <1>9. S = 0 .. n
    <2>1. S \in SUBSET (0 .. n)
      OBVIOUS
    <2> HIDE DEF S
    <2> QED
      BY <1>1, <1>7, <1>8, <2>1, UpTo
  <1> QED
    BY <1>1, <1>3, <1>9

\* f describes the integers vs by a base, a step and an index each.
Describes(f, vs) ==
  /\ f.base \in Int /\ f.stride \in Nat \ {0} /\ f.span \in Nat
  /\ f.span < Pow(K) /\ f.stride < Pow(K)
  /\ f.index \in Seq(Nat) /\ Len(f.index) = Len(vs) /\ DOMAIN f.index = DOMAIN vs
  /\ \A j \in DOMAIN vs : /\ f.index[j] \in Nat /\ f.index[j] <= f.span
                          /\ vs[j] = f.base + f.stride * f.index[j]
  /\ f.base = Least(vs) /\ f.base + f.stride * f.span = Greatest(vs)
  /\ f.sum = SumWrapped(vs) /\ f.sorted = Ordered(vs)
  /\ f.width \in 0 .. K /\ (f.width = 0 <=> f.span = 0)
  /\ f.width # 0 => f.span < Pow(f.width)

\* The class chosen for the indices holds the largest.
LEMMA DeltaClassHolds ==
  ASSUME NEW span \in Nat, span < Pow(K)
  PROVE  /\ DeltaClass(span) \in 0 .. K /\ (DeltaClass(span) = 0 <=> span = 0)
         /\ DeltaClass(span) # 0 => span < Pow(DeltaClass(span))
  <1>1. CASE span = 0
    <2>1. DeltaClass(span) = 0 /\ 0 \in 0 .. K
      BY <1>1, Conversions DEF DeltaClass, Classes
    <2> QED
      BY <1>1, <2>1
  <1>2. CASE span # 0
    <2>1. DeltaClass(span) = Classify({span})
      BY <1>2 DEF DeltaClass
    <2>2. K \in Classes /\ UFits(K, {span})
      BY Conversions DEF UFits
    <2>3. Classify({span}) \in Classes /\ UFits(Classify({span}), {span})
      BY <2>2, ClassifyFits
    <2>4. span < Pow(Classify({span}))
      BY <2>3 DEF UFits
    <2>5. Classify({span}) \in 0 .. K /\ Classify({span}) # 0
      BY <2>3, ClassAssumption DEF Classes
    <2> QED
      BY <1>2, <2>1, <2>4, <2>5
  <1> QED
    BY <1>1, <1>2

\* A block of integers within the range of a word is described by its frame.
LEMMA FrameDescribes ==
  ASSUME NEW vs \in Seq(Int), Len(vs) > 0,
         \A i, j \in DOMAIN vs : vs[i] - vs[j] < Pow(K)
  PROVE  Describes(Frame(vs), vs)
  <1> DEFINE lo     == Least(vs)
             hi     == Greatest(vs)
             offs   == [i \in DOMAIN vs |-> vs[i] - lo]
             stride == StrideOf(offs)
             span   == (hi - lo) \div stride
             index  == [i \in DOMAIN vs |-> offs[i] \div stride]
             f      == Frame(vs)
  <1>1. /\ f.base = lo /\ f.stride = stride /\ f.span = span /\ f.sum = SumWrapped(vs)
        /\ f.sorted = Ordered(vs) /\ f.width = DeltaClass(span) /\ f.index = index
    BY DEF Frame
  <1> HIDE DEF f
  <1>2. /\ lo \in Int /\ hi \in Int /\ lo <= hi
        /\ \A j \in DOMAIN vs : lo <= vs[j] /\ vs[j] <= hi
    BY Extremes
  <1>3. PICK a \in DOMAIN vs : hi = vs[a]
    BY Extremes
  <1>4. PICK z \in DOMAIN vs : lo = vs[z]
    BY Extremes
  <1>5. DOMAIN vs = 1 .. Len(vs) /\ Len(vs) \in Nat /\ \A j \in DOMAIN vs : vs[j] \in Int
    OBVIOUS
  <1>6. hi - lo < Pow(K) /\ hi - lo \in Nat /\ Pow(K) \in Nat
    <2>1. vs[a] - vs[z] < Pow(K)
      OBVIOUS
    <2>2. Pow(K) \in Nat
      BY Conversions, PowFacts
    <2> QED
      BY <1>2, <1>3, <1>4, <2>1, <2>2
  <1> HIDE DEF lo, hi
  <1>7. offs \in Seq(Nat) /\ DOMAIN offs = DOMAIN vs /\ Len(offs) = Len(vs)
        /\ \A j \in DOMAIN vs : offs[j] \in Nat /\ offs[j] = vs[j] - lo
    <2>1. \A j \in DOMAIN vs : vs[j] - lo \in Nat
      BY <1>2, <1>5
    <2> QED
      BY <1>5, <2>1
  <1> HIDE DEF offs
  <1>8. stride \in Nat \ {0} /\ \A j \in DOMAIN vs : Multiple(offs[j], stride)
    BY <1>7, StrideDivides
  <1>9. offs[a] = hi - lo
    BY <1>3, <1>7
  <1>10. stride < Pow(K)
    <2>1. CASE hi - lo = 0
      <3>1. \A j \in DOMAIN offs : offs[j] = 0
        BY <1>2, <1>5, <1>6, <1>7, <2>1
      <3>2. GcdOf(offs) = 0
        BY <1>7, <3>1, GcdOfZeros
      <3>3. stride = 1
        BY <3>2 DEF StrideOf
      <3>4. Pow(K) # 1 /\ Pow(K) # 0
        BY Conversions, PowFacts
      <3> QED
        BY <1>6, <3>3, <3>4
    <2>2. CASE hi - lo # 0
      <3>1. PICK k \in Nat : hi - lo = k * stride
        BY <1>8, <1>9 DEF Multiple
      <3> HIDE DEF stride
      <3>2. k # 0
        <4> SUFFICES ASSUME k = 0 PROVE FALSE
          OBVIOUS
        <4>1. 0 * stride = 0
          BY <1>8
        <4> QED
          BY <2>2, <3>1, <4>1
      <3>3. 1 * stride <= k * stride
        BY <1>8, <3>2, TimesGrows
      <3>4. 1 * stride = stride /\ k * stride \in Int
        BY <1>8
      <3> QED
        BY <1>6, <1>8, <3>1, <3>3, <3>4
    <2> QED
      BY <2>1, <2>2
  <1> HIDE DEF stride
  <1>11. span \in Nat /\ hi - lo = stride * span
    BY <1>6, <1>8, <1>9, MultipleDiv
  <1>12. ASSUME NEW j \in DOMAIN vs
         PROVE  index[j] \in Nat /\ index[j] <= span /\ vs[j] = lo + stride * index[j]
    <2> DEFINE q == offs[j] \div stride
    <2>1. q \in Nat /\ offs[j] = stride * q
      BY <1>7, <1>8, MultipleDiv
    <2>2. index[j] = q
      OBVIOUS
    <2> HIDE DEF q, index, span
    <2>3. stride * q <= stride * span
      BY <1>2, <1>5, <1>7, <1>11, <2>1
    <2>4. q <= span
      BY <1>8, <1>11, <2>1, <2>3, FactorGrows
    <2>5. vs[j] = lo + stride * q
      <3>1. stride * q \in Int
        BY <1>8, <2>1
      <3> QED
        BY <1>2, <1>5, <1>7, <2>1, <3>1
    <2> QED
      BY <2>1, <2>2, <2>4, <2>5
  <1>13. index \in Seq(Nat) /\ Len(index) = Len(vs) /\ DOMAIN index = DOMAIN vs
    <2>1. \A j \in DOMAIN vs : index[j] \in Nat
      BY <1>12
    <2>2. index = [j \in 1 .. Len(vs) |-> index[j]]
      BY <1>5
    <2> HIDE DEF index
    <2> QED
      BY <1>5, <2>1, <2>2
  <1> HIDE DEF index, span
  <1>14. span < Pow(K)
    <2>1. CASE span = 0
      <3>1. Pow(K) # 0
        BY Conversions, PowFacts
      <3> QED
        BY <1>6, <2>1, <3>1
    <2>2. CASE span # 0
      <3>1. 1 * span <= stride * span
        BY <1>8, <1>11, TimesGrows
      <3>2. 1 * span = span /\ stride * span \in Int
        BY <1>8, <1>11
      <3> QED
        BY <1>6, <1>11, <3>1, <3>2
    <2> QED
      BY <2>1, <2>2
  <1>15. lo + stride * span = hi
    BY <1>2, <1>11
  <1>16. /\ DeltaClass(span) \in 0 .. K /\ (DeltaClass(span) = 0 <=> span = 0)
         /\ DeltaClass(span) # 0 => span < Pow(DeltaClass(span))
    BY <1>11, <1>14, DeltaClassHolds
  <1>17. f.base = Least(vs) /\ f.base + f.stride * f.span = Greatest(vs)
    BY <1>1, <1>15 DEF lo, hi
  <1> QED
    BY <1>1, <1>2, <1>8, <1>10, <1>11, <1>12, <1>13, <1>14, <1>16, <1>17 DEF Describes, f
-----------------------------------------------------------------------------
(* The payload: where the indices of the blocks lie.                        *)

\* The sizes of elements, and what divides a multiple of the widest.
LEMMA ElementSizes ==
  ASSUME NEW c \in Classes
  PROVE  /\ Bytes(c) = ElemBytes[c] /\ Bytes(c) \in Nat \ {0} /\ Bytes(K) \in Nat \ {0}
         /\ Bytes(c) <= Bytes(K)
         /\ \A m \in Int : m % Bytes(K) = 0 => m % Bytes(c) = 0
  <1>1. c \in Nat /\ c > 0 /\ K \in Nat /\ K > 0 /\ K \in Classes /\ K # 0 /\ c # 0
    BY ClassAssumption DEF Classes
  <1>2. Bytes(c) = ElemBytes[c] /\ Bytes(K) = ElemBytes[K]
    BY <1>1 DEF Bytes, Abs
  <1>3. ElemBytes[c] \in Nat \ {0} /\ ElemBytes[K] \in Nat \ {0}
    BY <1>1, ClassAssumption DEF Classes
  <1>4. ElemBytes[K] % ElemBytes[c] = 0
    BY BlockAssumption
  <1> DEFINE b == ElemBytes[c]
             B == ElemBytes[K]
  <1>5. b \in Nat \ {0} /\ B \in Nat \ {0} /\ B % b = 0
    BY <1>3, <1>4
  <1> HIDE DEF b, B
  <1>6. PICK q \in Nat \ {0} : B = q * b
    BY <1>5, MultipleOf
  <1>7. b <= B
    <2>1. 1 * b <= q * b
      BY <1>5, <1>6, TimesGrows
    <2> QED
      BY <1>5, <1>6, <2>1
  <1>8. ASSUME NEW m \in Int, m % B = 0 PROVE m % b = 0
    <2> DEFINE d == m \div B
    <2>1. d \in Int /\ m = d * B + (m % B)
      BY <1>5, DivMod
    <2> HIDE DEF d
    <2>2. m = d * B
      <3>1. d * B \in Int
        BY <1>5, <2>1
      <3> QED
        BY <1>8, <2>1, <3>1
    <2>3. d * (q * b) = (d * q) * b /\ d * q \in Int
      BY <1>5, <1>6, <2>1
    <2>4. m = (d * q) * b + 0 /\ 0 \in 0 .. b - 1
      <3>1. (d * q) * b \in Int
        BY <1>5, <2>3
      <3> QED
        BY <1>5, <1>6, <2>2, <2>3, <3>1
    <2> DEFINE k == d * q
    <2>5. k \in Int /\ m = k * b + 0
      BY <2>3, <2>4
    <2>6. 0 \in 0 .. b - 1
      BY <1>5
    <2> HIDE DEF k
    <2> QED
      BY <1>5, <2>5, <2>6, ModUnique
  <1> QED
    BY <1>2, <1>5, <1>7, <1>8 DEF b, B

\* Rounding up reaches the next multiple of the widest element, and no further.
LEMMA WordAlignedFacts ==
  ASSUME NEW n \in Nat
  PROVE  /\ WordAligned(n) \in Nat /\ n <= WordAligned(n) /\ WordAligned(n) % Bytes(K) = 0
         /\ \A m \in Nat : n <= m * Bytes(K) => WordAligned(n) <= m * Bytes(K)
  <1> DEFINE B == Bytes(K)
             q == (-n) \div B
             r == (-n) % B
  <1>1. B \in Nat \ {0}
    BY Conversions, ElementSizes
  <1>2. WordAligned(n) = n + r
    BY DEF WordAligned
  <1> HIDE DEF B
  <1>3. q \in Int /\ -n = q * B + r /\ r \in 0 .. B - 1
    <2>1. -n \in Int
      OBVIOUS
    <2> QED
      BY <1>1, <2>1, DivMod
  <1> HIDE DEF q, r
  <1>4. (-q) * B = -(q * B) /\ q * B \in Int /\ -q \in Int
    BY <1>1, <1>3
  <1>5. n + r = (-q) * B
    BY <1>1, <1>3, <1>4
  <1>6. (n + r) % B = 0
    <2> DEFINE k == -q
    <2>1. n + r = k * B + 0 /\ k \in Int /\ 0 \in 0 .. B - 1 /\ n + r \in Int
      BY <1>1, <1>3, <1>4, <1>5
    <2> HIDE DEF k
    <2> QED
      BY <1>1, <2>1, ModUnique
  <1>7. ASSUME NEW m \in Nat, n <= m * B PROVE n + r <= m * B
    <2> SUFFICES ASSUME ~(n + r <= m * B) PROVE FALSE
      OBVIOUS
    <2>1. m * B \in Int
      BY <1>1
    <2>2. m <= -q - 1
      <3> SUFFICES ASSUME -q <= m PROVE FALSE
        BY <1>3
      <3>1. (-q) * B <= m * B
        BY <1>1, <1>4, TimesGrows
      <3> QED
        BY <1>1, <1>3, <1>4, <1>5, <2>1, <3>1
    <2>3. -q - 1 \in Int
      BY <1>3
    <2>4. m * B <= (-q - 1) * B
      BY <1>1, <2>2, <2>3, TimesGrows
    <2>5. (-q - 1) * B = -(q * B) - B
      BY <1>1, <1>3
    <2> QED
      BY <1>1, <1>3, <1>4, <1>7, <2>1, <2>4, <2>5
  <1> QED
    BY <1>1, <1>2, <1>3, <1>6, <1>7 DEF B

\* Frames that say how many indices a block has and how wide they are.
Shaped(fr, nb) ==
  /\ Len(fr) = nb /\ DOMAIN fr = 1 .. nb
  /\ \A bi \in 1 .. nb : fr[bi].width \in 0 .. K /\ Len(fr[bi].index) \in Nat
\* The bytes of a block's indices.
Room(fr, bi) == IF fr[bi].width = 0 THEN 0 ELSE Len(fr[bi].index) * Bytes(fr[bi].width)

\* The ends of the blocks, one after another.
LEMMA PayloadEnds ==
  ASSUME NEW nb \in Nat, NEW fr, Shaped(fr, nb)
  PROVE  LET e == PayloadEnd(fr) IN
         /\ e \in [0 .. nb -> Nat] /\ e[0] = 0
         /\ \A bi \in 1 .. nb :
              e[bi] = IF fr[bi].width = 0 THEN e[bi - 1] ELSE WordAligned(e[bi - 1]) + Room(fr, bi)
  <1> DEFINE Step(bi, x) == IF fr[bi].width = 0 THEN x
                            ELSE WordAligned(x) + Len(fr[bi].index) * Bytes(fr[bi].width)
             Ends(e) == e = [bi \in 0 .. nb |->
                               IF bi = 0 THEN 0
                               ELSE IF fr[bi].width = 0 THEN e[bi - 1]
                               ELSE WordAligned(e[bi - 1])
                                      + Len(fr[bi].index) * Bytes(fr[bi].width)]
             st == [bi \in 1 .. nb |-> [x \in Nat |-> Step(bi, x)]]
             e0 == CHOOSE e : Ends(e)
  <1>0. Len(fr) = nb
    BY DEF Shaped
  <1>1. PayloadEnd(fr) = e0
    BY <1>0 DEF PayloadEnd
  <1>2. ASSUME NEW bi \in 1 .. nb, NEW x \in Nat PROVE Step(bi, x) \in Nat
    <2>1. fr[bi].width \in 0 .. K /\ Len(fr[bi].index) \in Nat
      BY DEF Shaped
    <2>2. CASE fr[bi].width = 0
      BY <2>2
    <2>3. CASE fr[bi].width # 0
      <3>1. fr[bi].width \in Classes
        BY <2>1, <2>3, ClassAssumption DEF Classes
      <3>2. Bytes(fr[bi].width) \in Nat
        BY <3>1, ElementSizes
      <3>3. WordAligned(x) \in Nat
        BY WordAlignedFacts
      <3>4. Len(fr[bi].index) * Bytes(fr[bi].width) \in Nat
        BY <2>1, <3>2
      <3> QED
        BY <2>3, <3>3, <3>4
    <2> QED
      BY <2>2, <2>3
  <1>3. st \in [1 .. nb -> [Nat -> Nat]] /\ 0 \in Nat
    <2> HIDE DEF Step
    <2> QED
      BY <1>2
  <1>4. PICK t : Stepping(t, nb, Nat, 0, st)
    <2> HIDE DEF st
    <2> QED
      BY <1>3, StepsExist
  <1>5. t \in [0 .. nb -> Nat] /\ t[0] = 0
    BY <1>4 DEF Stepping
  <1>6. ASSUME NEW bi \in 1 .. nb PROVE t[bi] = Step(bi, t[bi - 1])
    <2>1. t[bi] = st[bi][t[bi - 1]]
      BY <1>4 DEF Stepping
    <2>2. bi - 1 \in 0 .. nb
      OBVIOUS
    <2>3. t[bi - 1] \in Nat
      BY <1>5, <2>2
    <2> HIDE DEF Step
    <2>4. st[bi][t[bi - 1]] = Step(bi, t[bi - 1])
      BY <2>3
    <2> QED
      BY <2>1, <2>4
  <1>7. Ends(t)
    <2>1. \A bi \in 0 .. nb : t[bi] = IF bi = 0 THEN 0 ELSE Step(bi, t[bi - 1])
      <3> HIDE DEF Step
      <3> QED
        BY <1>5, <1>6
    <2>2. t = [bi \in 0 .. nb |-> t[bi]]
      BY <1>5
    <2>3. t = [bi \in 0 .. nb |-> IF bi = 0 THEN 0 ELSE Step(bi, t[bi - 1])]
      <3> HIDE DEF Step
      <3> QED
        BY <2>1, <2>2
    <2> QED
      BY <2>3
  <1>8. Ends(e0)
    BY <1>7
  <1> HIDE DEF e0, st
  <1>9. e0[0] = 0 /\ \A bi \in 1 .. nb : e0[bi] = Step(bi, e0[bi - 1])
    <2>1. e0 = [bi \in 0 .. nb |-> IF bi = 0 THEN 0 ELSE Step(bi, e0[bi - 1])]
      BY <1>8
    <2> HIDE DEF Step, Ends
    <2> QED
      BY <2>1
  <1>10. e0 = [bi \in 0 .. nb |-> e0[bi]]
    BY <1>8
  <1> HIDE DEF Ends
  <1> DEFINE S == {k \in 0 .. nb : e0[k] \in Nat}
  <1>11. S = 0 .. nb
    <2>1. 0 \in S
      BY <1>9
    <2>2. ASSUME NEW k \in 1 .. nb, k - 1 \in S PROVE k \in S
      <3> HIDE DEF Step
      <3> QED
        BY <1>2, <1>9, <2>2
    <2>3. S \in SUBSET (0 .. nb)
      OBVIOUS
    <2> HIDE DEF S
    <2> QED
      BY <2>1, <2>2, <2>3, UpTo
  <1>12. e0 \in [0 .. nb -> Nat]
    BY <1>10, <1>11
  <1> QED
    BY <1>1, <1>9, <1>12 DEF Room
\* The ends grow from block to block.
LEMMA EndsGrow ==
  ASSUME NEW nb \in Nat, NEW fr, Shaped(fr, nb), NEW a \in 0 .. nb, NEW b \in 0 .. nb, a <= b
  PROVE  PayloadEnd(fr)[a] <= PayloadEnd(fr)[b]
  <1> DEFINE e == PayloadEnd(fr)
             S == {k \in 0 .. b : a <= k => e[a] <= e[k]}
  <1>1. /\ e \in [0 .. nb -> Nat] /\ e[0] = 0
        /\ \A bi \in 1 .. nb :
             e[bi] = IF fr[bi].width = 0 THEN e[bi - 1] ELSE WordAligned(e[bi - 1]) + Room(fr, bi)
    BY PayloadEnds
  <1> HIDE DEF e
  <1>2. ASSUME NEW k \in 1 .. b PROVE e[k - 1] <= e[k]
    <2>1. k \in 1 .. nb /\ k - 1 \in 0 .. nb
      OBVIOUS
    <2>2. e[k - 1] \in Nat /\ e[k] \in Nat
      BY <1>1, <2>1
    <2>3. CASE fr[k].width = 0
      BY <1>1, <2>1, <2>2, <2>3
    <2>4. CASE fr[k].width # 0
      <3>1. fr[k].width \in Classes /\ Len(fr[k].index) \in Nat
        BY <2>1, <2>4, ClassAssumption DEF Shaped, Classes
      <3>2. Bytes(fr[k].width) \in Nat
        BY <3>1, ElementSizes
      <3>3. Room(fr, k) \in Nat
        BY <2>4, <3>1, <3>2 DEF Room
      <3>4. WordAligned(e[k - 1]) \in Nat /\ e[k - 1] <= WordAligned(e[k - 1])
        BY <2>2, WordAlignedFacts
      <3> QED
        BY <1>1, <2>1, <2>2, <2>4, <3>3, <3>4
    <2> QED
      BY <2>3, <2>4
  <1>3. 0 \in S
    BY <1>1
  <1>4. ASSUME NEW k \in 1 .. b, k - 1 \in S PROVE k \in S
    <2>1. k \in 0 .. nb /\ k - 1 \in 0 .. nb /\ k \in 0 .. b
      OBVIOUS
    <2>2. e[k - 1] \in Nat /\ e[k] \in Nat /\ e[a] \in Nat
      BY <1>1, <2>1
    <2>3. ASSUME a <= k PROVE e[a] <= e[k]
      <3>1. CASE a = k
        BY <3>1, <2>2
      <3>2. CASE a # k
        <4>1. a <= k - 1
          BY <2>3, <3>2
        <4> QED
          BY <1>2, <1>4, <2>2, <4>1
      <3> QED
        BY <3>1, <3>2
    <2> QED
      BY <2>1, <2>3
  <1>5. S = 0 .. b
    <2>1. S \in SUBSET (0 .. b)
      OBVIOUS
    <2> HIDE DEF S
    <2> QED
      BY <1>3, <1>4, <2>1, UpTo
  <1> QED
    BY <1>5 DEF e

\* A block's indices lie between the end of the one before and its own.
LEMMA BlocksApart1 ==
  ASSUME NEW nb \in Nat, NEW fr, Shaped(fr, nb), NEW bi \in 1 .. nb, fr[bi].width # 0
  PROVE  /\ fr[bi].width \in Classes /\ Offset(fr, bi) \in Nat /\ Offset(fr, bi) % Bytes(K) = 0
         /\ Offset(fr, bi) + Room(fr, bi) = PayloadEnd(fr)[bi]
         /\ PayloadEnd(fr)[bi - 1] <= Offset(fr, bi)
         /\ Room(fr, bi) = Len(fr[bi].index) * Bytes(fr[bi].width) /\ Room(fr, bi) \in Nat
         /\ PayloadEnd(fr)[bi] \in Nat /\ PayloadEnd(fr)[bi] <= PayloadEnd(fr)[nb]
         /\ PayloadEnd(fr)[nb] \in Nat
         /\ \A bj \in 1 .. nb : fr[bj].width # 0 /\ bi < bj =>
              Offset(fr, bi) + Room(fr, bi) <= Offset(fr, bj)
  <1> DEFINE e == PayloadEnd(fr)
  <1>1. /\ e \in [0 .. nb -> Nat] /\ e[0] = 0
        /\ \A k \in 1 .. nb :
             e[k] = IF fr[k].width = 0 THEN e[k - 1] ELSE WordAligned(e[k - 1]) + Room(fr, k)
    BY PayloadEnds
  <1>2. \A k \in 1 .. nb : fr[k].width # 0 => Offset(fr, k) = WordAligned(e[k - 1])
    BY DEF Offset
  <1>3. \A a, b \in 0 .. nb : a <= b => e[a] <= e[b]
    BY EndsGrow
  <1> HIDE DEF e
  <1>4. \A k \in 1 .. nb : k - 1 \in 0 .. nb /\ k \in 0 .. nb /\ e[k - 1] \in Nat /\ e[k] \in Nat
    <2>1. \A k \in 1 .. nb : k - 1 \in 0 .. nb /\ k \in 0 .. nb
      OBVIOUS
    <2> QED
      BY <1>1, <2>1
  <1>5. fr[bi].width \in Classes /\ Len(fr[bi].index) \in Nat
    BY ClassAssumption DEF Shaped, Classes
  <1>6. Room(fr, bi) = Len(fr[bi].index) * Bytes(fr[bi].width) /\ Room(fr, bi) \in Nat
    <2>1. Bytes(fr[bi].width) \in Nat
      BY <1>5, ElementSizes
    <2> QED
      BY <1>5, <2>1 DEF Room
  <1>7. \A k \in 1 .. nb : /\ WordAligned(e[k - 1]) \in Nat /\ e[k - 1] <= WordAligned(e[k - 1])
                           /\ WordAligned(e[k - 1]) % Bytes(K) = 0
    BY <1>4, WordAlignedFacts
  <1>8. e[bi] = Offset(fr, bi) + Room(fr, bi)
    BY <1>1, <1>2
  <1>9. \A bj \in 1 .. nb : fr[bj].width # 0 /\ bi < bj => e[bi] <= Offset(fr, bj)
    <2> SUFFICES ASSUME NEW bj \in 1 .. nb, fr[bj].width # 0, bi < bj
                 PROVE  e[bi] <= Offset(fr, bj)
      OBVIOUS
    <2>1. bi <= bj - 1 /\ bi \in 0 .. nb /\ bj - 1 \in 0 .. nb
      OBVIOUS
    <2>2. e[bi] <= e[bj - 1]
      BY <1>3, <2>1
    <2>3. e[bi] \in Nat /\ e[bj - 1] \in Nat
      BY <1>4
    <2> QED
      BY <1>2, <1>7, <2>2, <2>3
  <1>10. e[bi] <= e[nb] /\ e[nb] \in Nat
    <2>1. bi \in 0 .. nb /\ nb \in 0 .. nb /\ bi <= nb
      OBVIOUS
    <2> QED
      BY <1>1, <1>3, <2>1
  <1> QED
    BY <1>2, <1>4, <1>5, <1>6, <1>7, <1>8, <1>9, <1>10 DEF e

\* Two elements of the payload that start at the same byte are the same.
LEMMA SameAddress ==
  ASSUME NEW nb \in Nat, NEW fr, Shaped(fr, nb),
         NEW bi \in 1 .. nb, fr[bi].width # 0, NEW j \in 1 .. Len(fr[bi].index),
         NEW bk \in 1 .. nb, fr[bk].width # 0, NEW l \in 1 .. Len(fr[bk].index),
         Offset(fr, bi) + (j - 1) * Bytes(fr[bi].width)
           = Offset(fr, bk) + (l - 1) * Bytes(fr[bk].width)
  PROVE  bi = bk /\ j = l
  <1>1. ASSUME NEW x \in 1 .. nb, fr[x].width # 0, NEW k \in 1 .. Len(fr[x].index)
        PROVE  /\ (k - 1) * Bytes(fr[x].width) \in Nat
               /\ (k - 1) * Bytes(fr[x].width) + Bytes(fr[x].width) <= Room(fr, x)
               /\ Bytes(fr[x].width) \in Nat \ {0} /\ Room(fr, x) \in Nat /\ Offset(fr, x) \in Nat
    <2> DEFINE w == Bytes(fr[x].width)
               n == Len(fr[x].index)
    <2>1. n \in Nat /\ Room(fr, x) = n * w /\ Offset(fr, x) \in Nat /\ Room(fr, x) \in Nat
      BY <1>1, BlocksApart1 DEF Shaped
    <2>2. w \in Nat \ {0}
      BY <1>1, BlocksApart1, ElementSizes
    <2>0. k \in 1 .. n
      OBVIOUS
    <2> HIDE DEF w, n
    <2>3. k - 1 \in Nat /\ k \in Int /\ k <= n
      BY <2>0, <2>1
    <2>4. k * w <= n * w
      BY <2>1, <2>2, <2>3, TimesGrows
    <2>5. k * w = (k - 1) * w + w /\ (k - 1) * w \in Nat
      BY <2>2, <2>3
    <2> QED
      BY <2>1, <2>2, <2>4, <2>5 DEF w
  <1>2. ~(bi < bk)
    <2> SUFFICES ASSUME bi < bk PROVE FALSE
      OBVIOUS
    <2>1. Offset(fr, bi) + Room(fr, bi) <= Offset(fr, bk)
      BY BlocksApart1
    <2> DEFINE x == (j - 1) * Bytes(fr[bi].width)
               y == (l - 1) * Bytes(fr[bk].width)
               w == Bytes(fr[bi].width)
    <2>2. x \in Nat /\ x + w <= Room(fr, bi) /\ w \in Nat \ {0} /\ Room(fr, bi) \in Nat
          /\ Offset(fr, bi) \in Nat
      BY <1>1
    <2>3. y \in Nat /\ Offset(fr, bk) \in Nat
      BY <1>1
    <2>4. Offset(fr, bi) + x = Offset(fr, bk) + y
      OBVIOUS
    <2> HIDE DEF x, y, w
    <2> QED
      BY <2>1, <2>2, <2>3, <2>4
  <1>3. ~(bk < bi)
    <2> SUFFICES ASSUME bk < bi PROVE FALSE
      OBVIOUS
    <2>1. Offset(fr, bk) + Room(fr, bk) <= Offset(fr, bi)
      BY BlocksApart1
    <2> DEFINE x == (j - 1) * Bytes(fr[bi].width)
               y == (l - 1) * Bytes(fr[bk].width)
               w == Bytes(fr[bk].width)
    <2>2. y \in Nat /\ y + w <= Room(fr, bk) /\ w \in Nat \ {0} /\ Room(fr, bk) \in Nat
          /\ Offset(fr, bk) \in Nat
      BY <1>1
    <2>3. x \in Nat /\ Offset(fr, bi) \in Nat
      BY <1>1
    <2>4. Offset(fr, bi) + x = Offset(fr, bk) + y
      OBVIOUS
    <2> HIDE DEF x, y, w
    <2> QED
      BY <2>1, <2>2, <2>3, <2>4
  <1>4. bi = bk
    BY <1>2, <1>3
  <1>5. j = l
    <2> DEFINE w == Bytes(fr[bi].width)
    <2>1. w \in Nat \ {0} /\ Offset(fr, bi) \in Nat
      BY <1>1
    <2>2. Offset(fr, bi) + (j - 1) * w = Offset(fr, bi) + (l - 1) * w
      BY <1>4
    <2>3. Len(fr[bi].index) \in Nat /\ l \in 1 .. Len(fr[bi].index)
      BY <1>4 DEF Shaped
    <2> DEFINE a == j - 1
               b == l - 1
    <2>4. a \in Int /\ b \in Int
      BY <2>3
    <2>5. Offset(fr, bi) + a * w = Offset(fr, bi) + b * w
      BY <2>2
    <2> HIDE DEF w, a, b
    <2>6. a * w \in Int /\ b * w \in Int /\ a * w = w * a /\ b * w = w * b
      BY <2>1, <2>4
    <2>7. a * w = b * w
      BY <2>1, <2>5, <2>6
    <2>8. w * a <= w * b /\ w * b <= w * a
      BY <2>6, <2>7
    <2>9. a <= b /\ b <= a
      BY <2>1, <2>4, <2>8, FactorGrows
    <2> QED
      BY <2>3, <2>4, <2>9 DEF a, b
  <1> QED
    BY <1>4, <1>5
\* What a block wrote is what is found where it wrote.
LEMMA PayloadHolds ==
  ASSUME NEW nb \in Nat, NEW fr, Shaped(fr, nb), NEW bytes, bytes = PayloadEnd(fr)[nb],
         NEW bi \in 1 .. nb, fr[bi].width # 0, NEW j \in 1 .. Len(fr[bi].index),
         \A k \in 1 .. nb : DOMAIN fr[k].index = 1 .. Len(fr[k].index)
  PROVE  LET a == Offset(fr, bi) + (j - 1) * Bytes(fr[bi].width) IN
         /\ a \in 0 .. bytes - 1
         /\ Payload(fr, bytes)[a] = Raw(fr[bi].width, fr[bi].index[j])
  <1> DEFINE At(x, k) == Offset(fr, x) + (k - 1) * Bytes(fr[x].width)
             Val(x, k) == Raw(fr[x].width, fr[x].index[k])
             Of(x) == {<<At(x, k), Val(x, k)>> : k \in DOMAIN fr[x].index}
             stored == {x \in DOMAIN fr : fr[x].width # 0}
             written == UNION {Of(x) : x \in stored}
             at(a) == {w \in written : w[1] = a}
             a0 == At(bi, j)
             P == [a \in 0 .. bytes - 1 |-> IF at(a) = {} THEN 0 ELSE (CHOOSE w \in at(a) : TRUE)[2]]
  <1>1. DOMAIN fr = 1 .. nb /\ \A k \in 1 .. nb : DOMAIN fr[k].index = 1 .. Len(fr[k].index)
    BY DEF Shaped
  <1>2. Payload(fr, bytes) = P
    BY DEF Payload
  <1>3. a0 \in 0 .. bytes - 1
    <2> DEFINE w == Bytes(fr[bi].width)
               n == Len(fr[bi].index)
    <2>1. /\ n \in Nat /\ Offset(fr, bi) \in Nat /\ w \in Nat \ {0}
          /\ Room(fr, bi) = n * w /\ Offset(fr, bi) + Room(fr, bi) <= bytes /\ bytes \in Nat
      <3>1. /\ fr[bi].width \in Classes /\ Offset(fr, bi) \in Nat /\ Room(fr, bi) = n * w
            /\ Offset(fr, bi) + Room(fr, bi) = PayloadEnd(fr)[bi]
            /\ PayloadEnd(fr)[bi] <= PayloadEnd(fr)[nb] /\ PayloadEnd(fr)[nb] \in Nat
        BY BlocksApart1
      <3>2. w \in Nat \ {0} /\ n \in Nat
        BY <3>1, ElementSizes DEF Shaped
      <3> QED
        BY <3>1, <3>2
    <2>2. j \in 1 .. n
      OBVIOUS
    <2> HIDE DEF w, n
    <2>3. j * w <= n * w
      BY <2>1, <2>2, TimesGrows
    <2>4. j * w = (j - 1) * w + w /\ (j - 1) * w \in Nat
      BY <2>1, <2>2
    <2> DEFINE up == (j - 1) * w
               jw == j * w
               nw == n * w
               off == Offset(fr, bi)
    <2>6. up \in Nat /\ jw = up + w /\ jw <= nw /\ off + nw <= bytes /\ nw \in Int
      BY <2>1, <2>3, <2>4
    <2>7. off \in Nat
      BY <2>1
    <2> HIDE DEF up, jw, nw, off
    <2>5. off + up \in 0 .. bytes - 1
      BY <2>1, <2>6, <2>7
    <2> QED
      BY <2>5 DEF w, up, off
  <1>4. ASSUME NEW x \in 1 .. nb, fr[x].width # 0, NEW k \in 1 .. Len(fr[x].index), At(x, k) = a0
        PROVE  x = bi /\ k = j
    BY <1>4, SameAddress
  <1> DEFINE v == <<a0, Val(bi, j)>>
  <1> HIDE DEF At, Val, a0
  <1>5. v \in written
    <2>1. bi \in stored /\ j \in DOMAIN fr[bi].index
      BY <1>1
    <2>2. v \in Of(bi)
      BY <2>1 DEF a0
    <2> QED
      BY <2>1, <2>2
  <1>6. ASSUME NEW w \in written, w[1] = a0 PROVE w = v
    <2>1. PICK x \in stored : w \in Of(x)
      OBVIOUS
    <2>2. PICK k \in DOMAIN fr[x].index : w = <<At(x, k), Val(x, k)>>
      BY <2>1
    <2>3. x \in 1 .. nb /\ fr[x].width # 0 /\ k \in 1 .. Len(fr[x].index)
      BY <1>1, <2>1, <2>2
    <2>4. At(x, k) = a0
      BY <1>6, <2>2
    <2>5. x = bi /\ k = j
      BY <1>4, <2>3, <2>4
    <2> QED
      BY <2>2, <2>4, <2>5
  <1> HIDE DEF written, v
  <1>7. v[1] = a0 /\ v[2] = Val(bi, j)
    BY DEF v
  <1>8. at(a0) = {v}
    BY <1>5, <1>6, <1>7
  <1>9. (CHOOSE w \in {v} : TRUE) = v
    OBVIOUS
  <1>10. P[a0] = v[2]
    <2>1. P[a0] = IF at(a0) = {} THEN 0 ELSE (CHOOSE w \in at(a0) : TRUE)[2]
      <3> HIDE DEF at
      <3> QED
        BY <1>3
    <2> HIDE DEF at, P
    <2> QED
      BY <1>8, <1>9, <2>1
  <1> HIDE DEF P
  <1> QED
    BY <1>2, <1>3, <1>7, <1>10 DEF a0, At, Val

-----------------------------------------------------------------------------
(* Pieces of an array.                                                      *)

\* The frames of an array, counted in integers: what Frames gives while counting the
\* blocks does not wrap.
Blocks(vs, block) == [bi \in 1 .. CeilDiv(Len(vs), block) |-> Frame(Piece(vs, block, bi))]
LEMMA FramesCut ==
  ASSUME NEW vs, Len(vs) \in Nat, NEW block \in Nat \ {0}, block + Len(vs) <= Pow(K)
  PROVE  Frames(vs, block) = Blocks(vs, block)
  <1> DEFINE m == Len(vs) + block - 1
  <1>1. m \in Nat /\ m < Pow(K) /\ K \in Classes
    BY Conversions, PowFacts
  <1> HIDE DEF m
  <1>2. Raw(K, m) = m
    BY <1>1, RawSmall
  <1>3. BlockCount(Len(vs), block) = CeilDiv(Len(vs), block)
    BY <1>2 DEF BlockCount, CeilDiv, Wrap, m
  <1> QED
    BY <1>3 DEF Frames, Blocks

\* The elements of a block, one by one.
LEMMA PieceFacts ==
  ASSUME NEW T, NEW vs \in Seq(T), NEW block \in Nat \ {0},
         NEW bi \in 1 .. CeilDiv(Len(vs), block)
  PROVE  LET p   == Piece(vs, block, bi)
             len == UpTill(Len(vs), block, bi) - Before(block, bi)
         IN  /\ p \in Seq(T) /\ Len(p) = len /\ len > 0 /\ DOMAIN p = 1 .. len
             /\ \A j \in 1 .. len : /\ p[j] = vs[Before(block, bi) + j]
                                    /\ Before(block, bi) + j \in 1 .. Len(vs)
  <1> DEFINE lo == Before(block, bi)
             hi == UpTill(Len(vs), block, bi)
             n  == Len(vs)
             p  == Piece(vs, block, bi)
  <1>1. p = SubSeq(vs, lo + 1, hi)
    BY DEF Piece, Before, UpTill
  <1>2. n \in Nat
    OBVIOUS
  <1>3. lo \in Nat /\ hi \in Nat /\ lo < hi /\ hi <= n
    BY <1>2, BlocksCover
  <1>9. \A x \in 1 .. n : vs[x] \in T
    OBVIOUS
  <1>8. vs \in Seq(T) /\ Len(vs) = n
    OBVIOUS
  <1> HIDE DEF lo, hi, p, n
  <1>4. \A x \in lo + 1 .. hi : x \in 1 .. n
    BY <1>2, <1>3
  <1>5. p = [j \in 1 .. hi - lo |-> vs[lo + j]]
    <2>1. lo + 1 \in 1 .. n + 1 /\ hi \in lo .. n /\ hi \in (lo + 1) - 1 .. n
      BY <1>2, <1>3
    <2> DEFINE q == SubSeq(vs, lo + 1, hi)
    <2>2. /\ q \in Seq(T)
          /\ Len(q) = IF lo + 1 <= hi THEN hi - (lo + 1) + 1 ELSE 0
          /\ \A j \in 1 .. hi - (lo + 1) + 1 : q[j] = vs[(lo + 1) + j - 1]
      BY SMTT(60), <1>8, <2>1, SubSeqProperties
    <2>4. hi - (lo + 1) + 1 = hi - lo /\ lo + 1 <= hi /\ hi - lo \in Nat
      BY <1>3
    <2> HIDE DEF q
    <2>5. Len(q) = hi - lo /\ DOMAIN q = 1 .. hi - lo /\ q = [j \in 1 .. hi - lo |-> q[j]]
      BY <2>2, <2>4
    <2>6. ASSUME NEW j \in 1 .. hi - lo PROVE q[j] = vs[lo + j]
      <3>1. q[j] = vs[(lo + 1) + j - 1]
        BY <2>2, <2>4
      <3>2. (lo + 1) + j - 1 = lo + j
        BY <1>3
      <3> QED
        BY <3>1, <3>2
    <2> QED
      BY <1>1, <2>5, <2>6 DEF q
  <1>6. \A j \in 1 .. hi - lo : lo + j \in 1 .. n /\ vs[lo + j] \in T
    BY <1>2, <1>3, <1>9
  <1>7. hi - lo \in Nat /\ hi - lo > 0
    BY <1>3
  <1>10. p \in Seq(T) /\ Len(p) = hi - lo /\ DOMAIN p = 1 .. hi - lo
    BY <1>5, <1>6, <1>7
  <1> QED
    BY <1>5, <1>6, <1>7, <1>10 DEF lo, hi, p, n
-----------------------------------------------------------------------------
(* What BlockedOf makes.                                                    *)

\* An array of int64_t, or of uint64_t, that lies in memory.
InMemory(vs, sg) ==
  /\ vs \in Seq(Int) /\ Len(vs) * Bytes(K) < Pow(K)
  /\ \A i \in DOMAIN vs : vs[i] \in (IF sg THEN Int64 ELSE Word)

\* A block of such an array has elements, and a frame that describes it.
LEMMA PieceDescribed ==
  ASSUME NEW sg \in BOOLEAN, NEW vs, InMemory(vs, sg), NEW block \in Nat \ {0},
         NEW bi \in 1 .. CeilDiv(Len(vs), block), NEW p, p = Piece(vs, block, bi)
  PROVE  /\ p \in Seq(Int) /\ Len(p) = UpTill(Len(vs), block, bi) - Before(block, bi)
         /\ Len(p) > 0 /\ DOMAIN p = 1 .. Len(p)
         /\ \A j \in 1 .. Len(p) : /\ p[j] = vs[Before(block, bi) + j]
                                   /\ Before(block, bi) + j \in 1 .. Len(vs)
                                   /\ p[j] \in (IF sg THEN Int64 ELSE Word)
         /\ Describes(Frame(p), p)
  <1>1. vs \in Seq(Int) /\ \A i \in 1 .. Len(vs) : vs[i] \in (IF sg THEN Int64 ELSE Word)
    BY DEF InMemory
  <1>2. /\ p \in Seq(Int) /\ Len(p) = UpTill(Len(vs), block, bi) - Before(block, bi)
        /\ Len(p) > 0 /\ DOMAIN p = 1 .. Len(p)
        /\ \A j \in 1 .. Len(p) : /\ p[j] = vs[Before(block, bi) + j]
                                  /\ Before(block, bi) + j \in 1 .. Len(vs)
    BY <1>1, PieceFacts
  <1>3. \A j \in 1 .. Len(p) : p[j] \in (IF sg THEN Int64 ELSE Word)
    BY <1>1, <1>2
  <1>4. \A i, j \in DOMAIN p : p[i] - p[j] < Pow(K)
    <2>1. Half[K] \in Nat \ {0} /\ Pow(K) = 2 * Half[K]
      BY Conversions DEF Pow
    <2> SUFFICES ASSUME NEW i \in DOMAIN p, NEW j \in DOMAIN p
                 PROVE  p[i] - p[j] < Pow(K)
      OBVIOUS
    <2>2. p[i] \in (IF sg THEN Int64 ELSE Word) /\ p[j] \in (IF sg THEN Int64 ELSE Word)
      BY <1>2, <1>3
    <2> QED
      BY <2>1, <2>2 DEF Int64, Word
  <1>5. Describes(Frame(p), p)
    BY <1>2, <1>4, FrameDescribes
  <1> QED
    BY <1>2, <1>3, <1>5

\* The frames of an array.
LEMMA FramesAre ==
  ASSUME NEW sg \in BOOLEAN, NEW vs, InMemory(vs, sg), NEW block \in Nat \ {0},
         NEW nb, nb = CeilDiv(Len(vs), block), NEW fr, fr = Blocks(vs, block)
  PROVE  /\ nb \in Nat /\ Shaped(fr, nb)
         /\ \A bi \in 1 .. nb :
              /\ fr[bi] = Frame(Piece(vs, block, bi))
              /\ Describes(fr[bi], Piece(vs, block, bi))
              /\ DOMAIN fr[bi].index = 1 .. Len(fr[bi].index)
  <1>1. nb \in Nat
    <2>1. Len(vs) \in Nat
      BY DEF InMemory
    <2> QED
      BY <2>1, BlocksCover
  <1>2. fr = [bi \in 1 .. nb |-> Frame(Piece(vs, block, bi))]
    BY DEF Blocks
  <1>3. Len(fr) = nb /\ DOMAIN fr = 1 .. nb
    BY <1>1, <1>2
  <1>4. ASSUME NEW bi \in 1 .. nb
        PROVE  /\ fr[bi] = Frame(Piece(vs, block, bi))
               /\ Describes(fr[bi], Piece(vs, block, bi))
               /\ Len(fr[bi].index) = UpTill(Len(vs), block, bi) - Before(block, bi)
               /\ DOMAIN fr[bi].index = 1 .. Len(fr[bi].index)
               /\ fr[bi].width \in 0 .. K /\ Len(fr[bi].index) \in Nat
    <2>1. fr[bi] = Frame(Piece(vs, block, bi))
      BY <1>2
    <2>2. /\ Len(Piece(vs, block, bi)) = UpTill(Len(vs), block, bi) - Before(block, bi)
          /\ Describes(Frame(Piece(vs, block, bi)), Piece(vs, block, bi))
      BY PieceDescribed
    <2>3. Describes(fr[bi], Piece(vs, block, bi))
      BY <2>1, <2>2
    <2>4. /\ fr[bi].index \in Seq(Nat) /\ fr[bi].width \in 0 .. K
          /\ Len(fr[bi].index) = Len(Piece(vs, block, bi))
      BY <2>3 DEF Describes
    <2> QED
      BY <2>1, <2>2, <2>3, <2>4
  <1> QED
    BY <1>1, <1>3, <1>4 DEF Shaped

\* How many elements a block has.
LEMMA FrameLength ==
  ASSUME NEW sg \in BOOLEAN, NEW vs, InMemory(vs, sg), NEW block \in Nat \ {0},
         NEW bi \in 1 .. CeilDiv(Len(vs), block), NEW f, f = Blocks(vs, block)[bi]
  PROVE  Len(f.index) = UpTill(Len(vs), block, bi) - Before(block, bi)
  <1> DEFINE p == Piece(vs, block, bi)
  <1>1. Len(p) = UpTill(Len(vs), block, bi) - Before(block, bi)
    BY PieceDescribed
  <1>2. Describes(f, p)
    BY FramesAre
  <1> HIDE DEF p
  <1>3. Len(f.index) = Len(p)
    BY <1>2 DEF Describes
  <1> QED
    BY <1>1, <1>3

\* Blocks of the lengths of the pieces of n elements.
Measured(fr, nb, n, block) ==
  Shaped(fr, nb) /\ \A b \in 1 .. nb : Len(fr[b].index) = UpTill(n, block, b) - Before(block, b)

\* Payload blocks of such lengths need no more than a word for every element.
LEMMA EndsBound ==
  ASSUME NEW n \in Nat, NEW block \in Nat \ {0}, NEW nb, nb = CeilDiv(n, block),
         NEW fr, Measured(fr, nb, n, block), NEW bi \in 0 .. nb
  PROVE  /\ PayloadEnd(fr)[bi] \in Nat
         /\ PayloadEnd(fr)[bi] <= UpTill(n, block, bi) * Bytes(K)
  <1> DEFINE e == PayloadEnd(fr)
             up(b) == UpTill(n, block, b)
             lo(b) == Before(block, b)
             B == Bytes(K)
  <1>1. /\ nb \in Nat /\ Shaped(fr, nb)
        /\ \A b \in 1 .. nb : Len(fr[b].index) = up(b) - lo(b)
    <2>1. nb \in Nat
      BY BlocksCover
    <2>2. \A b \in 1 .. nb : Len(fr[b].index) = up(b) - lo(b)
      <3> HIDE DEF e
      <3> QED
        BY DEF Measured
    <2> QED
      BY <2>1, <2>2 DEF Measured
  <1>2. e \in [0 .. nb -> Nat] /\ e[0] = 0
        /\ \A b \in 1 .. nb :
             e[b] = IF fr[b].width = 0 THEN e[b - 1] ELSE WordAligned(e[b - 1]) + Room(fr, b)
    BY <1>1, PayloadEnds
  <1>3. n \in Nat
    OBVIOUS
  <1>4. \A b \in 1 .. nb : /\ lo(b) \in Nat /\ up(b) \in Nat /\ lo(b) < up(b)
                           /\ lo(b) = up(b - 1)
    BY <1>3, BlocksCover
  <1>5. B \in Nat \ {0} /\ \A c \in Classes : Bytes(c) \in Nat \ {0} /\ Bytes(c) <= B
    BY Conversions, ElementSizes
  <1>6. up(0) = 0
    BY <1>3 DEF UpTill
  <1> DEFINE S == {b \in 0 .. nb : e[b] <= up(b) * B}
  <1>7. 0 \in S
    <2> HIDE DEF e, up, B
    <2> QED
      BY <1>1, <1>2, <1>5, <1>6
  <1>8. ASSUME NEW b \in 1 .. nb, b - 1 \in S PROVE b \in S
    <2>1. b - 1 \in 0 .. nb /\ b \in 0 .. nb /\ e[b - 1] <= up(b - 1) * B
      BY <1>1, <1>8
    <2>2. up(b - 1) = lo(b) /\ lo(b) \in Nat /\ up(b) \in Nat /\ lo(b) < up(b)
      BY <1>4
    <2>3. e[b - 1] \in Nat
      BY <1>2, <2>1
    <2>4. e[b - 1] <= lo(b) * B
      BY <2>1, <2>2
    <2>5. /\ WordAligned(e[b - 1]) \in Nat
          /\ \A m \in Nat : e[b - 1] <= m * B => WordAligned(e[b - 1]) <= m * B
      <3> HIDE DEF e
      <3> QED
        BY <2>3, WordAlignedFacts
    <2>6. WordAligned(e[b - 1]) <= lo(b) * B
      BY <2>2, <2>4, <2>5
    <2> DEFINE l == lo(b)
               u == up(b)
               w == Bytes(fr[b].width)
               x == WordAligned(e[b - 1])
               y == e[b]
               z == e[b - 1]
               len == Len(fr[b].index)
    <2>7. l \in Nat /\ u \in Nat /\ l < u /\ x <= l * B /\ z <= l * B /\ z \in Nat /\ x \in Nat
      BY <2>2, <2>3, <2>4, <2>5, <2>6
    <2>8. len = u - l
      BY <1>1
    <2>9. CASE fr[b].width = 0
      <3>1. y = z
        BY <1>2, <2>9
      <3> HIDE DEF l, u, y, z, B, x
      <3>2. l * B <= u * B /\ l * B \in Int /\ u * B \in Int
        BY <1>5, <2>7, TimesGrows
      <3> DEFINE lB == l * B
                 uB == u * B
      <3>3. y <= u * B
        <4> HIDE DEF lB, uB
        <4>1. z <= lB /\ lB <= uB /\ lB \in Int /\ uB \in Int
          BY <2>7, <3>2 DEF lB, uB
        <4>2. y <= uB
          BY <2>7, <3>1, <4>1
        <4> QED
          BY <4>2 DEF uB
      <3> QED
        BY <2>1, <3>3 DEF y, u
    <2>10. CASE fr[b].width # 0
      <3>1. y = x + Room(fr, b) /\ Room(fr, b) = len * w
        BY <1>2, <2>10 DEF Room
      <3>2. fr[b].width \in Classes
        BY <1>1, <2>10 DEF Shaped, Classes
      <3>3. w \in Nat \ {0} /\ w <= B
        BY <1>5, <3>2
      <3> HIDE DEF l, u, y, B, x, w, len
      <3>4. len \in Nat /\ len * w \in Int
        BY <2>7, <2>8, <3>3
      <3>5. w * len <= B * len
        BY <1>5, <3>3, <3>4, TimesGrows
      <3>6. B * len = u * B - l * B /\ w * len = len * w /\ u * B \in Int /\ l * B \in Int
        BY <1>5, <2>7, <2>8, <3>3
      <3> DEFINE lB == l * B
                 uB == u * B
                 wl == len * w
                 Bl == B * len
      <3>7. wl <= Bl /\ Bl = uB - lB /\ x <= lB /\ y = x + wl
            /\ wl \in Int /\ uB \in Int /\ lB \in Int /\ x \in Nat
        BY <2>7, <3>1, <3>4, <3>5, <3>6
      <3>8. y <= uB
        <4> HIDE DEF lB, uB, wl, Bl
        <4> QED
          BY <3>7
      <3> QED
        BY <2>1, <3>8 DEF y, u
    <2> QED
      BY <2>9, <2>10
  <1> HIDE DEF S
  <1>9. S \in SUBSET (0 .. nb)
    BY DEF S
  <1>10. S = 0 .. nb
    BY <1>1, <1>7, <1>8, <1>9, UpTo
  <1>11. bi \in S
    BY <1>10
  <1> QED
    BY <1>2, <1>11 DEF S

\* The blocks of an array in memory are such.
LEMMA FramesMeasured ==
  ASSUME NEW sg \in BOOLEAN, NEW vs, InMemory(vs, sg), NEW block \in Nat \ {0},
         NEW nb, nb = CeilDiv(Len(vs), block), NEW fr, fr = Blocks(vs, block)
  PROVE  Measured(fr, nb, Len(vs), block)
  <1>1. nb \in Nat /\ Shaped(fr, nb)
    BY FramesAre
  <1>2. ASSUME NEW b \in 1 .. nb
        PROVE  Len(fr[b].index) = UpTill(Len(vs), block, b) - Before(block, b)
    BY FrameLength
  <1>3. \A b \in 1 .. nb : Len(fr[b].index) = UpTill(Len(vs), block, b) - Before(block, b)
    BY <1>2
  <1> QED
    BY <1>1, <1>3 DEF Measured

\* Block bi of a column is the frame of block bi of the array, read back.
Stands(b, bi, fr) ==
  LET f == fr[bi] IN
  /\ b.blocks[bi].width = f.width /\ b.blocks[bi].sorted = f.sorted
  /\ BB(b, bi) = Wrap(f.base) /\ BT(b, bi) = f.stride
  /\ BP(b, bi) = f.span /\ BS(b, bi) = f.sum
  /\ BlkLen(b, bi) = Len(f.index)
  /\ f.width # 0 => BO(b, bi) = Offset(fr, bi)
  /\ \A j \in 1 .. Len(f.index) : Delta(b, bi, j) = f.index[j]

\* A column that is the given array, cut into blocks of its own size.
Represents(b, vs, sg) ==
  LET nb == CeilDiv(Len(vs), b.block)
      fr == Blocks(vs, b.block)
  IN  /\ b.block \in Nat \ {0} /\ b.count = Len(vs) /\ b.signed = sg
      /\ DOMAIN b.blocks = 1 .. nb /\ b.bytes = PayloadEnd(fr)[nb]
      /\ \A bi \in 1 .. nb : Stands(b, bi, fr)

\* A number kept in the class chosen for all numbers of its kind is read back.
LEMMA NarrowedReadsBack ==
  ASSUME NEW sg \in BOOLEAN, NEW ns, \A m \in ns : m \in (IF sg THEN Int64 ELSE Word),
         NEW c, c = ClassOf(sg, ns), NEW m \in ns
  PROVE  /\ c \in Classes
         /\ (sg => U64(AsSigned(c, Raw(c, m))) = Wrap(m)) /\ (~sg => Raw(c, m) = Wrap(m))
  <1>1. K \in Classes /\ Pow(K) = 2 * Half[K] /\ Half[K] \in Nat \ {0}
    BY Conversions DEF Pow
  <1>2. CASE sg
    <2>1. SFits(K, ns)
      BY <1>1, <1>2 DEF SFits, Int64
    <2>2. -ClassifySigned(ns) \in Classes /\ SFits(-ClassifySigned(ns), ns)
      BY <1>1, <2>1, ClassifySignedFits
    <2>3. c = -ClassifySigned(ns)
      BY <1>2 DEF ClassOf
    <2>4. c \in Classes /\ SFits(c, ns)
      BY <2>2, <2>3
    <2>7. m \in Int
      BY <1>1, <1>2 DEF Int64
    <2>5. m \in Int /\ -Half[c] <= m /\ m < Half[c]
      BY <2>4, <2>7 DEF SFits
    <2>6. AsSigned(c, Raw(c, m)) = m
      BY <2>4, <2>5, SignExtended
    <2> QED
      BY <1>2, <2>4, <2>6 DEF U64, Wrap
  <1>3. CASE ~sg
    <2>1. UFits(K, ns)
      BY <1>1, <1>3 DEF UFits, Word
    <2>2. Classify(ns) \in Classes /\ UFits(Classify(ns), ns)
      BY <1>1, <2>1, ClassifyFits
    <2>3. c = Classify(ns)
      BY <1>3 DEF ClassOf
    <2>4. c \in Classes /\ m < Pow(c) /\ m \in Nat
      BY <1>1, <1>3, <2>2, <2>3 DEF UFits, Word
    <2>5. m < Pow(K)
      BY <1>1, <1>3 DEF Word
    <2>6. Raw(c, m) = m /\ Raw(K, m) = m
      BY <1>1, <2>4, <2>5, RawSmall
    <2> QED
      BY <1>3, <2>4, <2>6 DEF Wrap
  <1> QED
    BY <1>2, <1>3

\* The same of numbers that have no sign.
LEMMA NarrowedNatural ==
  ASSUME NEW ns, \A m \in ns : m \in Word, NEW m \in ns
  PROVE  Classify(ns) \in Classes /\ Raw(Classify(ns), m) = m
  <1>4. K \in Classes /\ Pow(K) \in Nat
    BY Conversions, PowFacts
  <1>1. K \in Classes /\ UFits(K, ns)
    BY <1>4 DEF UFits, Word
  <1>2. Classify(ns) \in Classes /\ UFits(Classify(ns), ns)
    BY <1>1, ClassifyFits
  <1>3. m \in Nat /\ m < Pow(Classify(ns))
    BY <1>2, Conversions DEF UFits
  <1> QED
    BY <1>2, <1>3, RawSmall

\* A sum kept in the class of the signed readings of all sums is read back.
LEMMA NarrowedSum ==
  ASSUME NEW sg \in BOOLEAN, NEW us, \A u \in us : u \in Word,
         NEW c, c = ClassOf(sg, {IF sg THEN I64(u) ELSE u : u \in us}), NEW u \in us
  PROVE  (sg => U64(AsSigned(c, Raw(c, u))) = u) /\ (~sg => Raw(c, u) = u)
  <1> DEFINE ns == {IF sg THEN I64(x) ELSE x : x \in us}
             m  == IF sg THEN I64(u) ELSE u
  <1>1. \A x \in us : I64(x) \in Int64
    BY Conversions
  <1>2. \A x \in ns : x \in (IF sg THEN Int64 ELSE Word)
    BY <1>1
  <1>3. m \in ns /\ c = ClassOf(sg, ns)
    OBVIOUS
  <1>8. m = IF sg THEN I64(u) ELSE u
    OBVIOUS
  <1> HIDE DEF ns, m
  <1>4. /\ c \in Classes
        /\ (sg => U64(AsSigned(c, Raw(c, m))) = Wrap(m)) /\ (~sg => Raw(c, m) = Wrap(m))
    <2>1. c \in Classes
      BY <1>2, <1>3, NarrowedReadsBack
    <2>2. (sg => U64(AsSigned(c, Raw(c, m))) = Wrap(m)) /\ (~sg => Raw(c, m) = Wrap(m))
      BY <1>2, <1>3, NarrowedReadsBack
    <2> QED
      BY <2>1, <2>2
  <1>9. K \in Classes /\ Pow(K) \in Nat
    BY Conversions, PowFacts
  <1>5. u \in Nat /\ u < Pow(K) /\ K \in Classes
    BY <1>9 DEF Word
  <1>6. CASE sg
    <2>1. m = I64(u) /\ I64(u) \in Int /\ I64(u) = AsSigned(K, u)
      BY <1>5, <1>6, AsSignedRange DEF m, I64
    <2>2. Raw(K, m) = u
      BY <1>5, <2>1, RawSigned
    <2>3. c <= K
      BY <1>4, <1>5 DEF Classes
    <2>4. Raw(c, Raw(K, m)) = Raw(c, m)
      BY <1>4, <1>5, <2>1, <2>3, RawRaw
    <2> QED
      BY <1>4, <1>6, <2>2, <2>4 DEF Wrap
  <1>7. CASE ~sg
    <2>1. m = u /\ Raw(K, u) = u
      BY <1>5, <1>7, RawSmall DEF m
    <2> QED
      BY <1>4, <1>7, <2>1 DEF Wrap
  <1> QED
    BY <1>6, <1>7
\* The number of elements of a block as the code works it out.
LEMMA BlockLength ==
  ASSUME NEW n \in Nat, NEW block \in Nat \ {0}, NEW bi \in 1 .. CeilDiv(n, block)
  PROVE  (IF n - (bi - 1) * block < block THEN n - (bi - 1) * block ELSE block)
           = UpTill(n, block, bi) - Before(block, bi)
  <1>1. bi \in Nat \ {0}
    BY BlocksCover
  <1> DEFINE l == (bi - 1) * block
             u == bi * block
  <1>2. u = l + block /\ l \in Int
    BY <1>1
  <1>3. /\ UpTill(n, block, bi) = IF u <= n THEN u ELSE n
        /\ Before(block, bi) = l
    BY DEF UpTill, Before
  <1> HIDE DEF l, u
  <1>4. (IF n - l < block THEN n - l ELSE block) = UpTill(n, block, bi) - Before(block, bi)
    BY <1>2, <1>3
  <1> QED
    BY <1>4 DEF l

\* What the frames of an array are made of, and what they were before they were narrowed.
LEMMA FrameNumbers ==
  ASSUME NEW sg \in BOOLEAN, NEW vs, InMemory(vs, sg), NEW block \in Nat \ {0},
         NEW bi \in 1 .. CeilDiv(Len(vs), block), NEW f, f = Blocks(vs, block)[bi]
  PROVE  /\ f.base \in (IF sg THEN Int64 ELSE Word)
         /\ f.span \in Word /\ f.stride \in Word /\ f.sum \in Word
  <1> DEFINE p == Piece(vs, block, bi)
  <1>1. p \in Seq(Int) /\ Len(p) > 0 /\ \A j \in 1 .. Len(p) : p[j] \in (IF sg THEN Int64 ELSE Word)
    BY PieceDescribed
  <1>2. Describes(f, p)
    BY FramesAre
  <1> HIDE DEF p
  <1>3. /\ f.base = Least(p) /\ f.sum = SumWrapped(p) /\ f.span \in Nat /\ f.span < Pow(K)
        /\ f.stride \in Nat /\ f.stride < Pow(K)
    BY <1>2 DEF Describes
  <1>4. \E i \in DOMAIN p : Least(p) = p[i]
    BY <1>1, Extremes
  <1>5. DOMAIN p = 1 .. Len(p)
    BY <1>1
  <1>6. f.base \in (IF sg THEN Int64 ELSE Word)
    BY <1>1, <1>3, <1>4, <1>5
  <1>7. PICK t : Adds(t, p)
    BY <1>1, AddsExist
  <1>8. f.sum \in Word
    BY <1>1, <1>3, <1>7, SumWrappedIs
  <1>9. Pow(K) \in Nat
    BY Conversions, PowFacts
  <1>10. f.span \in Word /\ f.stride \in Word
    BY <1>3, <1>9 DEF Word
  <1> QED
    BY <1>6, <1>8, <1>10

\* A payload no larger than the array fits the address space.
LEMMA TotalBound ==
  ASSUME NEW n \in Nat, n * Bytes(K) < Pow(K), NEW block \in Nat \ {0},
         NEW nb, nb = CeilDiv(n, block), NEW fr, Measured(fr, nb, n, block)
  PROVE  PayloadEnd(fr)[nb] \in Word
  <1>2. nb \in Nat /\ UpTill(n, block, nb) = n
    BY BlocksCover
  <1>3. nb \in 0 .. nb
    BY <1>2
  <1>4. PayloadEnd(fr)[nb] \in Nat /\ PayloadEnd(fr)[nb] <= UpTill(n, block, nb) * Bytes(K)
    BY <1>3, EndsBound
  <1> DEFINE t == PayloadEnd(fr)[nb]
             m == n * Bytes(K)
  <1>5. t \in Nat /\ t <= m /\ m < Pow(K)
    BY <1>2, <1>4
  <1>6. Pow(K) \in Nat /\ m \in Int
    BY Conversions, PowFacts, ElementSizes
  <1> HIDE DEF t, m
  <1>7. t \in Word
    BY <1>5, <1>6 DEF Word
  <1> QED
    BY <1>7 DEF t

\* The payload of an array in memory fits it, then.
LEMMA TotalFits ==
  ASSUME NEW sg \in BOOLEAN, NEW vs, InMemory(vs, sg), NEW block \in Nat \ {0},
         NEW nb, nb = CeilDiv(Len(vs), block), NEW fr, fr = Blocks(vs, block)
  PROVE  PayloadEnd(fr)[nb] \in Word
  <1>1. Len(vs) \in Nat /\ Len(vs) * Bytes(K) < Pow(K)
    BY DEF InMemory
  <1>2. Measured(fr, nb, Len(vs), block)
    BY FramesMeasured
  <1> QED
    BY <1>1, <1>2, TotalBound

\* A column that was built is the array it was built from.
LEMMA BuiltRepresents ==
  ASSUME NEW sg \in BOOLEAN, NEW vs, InMemory(vs, sg), NEW block \in Nat,
         NEW b, b = BlockedOf(vs, sg, block), b.block + Len(vs) <= Pow(K)
  PROVE  Represents(b, vs, sg)
  <1> DEFINE blkn  == IF block = 0 THEN BlockDefault ELSE block
             fr    == Frames(vs, blkn)
             nb    == CeilDiv(Len(vs), blkn)
             total == PayloadEnd(fr)[Len(fr)]
             bases == {fr[bi].base : bi \in DOMAIN fr}
             sums  == {IF sg THEN I64(u) ELSE u : u \in {fr[bi].sum : bi \in DOMAIN fr}}
             spans == {fr[bi].span : bi \in DOMAIN fr}
             steps == {fr[bi].stride : bi \in DOMAIN fr}
             bcls  == ClassOf(sg, bases)
             scls  == ClassOf(sg, sums)
             pcls  == Classify(spans)
             tcls  == Classify(steps)
             ocls  == Classify({total})
             row(bi) == [width |-> fr[bi].width, sorted |-> fr[bi].sorted,
                         off |-> Raw(ocls, Offset(fr, bi)), base |-> Raw(bcls, fr[bi].base),
                         span |-> Raw(pcls, fr[bi].span), sum |-> Raw(scls, fr[bi].sum),
                         stride |-> Raw(tcls, fr[bi].stride)]
  <1>1. /\ b.count = Len(vs) /\ b.block = blkn /\ b.signed = sg
        /\ b.bcls = bcls /\ b.scls = scls
        /\ b.has_stride = \E bi \in DOMAIN fr : fr[bi].stride > 1
        /\ b.bytes = total /\ b.data = Payload(fr, total)
        /\ b.blocks = [bi \in DOMAIN fr |-> row(bi)]
    <2>1. {(IF sg THEN I64(fr[bi].sum) ELSE fr[bi].sum) : bi \in DOMAIN fr} = sums
      OBVIOUS
    <2> QED
      BY <2>1 DEF BlockedOf, FrameClass
  <1>2. blkn \in Nat \ {0} /\ nb = CeilDiv(Len(vs), blkn) /\ fr = Blocks(vs, blkn)
    <2>1. blkn \in Nat \ {0} /\ Len(vs) \in Nat /\ blkn + Len(vs) <= Pow(K)
      BY <1>1, BlockAssumption DEF InMemory
    <2> HIDE DEF blkn
    <2>2. Frames(vs, blkn) = Blocks(vs, blkn)
      BY <2>1, FramesCut
    <2> QED
      BY <2>1, <2>2
  <1> HIDE DEF blkn, nb, fr
  <1>3. /\ nb \in Nat /\ Shaped(fr, nb)
        /\ \A bi \in 1 .. nb : DOMAIN fr[bi].index = 1 .. Len(fr[bi].index)
    <2>1. nb \in Nat /\ Shaped(fr, nb)
      BY <1>2, FramesAre
    <2>2. ASSUME NEW bi \in 1 .. nb PROVE DOMAIN fr[bi].index = 1 .. Len(fr[bi].index)
      BY <1>2, FramesAre
    <2> QED
      BY <2>1, <2>2
  <1>4. Len(fr) = nb /\ DOMAIN fr = 1 .. nb
    BY <1>3 DEF Shaped
  <1>5. total = PayloadEnd(fr)[nb] /\ total \in Word
    <2>1. PayloadEnd(fr)[nb] \in Word
      BY <1>2, TotalFits
    <2> QED
      BY <1>4, <2>1
  <1>6. \A bi \in 1 .. nb : /\ fr[bi].base \in (IF sg THEN Int64 ELSE Word)
                            /\ fr[bi].span \in Word /\ fr[bi].stride \in Word
                            /\ fr[bi].sum \in Word
    BY <1>2, FrameNumbers
  <1>7. /\ \A m \in bases : m \in (IF sg THEN Int64 ELSE Word)
        /\ \A m \in spans : m \in Word
        /\ \A m \in steps : m \in Word
        /\ \A m \in {fr[bi].sum : bi \in DOMAIN fr} : m \in Word
    BY <1>4, <1>6
  <1> HIDE DEF total
  <1>8. DOMAIN b.blocks = 1 .. nb /\ \A bi \in 1 .. nb : b.blocks[bi] = row(bi)
    BY <1>1, <1>4
  <1>9. ASSUME NEW bi \in 1 .. nb PROVE Stands(b, bi, fr)
    <2> DEFINE f == fr[bi]
    <2>1. /\ b.blocks[bi].width = f.width /\ b.blocks[bi].sorted = f.sorted
          /\ b.blocks[bi].off = Raw(ocls, Offset(fr, bi))
          /\ b.blocks[bi].base = Raw(bcls, f.base) /\ b.blocks[bi].span = Raw(pcls, f.span)
          /\ b.blocks[bi].sum = Raw(scls, f.sum) /\ b.blocks[bi].stride = Raw(tcls, f.stride)
      <3>1. b.blocks[bi] = row(bi)
        BY <1>8
      <3> HIDE DEF ocls, bcls, pcls, scls, tcls
      <3> QED
        BY <3>1
    <2>2. /\ f.base \in bases /\ f.span \in spans /\ f.stride \in steps
          /\ f.sum \in {fr[bk].sum : bk \in DOMAIN fr}
      BY <1>4
    <2>3. BB(b, bi) = Wrap(f.base)
      <3>0. f.base \in bases /\ \A m \in bases : m \in (IF sg THEN Int64 ELSE Word)
        BY <1>7, <2>2
      <3> HIDE DEF bases
      <3>1. /\ sg => U64(AsSigned(bcls, Raw(bcls, f.base))) = Wrap(f.base)
            /\ ~sg => Raw(bcls, f.base) = Wrap(f.base)
        BY <3>0, NarrowedReadsBack
      <3> HIDE DEF bcls, f
      <3> QED
        BY <1>1, <2>1, <3>1 DEF BB, ReadBack
    <2>4. BS(b, bi) = f.sum
      <3>1. /\ sg => U64(AsSigned(scls, Raw(scls, f.sum))) = f.sum
            /\ ~sg => Raw(scls, f.sum) = f.sum
        <4> DEFINE us == {fr[bk].sum : bk \in DOMAIN fr}
        <4>1. /\ f.sum \in us /\ (\A m \in us : m \in Word)
              /\ scls = ClassOf(sg, {IF sg THEN I64(u) ELSE u : u \in us})
          BY <1>7, <2>2
        <4> HIDE DEF us, scls
        <4> QED
          BY <4>1, NarrowedSum
      <3> HIDE DEF scls, f
      <3> QED
        BY <1>1, <2>1, <3>1 DEF BS, ReadBack
    <2>5. BP(b, bi) = f.span
      <3>0. f.span \in spans /\ \A m \in spans : m \in Word
        BY <1>7, <2>2
      <3> HIDE DEF spans
      <3>1. Raw(pcls, f.span) = f.span
        BY <3>0, NarrowedNatural
      <3> QED
        BY <2>1, <3>1 DEF BP
    <2>6. BT(b, bi) = f.stride
      <3>0. f.stride \in steps /\ \A m \in steps : m \in Word
        BY <1>7, <2>2
      <3>1. Raw(tcls, f.stride) = f.stride
        <4> HIDE DEF steps
        <4> QED
          BY <3>0, NarrowedNatural
      <3>2. CASE b.has_stride
        BY <2>1, <3>1, <3>2 DEF BT
      <3>3. CASE ~b.has_stride
        <4>1. ~(f.stride > 1)
          BY <1>1, <1>4, <3>3
        <4>2. f.stride \in Nat \ {0}
          <5>1. Describes(fr[bi], Piece(vs, blkn, bi))
            BY <1>2, FramesAre
          <5> QED
            BY <5>1 DEF Describes
        <4> QED
          BY <3>3, <4>1, <4>2 DEF BT
      <3> QED
        BY <3>2, <3>3
    <2>7. BlkLen(b, bi) = Len(f.index)
      <3>1. Len(vs) \in Nat
        BY DEF InMemory
      <3>2. (IF Len(vs) - (bi - 1) * blkn < blkn THEN Len(vs) - (bi - 1) * blkn ELSE blkn)
              = UpTill(Len(vs), blkn, bi) - Before(blkn, bi)
        BY <1>2, <3>1, BlockLength
      <3>3. Len(f.index) = UpTill(Len(vs), blkn, bi) - Before(blkn, bi)
        BY <1>2, FrameLength
      <3> QED
        BY <1>1, <3>2, <3>3 DEF BlkLen
    <2>8. f.width # 0 => BO(b, bi) = Offset(fr, bi)
      <3> HAVE f.width # 0
      <3>1. /\ Offset(fr, bi) \in Nat /\ Offset(fr, bi) + Room(fr, bi) = PayloadEnd(fr)[bi]
            /\ PayloadEnd(fr)[bi] <= PayloadEnd(fr)[nb] /\ PayloadEnd(fr)[nb] \in Nat
            /\ Room(fr, bi) \in Nat
        BY <1>3, BlocksApart1
      <3>2. Offset(fr, bi) <= total /\ Offset(fr, bi) \in Nat
        <4> DEFINE o == Offset(fr, bi)
                   x == PayloadEnd(fr)[bi]
                   y == PayloadEnd(fr)[nb]
        <4>1. o \in Nat /\ o + Room(fr, bi) = x /\ x <= y /\ y \in Nat /\ total = y
          BY <1>5, <3>1
        <4> HIDE DEF o, x, y
        <4>2. o <= total
          BY <3>1, <4>1
        <4> QED
          BY <3>1, <4>2 DEF o
      <3>3. ocls \in Classes /\ Raw(ocls, total) = total
        <4> DEFINE ns == {total}
        <4>1. (\A m \in ns : m \in Word) /\ total \in ns /\ ocls = Classify(ns)
          BY <1>5
        <4> HIDE DEF ns, ocls
        <4> QED
          BY <4>1, NarrowedNatural
      <3>4. Raw(ocls, total) < Pow(ocls) /\ Pow(ocls) \in Nat /\ total \in Int
        <4>1. total \in Int
          BY <1>5, Conversions
        <4>2. ocls \in Classes
          BY <3>3
        <4> HIDE DEF ocls
        <4>3. Raw(ocls, total) < Pow(ocls)
          BY ONLY <4>1, <4>2, RawRange
        <4>4. Pow(ocls) \in Nat
          BY <4>2, PowFacts
        <4> QED
          BY <4>1, <4>3, <4>4
      <3>5. Offset(fr, bi) < Pow(ocls)
        BY <3>2, <3>3, <3>4
      <3>6. Raw(ocls, Offset(fr, bi)) = Offset(fr, bi)
        BY <3>2, <3>3, <3>5, RawSmall
      <3> QED
        BY <2>1, <3>6 DEF BO
    <2>9. \A j \in 1 .. Len(f.index) : Delta(b, bi, j) = f.index[j]
      <3> SUFFICES ASSUME NEW j \in 1 .. Len(f.index)
                   PROVE  Delta(b, bi, j) = f.index[j]
        OBVIOUS
      <3>1. Describes(f, Piece(vs, blkn, bi)) /\ DOMAIN f.index = 1 .. Len(f.index)
        <4>1. Describes(f, Piece(vs, blkn, bi))
          BY <1>2, FramesAre
        <4> QED
          BY <1>3, <4>1
      <3>2. /\ f.index[j] \in Nat /\ f.index[j] <= f.span /\ f.span \in Nat
            /\ f.width \in 0 .. K /\ (f.width = 0 <=> f.span = 0)
            /\ f.width # 0 => f.span < Pow(f.width)
        BY <3>1 DEF Describes
      <3>3. CASE f.width = 0
        BY <2>1, <3>2, <3>3 DEF Delta
      <3>4. CASE f.width # 0
        <4>1. f.width \in Classes /\ Pow(f.width) \in Nat
          BY <3>2, <3>4, PowFacts DEF Classes
        <4>2. Raw(f.width, f.index[j]) = f.index[j]
          BY <3>2, <3>4, <4>1, RawSmall
        <4>3. Payload(fr, total)[Offset(fr, bi) + (j - 1) * Bytes(f.width)]
                = Raw(f.width, f.index[j])
          BY <1>3, <1>5, <3>4, PayloadHolds
        <4>4. Delta(b, bi, j) = b.data[BO(b, bi) + (j - 1) * Bytes(f.width)]
          BY <2>1, <3>4 DEF Delta
        <4> QED
          BY <1>1, <2>8, <3>4, <4>2, <4>3, <4>4
      <3> QED
        BY <3>3, <3>4
    <2> HIDE DEF f
    <2> QED
      BY <2>1, <2>3, <2>4, <2>5, <2>6, <2>7, <2>8, <2>9 DEF Stands, f
  <1>10. b.block = blkn /\ b.count = Len(vs) /\ b.signed = sg /\ b.bytes = PayloadEnd(fr)[nb]
    BY <1>1, <1>5
  <1> QED
    BY <1>2, <1>8, <1>9, <1>10 DEF Represents
-----------------------------------------------------------------------------
(* What a column that stands for an array answers.                          *)

\* Narrowing twice is narrowing; and a factor may be narrowed first.
LEMMA WrapFacts ==
  /\ \A x \in Int : Wrap(x) \in Word /\ Wrap(Wrap(x)) = Wrap(x)
  /\ \A x \in Word : Wrap(x) = x /\ x \in Nat /\ x < Pow(K)
  /\ Pow(K) \in Nat \ {0, 1}
  <1>1. K \in Classes /\ Pow(K) \in Nat \ {0, 1}
    BY Conversions, PowFacts
  <1>2. ASSUME NEW x \in Int PROVE Wrap(x) \in Word /\ Wrap(Wrap(x)) = Wrap(x)
    <2>1. Raw(K, x) \in Word
      BY <1>1, RawRange
    <2>2. Raw(K, Raw(K, x)) = Raw(K, x)
      BY <1>1, RawRaw DEF Classes
    <2> QED
      BY <2>1, <2>2 DEF Wrap
  <1>3. ASSUME NEW x \in Word PROVE Wrap(x) = x /\ x \in Nat /\ x < Pow(K)
    <2>1. x \in Nat /\ x < Pow(K)
      BY <1>1 DEF Word
    <2> QED
      BY <1>1, <2>1, RawSmall DEF Wrap
  <1> QED
    BY <1>1, <1>2, <1>3

\* One block of a column that stands for an array.
LEMMA BlockStands ==
  ASSUME NEW sg \in BOOLEAN, NEW vs, InMemory(vs, sg), NEW b, Represents(b, vs, sg),
         NEW bi \in DOMAIN b.blocks, NEW f, f = Blocks(vs, b.block)[bi],
         NEW p, p = Piece(vs, b.block, bi)
  PROVE  /\ bi \in 1 .. CeilDiv(Len(vs), b.block) /\ b.block \in Nat \ {0}
         /\ Stands(b, bi, Blocks(vs, b.block)) /\ Describes(f, p)
  <1>1. b.block \in Nat \ {0} /\ bi \in 1 .. CeilDiv(Len(vs), b.block)
    BY DEF Represents
  <1>2. Stands(b, bi, Blocks(vs, b.block))
    BY <1>1 DEF Represents
  <1>3. Describes(f, p)
    <2> DEFINE block == b.block
    <2>1. block \in Nat \ {0} /\ bi \in 1 .. CeilDiv(Len(vs), block)
          /\ f = Blocks(vs, block)[bi] /\ p = Piece(vs, block, bi)
      BY <1>1
    <2> HIDE DEF block
    <2> QED
      BY <2>1, FramesAre
  <1> QED
    BY <1>1, <1>2, <1>3

\* Every element is read back.
LEMMA ElementsKept ==
  ASSUME NEW sg \in BOOLEAN, NEW vs, InMemory(vs, sg), NEW b, Represents(b, vs, sg),
         NEW i \in 1 .. Len(vs)
  PROVE  BlockedGet(b, i) = Wrap(vs[i]) /\ (sg => BlockedGetSigned(b, i) = vs[i])
  <1> DEFINE block == b.block
             bi == (i - 1) \div block + 1
             j  == ((i - 1) % block) + 1
             f  == Blocks(vs, block)[bi]
             p  == Piece(vs, block, bi)
  <1>1. Len(vs) \in Nat /\ block \in Nat \ {0} /\ DOMAIN b.blocks = 1 .. CeilDiv(Len(vs), block)
    BY DEF Represents, InMemory
  <1>2. /\ bi \in 1 .. CeilDiv(Len(vs), block) /\ i = Before(block, bi) + j
        /\ j \in 1 .. block /\ j <= UpTill(Len(vs), block, bi) - Before(block, bi)
    <2> HIDE DEF block
    <2> QED
      BY SMTT(60), <1>1, PlaceOf
  <1>3. BlockedGet(b, i) = Wrap(BB(b, bi) + BT(b, bi) * Delta(b, bi, j))
    BY DEF BlockedGet
  <1>4. Stands(b, bi, Blocks(vs, block)) /\ Describes(f, p)
    <2> HIDE DEF bi
    <2> QED
      BY <1>1, <1>2, BlockStands
  <1> HIDE DEF bi, j
  <1>5. /\ p \in Seq(Int) /\ Len(p) = UpTill(Len(vs), block, bi) - Before(block, bi)
        /\ DOMAIN p = 1 .. Len(p)
        /\ \A k \in 1 .. Len(p) : p[k] = vs[Before(block, bi) + k]
    <2> HIDE DEF block
    <2> QED
      BY <1>1, <1>2, PieceDescribed
  <1>6. j \in 1 .. Len(p) /\ p[j] = vs[i]
    BY <1>2, <1>5
  <1> HIDE DEF f, p
  <1>7. /\ f.base \in Int /\ f.stride \in Nat /\ f.index[j] \in Nat
        /\ p[j] = f.base + f.stride * f.index[j] /\ Len(f.index) = Len(p)
    BY <1>4, <1>5, <1>6 DEF Describes
  <1>8. BB(b, bi) = Wrap(f.base) /\ BT(b, bi) = f.stride /\ Delta(b, bi, j) = f.index[j]
    BY <1>4, <1>6, <1>7 DEF Stands, f
  <1> DEFINE x == f.base
             y == f.stride * f.index[j]
  <1>9. x \in Int /\ y \in Int /\ vs[i] = x + y /\ BlockedGet(b, i) = Wrap(Wrap(x) + y)
    BY <1>3, <1>6, <1>7, <1>8
  <1> HIDE DEF x, y
  <1>10. Wrap(x) \in Int /\ Wrap(Wrap(x)) = Wrap(x)
    BY <1>9, WrapFacts
  <1>11. Wrap(Wrap(x) + y) = Wrap(x + y)
    BY <1>9, <1>10, WrapPlus
  <1>12. BlockedGet(b, i) = Wrap(vs[i])
    BY <1>9, <1>11
  <1>13. sg => BlockedGetSigned(b, i) = vs[i]
    <2> HAVE sg
    <2>1. vs[i] \in Int64
      BY DEF InMemory
    <2>2. I64(U64(vs[i])) = vs[i]
      BY <2>1, SignedWord
    <2> QED
      BY <1>12, <2>2 DEF BlockedGetSigned, U64, Wrap
  <1> QED
    BY <1>12, <1>13

\* Where the indices of a block lie.
LEMMA StoredApart ==
  ASSUME NEW sg \in BOOLEAN, NEW vs, InMemory(vs, sg), NEW b, Represents(b, vs, sg),
         NEW bi \in DOMAIN b.blocks, b.blocks[bi].width # 0, NEW w, w = Bytes(b.blocks[bi].width)
  PROVE  /\ w \in Nat \ {0} /\ BO(b, bi) \in Nat /\ BO(b, bi) % w = 0
         /\ BO(b, bi) + BlkLen(b, bi) * w <= b.bytes
         /\ \A bj \in DOMAIN b.blocks : b.blocks[bj].width # 0 /\ bi < bj =>
              BO(b, bi) + BlkLen(b, bi) * w <= BO(b, bj)
  <1> DEFINE fr == Blocks(vs, b.block)
             nb == CeilDiv(Len(vs), b.block)
             block == b.block
  <1>1. block \in Nat \ {0} /\ DOMAIN b.blocks = 1 .. nb /\ b.bytes = PayloadEnd(fr)[nb]
        /\ \A k \in 1 .. nb : Stands(b, k, fr)
    BY DEF Represents
  <1>2. nb \in Nat /\ Shaped(fr, nb)
    <2>1. nb = CeilDiv(Len(vs), block) /\ fr = Blocks(vs, block)
      OBVIOUS
    <2> HIDE DEF block, nb, fr
    <2> QED
      BY <1>1, <2>1, FramesAre
  <1> HIDE DEF fr, nb
  <1>3. /\ b.blocks[bi].width = fr[bi].width /\ BlkLen(b, bi) = Len(fr[bi].index)
        /\ BO(b, bi) = Offset(fr, bi) /\ fr[bi].width # 0
    BY <1>1 DEF Stands
  <1>4. /\ fr[bi].width \in Classes /\ Offset(fr, bi) \in Nat /\ Offset(fr, bi) % Bytes(K) = 0
        /\ Offset(fr, bi) + Room(fr, bi) = PayloadEnd(fr)[bi]
        /\ Room(fr, bi) = Len(fr[bi].index) * Bytes(fr[bi].width)
        /\ PayloadEnd(fr)[bi] <= PayloadEnd(fr)[nb]
    BY <1>1, <1>2, <1>3, BlocksApart1
  <1>5. w \in Nat \ {0} /\ \A m \in Int : m % Bytes(K) = 0 => m % w = 0
    BY <1>3, <1>4, ElementSizes
  <1>6. BO(b, bi) \in Nat /\ BO(b, bi) % w = 0
    BY <1>3, <1>4, <1>5
  <1>7. BO(b, bi) + BlkLen(b, bi) * w = Offset(fr, bi) + Room(fr, bi)
    BY <1>3, <1>4
  <1>8. ASSUME NEW bj \in DOMAIN b.blocks, b.blocks[bj].width # 0, bi < bj
        PROVE  BO(b, bi) + BlkLen(b, bi) * w <= BO(b, bj)
    <2>1. bj \in 1 .. nb /\ fr[bj].width # 0 /\ BO(b, bj) = Offset(fr, bj)
      BY <1>1, <1>8 DEF Stands
    <2>2. Offset(fr, bi) + Room(fr, bi) <= Offset(fr, bj)
      BY <1>1, <1>2, <1>3, <1>8, <2>1, BlocksApart1
    <2> QED
      BY <1>7, <2>1, <2>2
  <1> QED
    BY <1>1, <1>4, <1>5, <1>6, <1>7, <1>8
\* The sum over a block is the difference of the partial sums at its ends.
LEMMA PieceAdds ==
  ASSUME NEW s \in Seq(Int), NEW t, Adds(t, s), NEW block \in Nat \ {0},
         NEW bi \in 1 .. CeilDiv(Len(s), block), NEW q, q = Piece(s, block, bi),
         NEW tq, Adds(tq, q)
  PROVE  /\ tq[Len(q)] = t[UpTill(Len(s), block, bi)] - t[Before(block, bi)]
         /\ tq[Len(q)] \in Int /\ q \in Seq(Int)
  <1> DEFINE lo == Before(block, bi)
             up == UpTill(Len(s), block, bi)
             n  == Len(s)
             m  == Len(q)
  <1>1. /\ q \in Seq(Int) /\ m = up - lo
        /\ \A j \in 1 .. m : q[j] = s[lo + j] /\ lo + j \in 1 .. n
    <2>1. q \in Seq(Int) /\ m = up - lo
      BY PieceFacts
    <2>2. \A j \in 1 .. up - lo : q[j] = s[lo + j] /\ lo + j \in 1 .. n
      BY PieceFacts
    <2> QED
      BY <2>1, <2>2
  <1>2. n \in Nat /\ lo \in Nat /\ up \in Nat /\ lo < up /\ up <= n
    BY BlocksCover
  <1>3. t \in [0 .. n -> Int] /\ \A i \in 1 .. n : t[i] = t[i - 1] + s[i]
    BY DEF Adds
  <1>4. tq \in [0 .. m -> Int] /\ tq[0] = 0 /\ \A j \in 1 .. m : tq[j] = tq[j - 1] + q[j]
    BY DEF Adds
  <1>5. \A i \in 1 .. n : s[i] \in Int
    OBVIOUS
  <1> HIDE DEF lo, up, n, m
  <1> DEFINE S == {j \in 0 .. m : tq[j] = t[lo + j] - t[lo]}
  <1>6. m \in Nat
    BY <1>1, <1>2
  <1>7. 0 \in S
    BY <1>2, <1>3, <1>4, <1>6
  <1>8. ASSUME NEW j \in 1 .. m, j - 1 \in S PROVE j \in S
    <2>1. q[j] = s[lo + j] /\ lo + j \in 1 .. n
      BY <1>1
    <2>2. t[lo + j] = t[(lo + j) - 1] + s[lo + j]
      BY <1>3, <2>1
    <2>3. (lo + j) - 1 = lo + (j - 1) /\ (lo + j) - 1 \in 0 .. n /\ lo \in 0 .. n
          /\ lo + j \in 0 .. n /\ j - 1 \in 0 .. m /\ j \in 0 .. m
      BY <1>2, <1>6, <2>1
    <2>4. tq[j - 1] = t[lo + (j - 1)] - t[lo]
      BY <1>8
    <2>5. t[lo + j] \in Int /\ t[lo + (j - 1)] \in Int /\ t[lo] \in Int /\ s[lo + j] \in Int
      BY <1>3, <1>5, <2>1, <2>3
    <2>6. tq[j] = tq[j - 1] + q[j]
      BY <1>4
    <2>7. tq[j] = t[lo + j] - t[lo]
      BY <2>1, <2>2, <2>3, <2>4, <2>5, <2>6
    <2> QED
      BY <2>3, <2>7
  <1> HIDE DEF S
  <1>9. S = 0 .. m
    <2>1. S \in SUBSET (0 .. m)
      BY DEF S
    <2> QED
      BY <1>6, <1>7, <1>8, <2>1, UpTo
  <1>10. m \in S
    BY <1>6, <1>9
  <1>11. tq[m] = t[lo + m] - t[lo] /\ lo + m = up
    BY <1>1, <1>2, <1>10 DEF S
  <1>12. tq[m] \in Int
    BY <1>4, <1>6
  <1> QED
    BY <1>1, <1>11, <1>12 DEF lo, up, m

\* The elements of p are those of x, scaled and moved.
Linear(p, x, c, d) == Len(x) = Len(p) /\ \A j \in 1 .. Len(p) : p[j] = c + d * x[j]

\* The sum of a block from the sum of its indices.
LEMMA LinearAdds ==
  ASSUME NEW p \in Seq(Int), NEW x \in Seq(Int), NEW c \in Int, NEW d \in Int,
         Linear(p, x, c, d), NEW tp, Adds(tp, p), NEW tx, Adds(tx, x)
  PROVE  /\ tx[Len(p)] \in Int /\ tp[Len(p)] \in Int
         /\ tp[Len(p)] = c * Len(p) + d * tx[Len(p)]
  <1> DEFINE n == Len(p)
  <1>1. n \in Nat /\ \A j \in 1 .. n : x[j] \in Int /\ p[j] \in Int /\ p[j] = c + d * x[j]
    BY DEF Linear
  <1>0. Len(x) = n
    BY DEF Linear
  <1> HIDE DEF n
  <1>2. /\ tp \in [0 .. n -> Int] /\ tp[0] = 0 /\ \A j \in 1 .. n : tp[j] = tp[j - 1] + p[j]
        /\ tx \in [0 .. n -> Int] /\ tx[0] = 0 /\ \A j \in 1 .. n : tx[j] = tx[j - 1] + x[j]
    BY <1>0 DEF Adds, n
  <1> DEFINE S == {j \in 0 .. n : tp[j] = c * j + d * tx[j]}
  <1>3. 0 \in S
    <2>1. c * 0 + d * 0 = 0
      OBVIOUS
    <2> QED
      BY <1>1, <1>2, <2>1
  <1>4. ASSUME NEW j \in 1 .. n, j - 1 \in S PROVE j \in S
    <2>1. /\ tp[j - 1] = c * (j - 1) + d * tx[j - 1] /\ j - 1 \in 0 .. n /\ j \in 0 .. n
          /\ j \in Int
      BY <1>1, <1>4
    <2>2. /\ tp[j] = tp[j - 1] + p[j] /\ tx[j] = tx[j - 1] + x[j] /\ p[j] = c + d * x[j]
          /\ tx[j - 1] \in Int /\ x[j] \in Int
      BY <1>1, <1>2, <2>1
    <2> DEFINE a == tx[j - 1]
               e == x[j]
    <2>3. a \in Int /\ e \in Int
      BY <2>2
    <2>4. tp[j] = (c * (j - 1) + d * a) + (c + d * e) /\ tx[j] = a + e
      BY <2>1, <2>2
    <2> HIDE DEF a, e
    <2>5. (c * (j - 1) + d * a) + (c + d * e) = c * j + d * (a + e)
      BY <2>1, <2>3
    <2> QED
      BY <2>1, <2>4, <2>5
  <1> HIDE DEF S
  <1>5. S = 0 .. n
    <2>1. S \in SUBSET (0 .. n)
      BY DEF S
    <2> QED
      BY <1>1, <1>3, <1>4, <2>1, UpTo
  <1>6. n \in S /\ n \in 0 .. n
    BY <1>1, <1>5
  <1> QED
    BY <1>2, <1>6 DEF S, n

\* Of equal numbers, and of zeros.
LEMMA ZeroAdds ==
  ASSUME NEW x \in Seq(Int), \A j \in DOMAIN x : x[j] = 0, NEW tx, Adds(tx, x)
  PROVE  tx[Len(x)] = 0
  <1> DEFINE n == Len(x)
             S == {j \in 0 .. n : tx[j] = 0}
  <1>1. n \in Nat /\ \A j \in 1 .. n : x[j] = 0
    OBVIOUS
  <1>2. tx[0] = 0 /\ \A j \in 1 .. n : tx[j] = tx[j - 1] + x[j]
    BY DEF Adds
  <1> HIDE DEF n
  <1>3. 0 \in S
    BY <1>1, <1>2
  <1>4. ASSUME NEW j \in 1 .. n, j - 1 \in S PROVE j \in S
    <2>1. tx[j - 1] = 0 /\ j \in 0 .. n
      BY <1>1, <1>4
    <2>2. tx[j] = tx[j - 1] + x[j] /\ x[j] = 0
      BY <1>1, <1>2
    <2>3. tx[j] = 0
      BY <2>1, <2>2
    <2> QED
      BY <2>1, <2>3
  <1> HIDE DEF S
  <1>5. S = 0 .. n
    <2>1. S \in SUBSET (0 .. n)
      BY DEF S
    <2> QED
      BY <1>1, <1>3, <1>4, <2>1, UpTo
  <1>6. n \in S
    BY <1>1, <1>5
  <1> QED
    BY <1>6 DEF S, n

\* A factor may be narrowed first.
LEMMA WrapTimes ==
  ASSUME NEW x \in Int, NEW y \in Int, NEW k \in Int, Wrap(x) = Wrap(y)
  PROVE  Wrap(k * x) = Wrap(k * y)
  <1> DEFINE m == Pow(K)
             qx == x \div m
             qy == y \div m
             r == x % m
  <1>1. m \in Nat \ {0}
    BY WrapFacts
  <1>2. y % m = r
    BY DEF Wrap, Raw
  <1> HIDE DEF m
  <1>3. qx \in Int /\ x = qx * m + r /\ r \in Int
    BY <1>1, DivMod
  <1>4. qy \in Int /\ y = qy * m + r
    BY <1>1, <1>2, DivMod
  <1> HIDE DEF qx, qy, r
  <1>5. k * x = k * y + (k * (qx - qy)) * m
    <2>1. k * x = k * (qx * m) + k * r /\ k * y = k * (qy * m) + k * r
      BY <1>1, <1>3, <1>4
    <2>2. k * (qx * m) - k * (qy * m) = (k * (qx - qy)) * m
      BY <1>1, <1>3, <1>4
    <2> DEFINE u == k * (qx * m)
               v == k * (qy * m)
               z == k * r
               d == (k * (qx - qy)) * m
               kx == k * x
               ky == k * y
    <2>3. u \in Int /\ v \in Int /\ z \in Int /\ d \in Int
      BY <1>1, <1>3, <1>4
    <2>4. kx = u + z /\ ky = v + z /\ u - v = d
      BY <2>1, <2>2
    <2> HIDE DEF u, v, z, d, kx, ky
    <2>5. kx = ky + d
      BY <2>3, <2>4
    <2> QED
      BY <2>5 DEF kx, ky, d
  <1>6. \A a, e \in Int : (a + e * m) % m = a % m
    <2> SUFFICES ASSUME NEW a \in Int, NEW e \in Int PROVE (a + e * m) % m = a % m
      OBVIOUS
    <2> QED
      BY <1>1, ModPlus
  <1>7. k * y \in Int /\ k * (qx - qy) \in Int
    BY <1>3, <1>4
  <1>8. (k * x) % m = (k * y) % m
    BY <1>5, <1>6, <1>7
  <1> QED
    BY <1>8 DEF Wrap, Raw, m
\* The sums a column keeps, and the sums it works out from its indices.
LEMMA ZonesAddUp ==
  ASSUME NEW sg \in BOOLEAN, NEW vs, InMemory(vs, sg), NEW b, Represents(b, vs, sg)
  PROVE  BlockedSum(b) = SumWrapped(vs) /\ BlockedSumFast(b) = SumWrapped(vs)
  <1> DEFINE block == b.block
             fr == Blocks(vs, block)
             nb == CeilDiv(Len(vs), block)
             lo(bi) == Before(block, bi)
             up(bi) == UpTill(Len(vs), block, bi)
             walked(bi) == BB(b, bi) * BlkLen(b, bi)
               + IF b.blocks[bi].width = 0 THEN 0 ELSE BT(b, bi) * SumWrapped(View(b, bi))
             A == [bi \in DOMAIN b.blocks |-> BS(b, bi)]
             B == [bi \in DOMAIN b.blocks |-> walked(bi)]
  <1>1. block \in Nat \ {0} /\ DOMAIN b.blocks = 1 .. nb
    BY DEF Represents
  <1>2. vs \in Seq(Int) /\ Len(vs) \in Nat
    BY DEF InMemory
  <1>3. PICK t : Adds(t, vs)
    BY <1>2, AddsExist
  <1>4. nb \in Nat
    <2> HIDE DEF block
    <2> QED
      BY <1>1, <1>2, BlocksCover
  <1>5. ASSUME NEW bi \in 1 .. nb
        PROVE  /\ BS(b, bi) \in Int /\ Wrap(BS(b, bi)) = Wrap(t[up(bi)] - t[lo(bi)])
               /\ walked(bi) \in Int /\ Wrap(walked(bi)) = Wrap(t[up(bi)] - t[lo(bi)])
    <2> DEFINE f == fr[bi]
               p == Piece(vs, block, bi)
               x == View(b, bi)
               n == Len(p)
    <2>1. Stands(b, bi, fr) /\ Describes(f, p)
      BY <1>1, BlockStands
    <2>2. p \in Seq(Int) /\ n > 0 /\ n \in Nat
      <3>1. bi \in 1 .. CeilDiv(Len(vs), block)
        OBVIOUS
      <3> HIDE DEF block
      <3>2. p \in Seq(Int) /\ Len(p) > 0
        BY <1>1, <3>1, PieceDescribed
      <3> QED
        BY <3>2
    <2>3. PICK tp : Adds(tp, p)
      BY <2>2, AddsExist
    <2>4. tp[n] = t[up(bi)] - t[lo(bi)] /\ tp[n] \in Int
      <3>1. bi \in 1 .. CeilDiv(Len(vs), block)
        OBVIOUS
      <3> HIDE DEF block
      <3> QED
        BY <1>1, <1>2, <1>3, <2>3, <3>1, PieceAdds
    <2>5. SumWrapped(p) = Wrap(tp[n]) /\ SumWrapped(p) \in Word
      BY <2>2, <2>3, SumWrappedIs
    <2> HIDE DEF p, f
    <2>6. /\ BS(b, bi) = SumWrapped(p) /\ BB(b, bi) = Wrap(f.base) /\ BT(b, bi) = f.stride
          /\ BlkLen(b, bi) = n /\ b.blocks[bi].width = f.width
      BY <2>1 DEF Stands, Describes, f
    <2>7. BS(b, bi) \in Int /\ Wrap(BS(b, bi)) = Wrap(tp[n])
      BY <2>4, <2>5, <2>6, WrapFacts
    <2>8. /\ f.base \in Int /\ f.stride \in Int
          /\ \A j \in 1 .. n : /\ p[j] = f.base + f.stride * x[j] /\ x[j] \in Nat
                               /\ f.width = 0 => x[j] = 0
      <3>1. /\ f.base \in Int /\ f.stride \in Int /\ DOMAIN p = 1 .. n
            /\ \A j \in DOMAIN p : /\ f.index[j] \in Nat /\ f.index[j] <= f.span
                                   /\ p[j] = f.base + f.stride * f.index[j]
            /\ (f.width = 0 <=> f.span = 0) /\ f.span \in Nat /\ Len(f.index) = n
        BY <2>1, <2>2 DEF Describes
      <3>2. \A j \in 1 .. n : x[j] = f.index[j]
        <4>1. \A j \in 1 .. n : Delta(b, bi, j) = f.index[j]
          BY <2>1, <3>1 DEF Stands, f
        <4> QED
          BY <2>6, <4>1 DEF View
      <3> HIDE DEF x
      <3>3. ASSUME NEW j \in 1 .. n
            PROVE  /\ p[j] = f.base + f.stride * x[j] /\ x[j] \in Nat
                   /\ f.width = 0 => x[j] = 0
        <4>1. f.index[j] \in Nat /\ f.index[j] <= f.span /\ p[j] = f.base + f.stride * f.index[j]
          BY <3>1
        <4>2. x[j] = f.index[j]
          BY <3>2
        <4> QED
          BY <3>1, <4>1, <4>2
      <3> QED
        BY <3>1, <3>3
    <2>9. x \in Seq(Int) /\ Len(x) = n /\ DOMAIN x = 1 .. n
      <3>1. x = [j \in 1 .. n |-> Delta(b, bi, j)] /\ n \in Nat
        BY <2>2, <2>6 DEF View
      <3>2. \A j \in 1 .. n : Delta(b, bi, j) \in Nat
        BY <2>8, <3>1
      <3> QED
        BY <3>1, <3>2
    <2> HIDE DEF x
    <2>10. PICK tx : Adds(tx, x)
      BY <2>9, AddsExist
    <2> DEFINE c == f.base
               d == f.stride
    <2>11. tp[n] = c * n + d * tx[n] /\ tx[n] \in Int
      <3>1. c \in Int /\ d \in Int /\ Linear(p, x, c, d)
        BY <2>8, <2>9 DEF Linear
      <3> HIDE DEF c, d
      <3>5. p \in Seq(Int) /\ x \in Seq(Int) /\ Adds(tp, p) /\ Adds(tx, x)
        BY <2>2, <2>3, <2>9, <2>10
      <3>3. tx[n] \in Int
        BY <3>1, <3>5, LinearAdds
      <3>4. tp[n] = c * n + d * tx[n]
        BY <3>1, <3>5, LinearAdds
      <3> QED
        BY <3>3, <3>4
    <2>12. SumWrapped(x) = Wrap(tx[n])
      BY <2>9, <2>10, SumWrappedIs
    <2>13. f.width = 0 => tx[n] = 0
      BY <2>8, <2>9, <2>10, ZeroAdds
    <2> DEFINE y == IF f.width = 0 THEN 0 ELSE d * SumWrapped(x)
               z == tx[n]
               W == Wrap(c)
    <2>14. walked(bi) = W * n + y
      <3>1. SumWrapped(View(b, bi)) = SumWrapped(x)
        BY DEF x
      <3> HIDE DEF n
      <3> QED
        BY <2>6, <3>1
    <2>15. c \in Int /\ d \in Int /\ n \in Int /\ z \in Int /\ W \in Int /\ Wrap(W) = Wrap(c)
      <3>1. c \in Int /\ d \in Int /\ n \in Int /\ z \in Int
        BY <2>2, <2>8, <2>11
      <3>2. Wrap(c) \in Word /\ Wrap(Wrap(c)) = Wrap(c) /\ Word \subseteq Int
        <4> HIDE DEF c
        <4> QED
          BY <3>1, WrapFacts
      <3> QED
        BY <3>1, <3>2
    <2>16. y \in Int /\ Wrap(y) = Wrap(d * z)
      <3>1. CASE f.width = 0
        BY <2>13, <2>15, <3>1
      <3>2. CASE f.width # 0
        <4> DEFINE Z == SumWrapped(x)
        <4>1. Z = Wrap(z) /\ y = d * Z
          BY <2>12, <3>2
        <4> HIDE DEF c, d, z, Z, y
        <4>2. Z \in Int /\ Wrap(Z) = Wrap(z)
          BY <2>15, <4>1, WrapFacts
        <4> QED
          BY <2>15, <4>1, <4>2, WrapTimes
      <3> QED
        BY <3>1, <3>2
    <2>17. tp[n] = n * c + d * z /\ walked(bi) = n * W + y
      <3>1. c * n = n * c /\ W * n = n * W
        <4> HIDE DEF c, n, W
        <4> QED
          BY <2>15
      <3> QED
        BY <2>11, <2>14, <3>1
    <2> HIDE DEF c, d, n, y, z, W
    <2>18. Wrap(n * W) = Wrap(n * c) /\ n * W \in Int /\ n * c \in Int /\ d * z \in Int
      BY <2>15, WrapTimes
    <2>19. Wrap(n * W + y) = Wrap(n * c + d * z) /\ n * W + y \in Int
      <3> DEFINE a1 == n * W
                 a2 == n * c
                 a3 == d * z
      <3>1. a1 \in Int /\ a2 \in Int /\ a3 \in Int /\ y \in Int /\ Wrap(a1) = Wrap(a2)
            /\ Wrap(y) = Wrap(a3)
        BY <2>16, <2>18
      <3> HIDE DEF a1, a2, a3
      <3>2. Wrap(a1 + y) = Wrap(a2 + a3) /\ a1 + y \in Int
        BY <3>1, WrapPlus
      <3> QED
        BY <3>2 DEF a1, a2, a3
    <2> HIDE DEF walked
    <2> QED
      BY <2>4, <2>7, <2>17, <2>19
  <1> HIDE DEF walked
  <1>6. /\ A \in Seq(Int) /\ Len(A) = nb /\ \A bi \in 1 .. nb : A[bi] = BS(b, bi)
        /\ B \in Seq(Int) /\ Len(B) = nb /\ \A bi \in 1 .. nb : B[bi] = walked(bi)
    <2>1. A = [bi \in 1 .. nb |-> BS(b, bi)] /\ B = [bi \in 1 .. nb |-> walked(bi)]
      BY <1>1
    <2>2. \A bi \in 1 .. nb : BS(b, bi) \in Int /\ walked(bi) \in Int
      BY <1>5
    <2> HIDE DEF A, B, nb
    <2>3. A \in Seq(Int) /\ Len(A) = nb /\ \A bi \in 1 .. nb : A[bi] = BS(b, bi)
      BY <1>4, <2>1, <2>2
    <2>4. B \in Seq(Int) /\ Len(B) = nb /\ \A bi \in 1 .. nb : B[bi] = walked(bi)
      BY <1>4, <2>1, <2>2
    <2> QED
      BY <2>3, <2>4
  <1>7. BlockedSum(b) = SumWrapped(A) /\ BlockedSumFast(b) = SumWrapped(B)
    BY DEF BlockedSum, BlockedSumFast, walked
  <1> HIDE DEF A, B
  <1>8. \A bi \in 1 .. nb : Wrap(A[bi]) = Wrap(t[up(bi)] - t[lo(bi)])
                            /\ Wrap(B[bi]) = Wrap(t[up(bi)] - t[lo(bi)])
    BY <1>5, <1>6
  <1>12. Blockwise(A, t, Len(vs), block)
    BY <1>6, <1>8 DEF Blockwise
  <1>13. Blockwise(B, t, Len(vs), block)
    BY <1>6, <1>8 DEF Blockwise
  <1> HIDE DEF block, nb
  <1>10. SumWrapped(A) = SumWrapped(vs)
    BY <1>1, <1>2, <1>3, <1>12, BlocksAddUp
  <1>11. SumWrapped(B) = SumWrapped(vs)
    BY <1>1, <1>2, <1>3, <1>13, BlocksAddUp
  <1> QED
    BY <1>7, <1>10, <1>11
\* The extremes of an array of uint64_t, from the bases and spans of the blocks.
LEMMA ZoneExtremes ==
  ASSUME NEW vs, InMemory(vs, FALSE), vs # <<>>, NEW b, Represents(b, vs, FALSE)
  PROVE  BlockedMax(b) = Greatest(vs) /\ BlockedMin(b) = Least(vs)
  <1> DEFINE block == b.block
             n  == Len(vs)
             nb == CeilDiv(n, block)
             A == [bi \in DOMAIN b.blocks |-> Top(b, bi)]
             B == [bi \in DOMAIN b.blocks |-> BB(b, bi)]
  <1>1. block \in Nat \ {0} /\ DOMAIN b.blocks = 1 .. nb /\ b.count = n
    BY DEF Represents
  <1>2. vs \in Seq(Int) /\ n \in Nat /\ n > 0 /\ DOMAIN vs = 1 .. n
    BY DEF InMemory
  <1>3. nb \in Nat /\ nb > 0
    <2> HIDE DEF block, n
    <2> QED
      BY <1>1, <1>2, BlocksCover
  <1>4. ASSUME NEW bi \in 1 .. nb
        PROVE  /\ \E i \in 1 .. n : Top(b, bi) = vs[i]
               /\ \E i \in 1 .. n : BB(b, bi) = vs[i]
               /\ \A j \in 1 .. UpTill(n, block, bi) - Before(block, bi) :
                    /\ BB(b, bi) <= vs[Before(block, bi) + j]
                    /\ vs[Before(block, bi) + j] <= Top(b, bi)
    <2> DEFINE f == Blocks(vs, block)[bi]
               p == Piece(vs, block, bi)
    <2>1. Stands(b, bi, Blocks(vs, block)) /\ Describes(f, p)
      BY <1>1, BlockStands
    <2>2. /\ p \in Seq(Int) /\ Len(p) = UpTill(n, block, bi) - Before(block, bi)
          /\ Len(p) > 0 /\ DOMAIN p = 1 .. Len(p)
          /\ \A j \in 1 .. Len(p) : /\ p[j] = vs[Before(block, bi) + j]
                                    /\ Before(block, bi) + j \in 1 .. n /\ p[j] \in Word
      <3>1. bi \in 1 .. CeilDiv(n, block)
        OBVIOUS
      <3> HIDE DEF block
      <3>2. /\ p \in Seq(Int) /\ Len(p) = UpTill(n, block, bi) - Before(block, bi)
            /\ Len(p) > 0 /\ DOMAIN p = 1 .. Len(p)
            /\ \A j \in 1 .. Len(p) : /\ p[j] = vs[Before(block, bi) + j]
                                      /\ Before(block, bi) + j \in 1 .. n
        BY <1>1, <1>2, <3>1, PieceFacts
      <3>3. \A i \in 1 .. n : vs[i] \in Word
        BY <1>2 DEF InMemory
      <3> HIDE DEF p, n
      <3> QED
        BY <3>2, <3>3
    <2> HIDE DEF p, f
    <2>3. /\ f.base \in Int /\ f.base = Least(p) /\ f.base + f.stride * f.span = Greatest(p)
          /\ f.stride \in Nat /\ f.span \in Nat
          /\ BB(b, bi) = Wrap(f.base) /\ BT(b, bi) = f.stride /\ BP(b, bi) = f.span
      BY <2>1 DEF Stands, Describes, f
    <2>4. /\ \E i \in DOMAIN p : Greatest(p) = p[i]
          /\ \E i \in DOMAIN p : Least(p) = p[i]
          /\ \A j \in DOMAIN p : Least(p) <= p[j] /\ p[j] <= Greatest(p)
      BY <2>2, Extremes
    <2>5. Least(p) \in Word /\ Greatest(p) \in Word
      BY <2>2, <2>4
    <2>6. BB(b, bi) = Least(p)
      BY <2>3, <2>5, WrapFacts
    <2>7. Top(b, bi) = Greatest(p)
      <3>1. Top(b, bi) = Wrap(f.base + f.stride * f.span)
        BY <2>3, <2>6 DEF Top
      <3> QED
        BY <2>3, <2>5, <3>1, WrapFacts
    <2>8. \E i \in 1 .. n : Top(b, bi) = vs[i]
      BY <2>2, <2>4, <2>7
    <2>9. \E i \in 1 .. n : BB(b, bi) = vs[i]
      BY <2>2, <2>4, <2>6
    <2>10. \A j \in 1 .. UpTill(n, block, bi) - Before(block, bi) :
             /\ BB(b, bi) <= vs[Before(block, bi) + j]
             /\ vs[Before(block, bi) + j] <= Top(b, bi)
      BY <2>2, <2>4, <2>6, <2>7
    <2> QED
      BY <2>8, <2>9, <2>10
  <1>5. ASSUME NEW i \in 1 .. n
        PROVE  \E bi \in 1 .. nb : BB(b, bi) <= vs[i] /\ vs[i] <= Top(b, bi)
    <2> DEFINE bi == (i - 1) \div block + 1
               j  == ((i - 1) % block) + 1
    <2>1. /\ bi \in 1 .. nb /\ i = Before(block, bi) + j
          /\ j \in 1 .. block /\ j <= UpTill(n, block, bi) - Before(block, bi)
      <3>1. n \in Nat /\ block \in Nat \ {0} /\ i \in 1 .. n
        BY <1>1, <1>2
      <3> HIDE DEF block, n
      <3>2. bi \in 1 .. nb /\ j \in 1 .. block
        <4>1. bi = (i - 1) \div block + 1 /\ j = ((i - 1) % block) + 1
          OBVIOUS
        <4> HIDE DEF bi, j
        <4>2. bi \in 1 .. CeilDiv(n, block)
          BY <3>1, <4>1, PlaceOf
        <4>3. j \in 1 .. block
          BY <3>1, <4>1, PlaceOf
        <4> QED
          BY <4>2, <4>3
      <3>3. i = Before(block, bi) + j
        BY <3>1, PlaceOf
      <3>4. j <= UpTill(n, block, bi) - Before(block, bi)
        BY <3>1, PlaceOf
      <3> QED
        BY <3>2, <3>3, <3>4
    <2>2. UpTill(n, block, bi) \in Nat /\ Before(block, bi) \in Nat
      <3> HIDE DEF bi, block, n
      <3> QED
        BY <1>1, <1>2, <2>1, BlocksCover
    <2> HIDE DEF bi, j, nb, block, n
    <2>3. j \in 1 .. UpTill(n, block, bi) - Before(block, bi)
      BY <1>1, <2>1, <2>2
    <2> QED
      BY <1>4, <2>1, <2>3
  <1> HIDE DEF nb
  <1>6. \A i \in 1 .. n : vs[i] \in Int
    BY <1>2
  <1>7. /\ A \in Seq(Int) /\ DOMAIN A = 1 .. nb /\ Len(A) = nb
        /\ B \in Seq(Int) /\ DOMAIN B = 1 .. nb /\ Len(B) = nb
        /\ \A bi \in 1 .. nb : A[bi] = Top(b, bi) /\ B[bi] = BB(b, bi)
    <2>1. A = [bi \in 1 .. nb |-> Top(b, bi)] /\ B = [bi \in 1 .. nb |-> BB(b, bi)]
      BY <1>1
    <2>2. \A bi \in 1 .. nb : Top(b, bi) \in Int /\ BB(b, bi) \in Int
      BY <1>4, <1>6
    <2> HIDE DEF A, B
    <2> QED
      BY <1>3, <2>1, <2>2
  <1>8. BlockedMax(b) = Greatest(A) /\ BlockedMin(b) = Least(B)
    BY <1>1, <1>2 DEF BlockedMax, BlockedMin
  <1> HIDE DEF A, B, block
  <1>9. /\ \E bi \in 1 .. nb : Greatest(A) = A[bi]
        /\ \A bi \in 1 .. nb : A[bi] <= Greatest(A) /\ A[bi] \in Int
        /\ \E bi \in 1 .. nb : Least(B) = B[bi]
        /\ \A bi \in 1 .. nb : Least(B) <= B[bi] /\ B[bi] \in Int
    <2>1. Len(A) > 0 /\ Len(B) > 0 /\ A \in Seq(Int) /\ B \in Seq(Int)
      BY <1>3, <1>7
    <2>2. /\ \E bi \in DOMAIN A : Greatest(A) = A[bi]
          /\ \A bi \in DOMAIN A : A[bi] <= Greatest(A)
      BY <2>1, Extremes
    <2>3. /\ \E bi \in DOMAIN B : Least(B) = B[bi]
          /\ \A bi \in DOMAIN B : Least(B) <= B[bi]
      BY <2>1, Extremes
    <2>4. \A bi \in 1 .. nb : A[bi] \in Int /\ B[bi] \in Int
      BY <1>7
    <2> QED
      BY <1>7, <2>2, <2>3, <2>4
  <1>10. Greatest(A) = Greatest(vs)
    <2>1. PICK k \in 1 .. nb : Greatest(A) = A[k]
      BY <1>9
    <2>2. PICK i \in 1 .. n : A[k] = vs[i]
      BY <1>4, <1>7
    <2>3. \A j \in 1 .. n : vs[j] <= vs[i]
      <3> SUFFICES ASSUME NEW j \in 1 .. n PROVE vs[j] <= vs[i]
        OBVIOUS
      <3>1. PICK l \in 1 .. nb : vs[j] <= Top(b, l)
        BY <1>5
      <3>2. Top(b, l) = A[l] /\ A[l] <= vs[i] /\ A[l] \in Int
        BY <1>7, <1>9, <2>1, <2>2
      <3> QED
        BY <1>6, <3>1, <3>2
    <2>4. Greatest(vs) = vs[i]
      BY <1>2, <2>3, GreatestIs
    <2> QED
      BY <2>1, <2>2, <2>4
  <1>11. Least(B) = Least(vs)
    <2>1. PICK k \in 1 .. nb : Least(B) = B[k]
      BY <1>9
    <2>2. PICK i \in 1 .. n : B[k] = vs[i]
      BY <1>4, <1>7
    <2>3. \A j \in 1 .. n : vs[i] <= vs[j]
      <3> SUFFICES ASSUME NEW j \in 1 .. n PROVE vs[i] <= vs[j]
        OBVIOUS
      <3>1. PICK l \in 1 .. nb : BB(b, l) <= vs[j]
        BY <1>5
      <3>2. BB(b, l) = B[l] /\ vs[i] <= B[l] /\ B[l] \in Int
        BY <1>7, <1>9, <2>1, <2>2
      <3> QED
        BY <1>6, <3>1, <3>2
    <2>4. Least(vs) = vs[i]
      BY <1>2, <2>3, LeastIs
    <2> QED
      BY <2>1, <2>2, <2>4
  <1> QED
    BY <1>8, <1>10, <1>11
-----------------------------------------------------------------------------
(* What a window of values is among the indices of a block.               *)

\* What a quotient is not below.
LEMMA QuotientBounds ==
  ASSUME NEW y \in Int, NEW st \in Nat \ {0}, NEW k \in Int
  PROVE  (y \div st) \in Int /\ (k <= (y \div st) <=> st * k <= y)
  <1> DEFINE q == y \div st
             r == y % st
  <1>1. q \in Int /\ r \in Int /\ 0 <= r /\ r < st /\ y = q * st + r
    BY DivMod, ModRange
  <1> HIDE DEF q, r
  <1>2. st * k \in Int /\ q * st \in Int /\ st * q = q * st
    BY <1>1
  <1>3. k <= q => st * k <= y
    <2> SUFFICES ASSUME k <= q PROVE st * k <= y
      OBVIOUS
    <2>1. st * k <= st * q
      BY <1>1, FactorGrows
    <2> QED
      BY <1>1, <1>2, <2>1
  <1>4. st * k <= y => k <= q
    <2> SUFFICES ASSUME q + 1 <= k PROVE ~(st * k <= y)
      BY <1>1
    <2>1. q + 1 \in Int /\ st * (q + 1) = q * st + st
      BY <1>1
    <2>2. st * (q + 1) <= st * k
      BY ONLY <1>1, <2>1, st \in Nat \ {0}, k \in Int, q + 1 <= k, FactorGrows
    <2> DEFINE e == q * st
               g == st * k
               h == st * (q + 1)
    <2>3. e \in Int /\ g \in Int /\ h = e + st /\ h <= g /\ y = e + r
      BY <1>1, <1>2, <2>1, <2>2
    <2> HIDE DEF e, g, h
    <2>4. y < g
      BY <1>1, <2>3
    <2> QED
      BY <2>3, <2>4 DEF g
  <1> QED
    BY <1>1, <1>3, <1>4 DEF q

\* The first index of a window, while its rounding up does not wrap.
LEMMA FirstIndexBounds ==
  ASSUME NEW x \in Nat, NEW st \in Nat \ {0}, x + st - 1 < Pow(K), NEW k \in Nat
  PROVE  FirstIndex(x, st) \in Int /\ (FirstIndex(x, st) <= k <=> x <= st * k)
  <1>1. CASE st = 1
    <2>1. FirstIndex(x, st) = x /\ st * k = k
      BY <1>1 DEF FirstIndex
    <2> QED
      BY <2>1
  <1>2. CASE st > 1
    <2> DEFINE y == x + st - 1
               g == st * k
               q == y \div st
    <2>1. y \in Int /\ y \in Nat /\ y < Pow(K) /\ g \in Int
      BY <1>2
    <2>2. Wrap(y) = y
      <3>1. Pow(K) \in Nat \ {0}
        BY WrapFacts
      <3> HIDE DEF y
      <3>2. y \in Word
        BY <2>1, <3>1 DEF Word
      <3> QED
        BY <3>2, WrapFacts
    <2>3. FirstIndex(x, st) = q
      BY <1>2, <2>2 DEF FirstIndex
    <2>4. q \in Int /\ (k + 1 <= q <=> st * (k + 1) <= y)
      <3> HIDE DEF y
      <3> QED
        BY <2>1, QuotientBounds
    <2>5. st * (k + 1) = g + st
      OBVIOUS
    <2> HIDE DEF g, q
    <2>6. k + 1 <= q <=> g + st <= y
      BY <2>4, <2>5
    <2>7. q <= k <=> y < g + st
      BY <2>1, <2>4, <2>6
    <2> QED
      BY <2>1, <2>3, <2>4, <2>7 DEF g
  <1> QED
    BY <1>1, <1>2

\* A block seen as words: what its piece of the array is when every value is moved by d.
Seen(b, bi, p, d) ==
  /\ d \in Int /\ p \in Seq(Int) /\ Len(p) > 0 /\ DOMAIN p = 1 .. Len(p)
  /\ BB(b, bi) \in Nat /\ BT(b, bi) \in Nat \ {0} /\ BP(b, bi) \in Nat
  /\ BB(b, bi) + BT(b, bi) * BP(b, bi) < Pow(K)
  /\ BlkLen(b, bi) = Len(p)
  /\ (b.blocks[bi].width = 0 <=> BP(b, bi) = 0)
  /\ \A j \in 1 .. Len(p) : /\ Delta(b, bi, j) \in Nat /\ Delta(b, bi, j) <= BP(b, bi)
                            /\ p[j] + d = BB(b, bi) + BT(b, bi) * Delta(b, bi, j)
                            /\ p[j] + d \in Nat

\* The window of indices holds the indices of the values in the window.
LEMMA SeenWindow ==
  ASSUME NEW b, NEW bi, NEW p, NEW d, Seen(b, bi, p, d),
         NEW lo \in Word, NEW hi \in Word, lo <= hi, RoundsUp(BB(b, bi), BT(b, bi), lo),
         NEW w, w = BlkWindow(b, bi, lo, hi)
  PROVE  /\ ~w.some => \A j \in 1 .. Len(p) : ~(lo <= p[j] + d /\ p[j] + d <= hi)
         /\ w.some /\ w.whole => \A j \in 1 .. Len(p) : lo <= p[j] + d /\ p[j] + d <= hi
         /\ w.some /\ ~w.whole =>
              /\ b.blocks[bi].width # 0
              /\ \A j \in 1 .. Len(p) : (lo <= p[j] + d /\ p[j] + d <= hi)
                   <=> (w.ilo <= Delta(b, bi, j) /\ Delta(b, bi, j) <= w.ihi)
  <1> DEFINE base == BB(b, bi)
             st == BT(b, bi)
             sp == BP(b, bi)
             top == st * sp
             vmax == Top(b, bi)
             ilo == IF lo <= base THEN 0 ELSE FirstIndex(lo - base, st)
             far == IF hi >= vmax THEN Wrap(st * sp) ELSE Wrap(hi - base)
             ihi == far \div st
  <1>1. base \in Nat /\ st \in Nat \ {0} /\ sp \in Nat /\ top \in Nat /\ base + top < Pow(K)
    BY DEF Seen
  <1>2. lo \in Nat /\ hi \in Nat /\ lo < Pow(K) /\ hi < Pow(K) /\ Pow(K) \in Nat \ {0, 1}
    BY WrapFacts
  <1>3. \A x \in Nat : x < Pow(K) => Wrap(x) = x
    <2> SUFFICES ASSUME NEW x \in Nat, x < Pow(K) PROVE Wrap(x) = x
      OBVIOUS
    <2>1. x \in Word
      BY <1>2 DEF Word
    <2> QED
      BY <2>1, WrapFacts
  <1>4. vmax = base + top
    <2>1. vmax = Wrap(base + top)
      BY DEF Top
    <2> HIDE DEF base, top, vmax
    <2> QED
      BY <1>1, <1>3, <2>1
  <1>5. w = IF hi < base \/ lo > vmax THEN [some |-> FALSE, whole |-> FALSE, ilo |-> 0, ihi |-> 0]
            ELSE IF lo <= base /\ hi >= vmax
            THEN [some |-> TRUE, whole |-> TRUE, ilo |-> 0, ihi |-> 0]
            ELSE [some |-> ilo <= ihi, whole |-> FALSE, ilo |-> ilo, ihi |-> ihi]
    BY DEF BlkWindow
  <1>6. ASSUME NEW j \in 1 .. Len(p)
        PROVE  /\ Delta(b, bi, j) \in Nat /\ p[j] + d \in Nat
               /\ p[j] + d = base + st * Delta(b, bi, j)
               /\ base <= p[j] + d /\ p[j] + d <= vmax
    <2> DEFINE x == Delta(b, bi, j)
               v == p[j] + d
               g == st * x
    <2>1. x \in Nat /\ x <= sp /\ v = base + g /\ v \in Nat
      BY DEF Seen
    <2>2. g \in Int /\ g <= top /\ 0 <= g
      <3> HIDE DEF x, st, sp
      <3>1. st * x <= st * sp
        BY <1>1, <2>1, FactorGrows
      <3> QED
        BY <1>1, <2>1, <3>1
    <2> HIDE DEF x, v, g, base, top, vmax, st
    <2>3. base <= v /\ v <= vmax
      BY <1>1, <1>4, <2>1, <2>2
    <2> QED
      BY <2>1, <2>3 DEF v, x, g
  <1>7. CASE hi < base \/ lo > vmax
    <2>1. w.some = FALSE /\ w.whole = FALSE
      BY <1>5, <1>7
    <2>2. ASSUME NEW j \in 1 .. Len(p) PROVE ~(lo <= p[j] + d /\ p[j] + d <= hi)
      <3> DEFINE v == p[j] + d
      <3>1. v \in Nat /\ base <= v /\ v <= vmax
        BY <1>6
      <3> HIDE DEF v, base, vmax, top
      <3>2. ~(lo <= v /\ v <= hi)
        BY <1>1, <1>2, <1>4, <1>7, <3>1
      <3> QED
        BY <3>2 DEF v
    <2> QED
      BY <2>1, <2>2
  <1>8. CASE ~(hi < base \/ lo > vmax) /\ (lo <= base /\ hi >= vmax)
    <2>1. w.some = TRUE /\ w.whole = TRUE
      BY <1>5, <1>8
    <2>2. ASSUME NEW j \in 1 .. Len(p) PROVE lo <= p[j] + d /\ p[j] + d <= hi
      <3> DEFINE v == p[j] + d
      <3>1. v \in Nat /\ base <= v /\ v <= vmax
        BY <1>6
      <3> HIDE DEF v, base, vmax, top
      <3>2. lo <= v /\ v <= hi
        BY <1>1, <1>2, <1>4, <1>8, <3>1
      <3> QED
        BY <3>2 DEF v
    <2> QED
      BY <2>1, <2>2
  <1>9. CASE ~(hi < base \/ lo > vmax) /\ ~(lo <= base /\ hi >= vmax)
    <2>1. w.some = (ilo <= ihi) /\ w.whole = FALSE /\ w.ilo = ilo /\ w.ihi = ihi
      <3> DEFINE nonempty == ilo <= ihi
                 r == [some |-> nonempty, whole |-> FALSE, ilo |-> ilo, ihi |-> ihi]
      <3> HIDE DEF ilo, ihi, base, vmax
      <3>1. w = r
        BY ONLY <1>5, <1>9
      <3> HIDE DEF nonempty
      <3>2. r.some = nonempty /\ r.whole = FALSE /\ r.ilo = ilo /\ r.ihi = ihi
        OBVIOUS
      <3> QED
        BY <3>1, <3>2 DEF nonempty
    <2>2. sp # 0
      <3> SUFFICES ASSUME sp = 0 PROVE FALSE
        OBVIOUS
      <3>1. top = 0
        BY <1>1
      <3> HIDE DEF base, vmax, top
      <3> QED
        BY <1>1, <1>2, <1>4, <1>9, <3>1
    <2>3. b.blocks[bi].width # 0
      BY <2>2 DEF Seen
    <2>4. ASSUME NEW j \in 1 .. Len(p)
          PROVE  (ilo <= Delta(b, bi, j) <=> lo <= p[j] + d) /\ ilo \in Int
      <3> DEFINE x == Delta(b, bi, j)
                 v == p[j] + d
                 g == st * x
      <3>1. x \in Nat /\ v \in Nat /\ v = base + g /\ base <= v
        BY <1>6
      <3>2. g \in Nat
        BY <1>1, <3>1
      <3>3. CASE lo <= base
        <4>1. ilo = 0
          BY <3>3
        <4> HIDE DEF x, v, base
        <4>2. lo <= v /\ 0 <= x
          BY <1>1, <1>2, <3>1, <3>3
        <4> QED
          BY <4>1, <4>2 DEF x, v
      <3>4. CASE lo > base
        <4> DEFINE y == lo - base
        <4>1. y \in Nat /\ ilo = FirstIndex(y, st) /\ y + st - 1 < Pow(K)
          <5>1. ilo = FirstIndex(y, st)
            BY <1>1, <1>2, <3>4
          <5>2. y + st - 1 < Pow(K)
            BY <1>1, <1>2, <3>4 DEF RoundsUp
          <5>3. y \in Nat
            <6> HIDE DEF base
            <6> QED
              BY <1>1, <1>2, <3>4
          <5> QED
            BY <5>1, <5>2, <5>3
        <4> HIDE DEF y, ilo, x, st
        <4>2. ilo \in Int /\ (ilo <= x <=> y <= st * x)
          BY <1>1, <3>1, <4>1, FirstIndexBounds
        <4>3. ilo <= x <=> y <= g
          BY <4>2
        <4> HIDE DEF g, v, base
        <4>4. y <= g <=> lo <= v
          BY <1>1, <1>2, <3>1, <3>2 DEF y
        <4> QED
          BY <4>2, <4>3, <4>4 DEF x, v
      <3> HIDE DEF base
      <3> QED
        BY <1>1, <1>2, <3>3, <3>4
    <2>5. ASSUME NEW j \in 1 .. Len(p)
          PROVE  (Delta(b, bi, j) <= ihi <=> p[j] + d <= hi) /\ ihi \in Int
      <3> DEFINE x == Delta(b, bi, j)
                 v == p[j] + d
                 g == st * x
      <3>1. x \in Nat /\ v \in Nat /\ v = base + g /\ base <= v /\ v <= vmax
        BY <1>6
      <3>2. g \in Nat
        BY <1>1, <3>1
      <3>3. far \in Int /\ (g <= far <=> v <= hi)
        <4>1. CASE hi >= vmax
          <5>1. far = top
            <6>1. top \in Nat /\ top < Pow(K) /\ far = Wrap(top)
              <7>1. far = Wrap(top)
                BY <4>1
              <7> HIDE DEF top, base, far
              <7> QED
                BY <1>1, <1>2, <7>1
            <6> HIDE DEF top, far
            <6> QED
              BY <1>3, <6>1
          <5> HIDE DEF far, top, base, v, g, vmax
          <5> QED
            BY <1>1, <1>2, <1>4, <3>1, <3>2, <4>1, <5>1
        <4>2. CASE ~(hi >= vmax)
          <5> DEFINE z == hi - base
          <5>1. far = Wrap(z)
            BY <4>2
          <5>2. z \in Nat /\ z < Pow(K)
            <6> HIDE DEF base, vmax
            <6> QED
              BY <1>1, <1>2, <1>9
          <5>3. far = z
            <6> HIDE DEF z, far
            <6> QED
              BY <1>3, <5>1, <5>2
          <5> HIDE DEF far, top, base, v, g, vmax
          <5> QED
            BY <1>1, <1>2, <3>1, <3>2, <5>2, <5>3
        <4> QED
          BY <4>1, <4>2
      <3> HIDE DEF far, x, st
      <3>5. st \in Nat \ {0} /\ far \in Int /\ x \in Int
        BY <1>1, <3>1, <3>3
      <3>4. (far \div st) \in Int /\ (x <= (far \div st) <=> st * x <= far)
        BY ONLY <3>5, QuotientBounds
      <3> QED
        BY <3>3, <3>4 DEF x, v
    <2> HIDE DEF ilo, ihi
    <2>6. \A j \in 1 .. Len(p) : (lo <= p[j] + d /\ p[j] + d <= hi)
            <=> (ilo <= Delta(b, bi, j) /\ Delta(b, bi, j) <= ihi)
      BY <2>4, <2>5
    <2>7. ~(ilo <= ihi) => \A j \in 1 .. Len(p) : ~(lo <= p[j] + d /\ p[j] + d <= hi)
      <3> SUFFICES ASSUME ~(ilo <= ihi), NEW j \in 1 .. Len(p)
                   PROVE  ~(lo <= p[j] + d /\ p[j] + d <= hi)
        OBVIOUS
      <3> DEFINE x == Delta(b, bi, j)
      <3>1. x \in Nat /\ ilo \in Int /\ ihi \in Int
        BY <1>6, <2>4, <2>5
      <3> HIDE DEF x
      <3>2. ~(ilo <= x /\ x <= ihi)
        BY <3>1
      <3> QED
        BY <2>6, <3>2 DEF x
    <2> QED
      BY <2>1, <2>3, <2>6, <2>7
  <1> QED
    BY <1>7, <1>8, <1>9

\* Every value of the array, moved by d, is a word: by nothing, or by a turn of the word.
Turned(vs, d) == d \in {0, Pow(K)} /\ \A i \in DOMAIN vs : vs[i] + d \in Word

\* The blocks of a column are seen as words.
LEMMA BlockSeen ==
  ASSUME NEW sg \in BOOLEAN, NEW vs, InMemory(vs, sg), NEW b, Represents(b, vs, sg),
         NEW d, Turned(vs, d), NEW bi \in DOMAIN b.blocks, NEW p, p = Piece(vs, b.block, bi)
  PROVE  Seen(b, bi, p, d) /\ BS(b, bi) = SumWrapped(p) /\ b.blocks[bi].sorted = Ordered(p)
  <1> DEFINE block == b.block
             f == Blocks(vs, block)[bi]
  <1>1. Stands(b, bi, Blocks(vs, block)) /\ Describes(f, p)
    BY BlockStands
  <1>2. block \in Nat \ {0} /\ bi \in 1 .. CeilDiv(Len(vs), block) /\ p = Piece(vs, block, bi)
    BY BlockStands
  <1>3. /\ p \in Seq(Int) /\ Len(p) > 0 /\ DOMAIN p = 1 .. Len(p)
        /\ \A j \in 1 .. Len(p) : /\ p[j] = vs[Before(block, bi) + j]
                                  /\ Before(block, bi) + j \in 1 .. Len(vs)
    <2> HIDE DEF block
    <2> QED
      BY ONLY sg \in BOOLEAN, InMemory(vs, sg), <1>2, PieceDescribed
  <1>4. d \in Int /\ Pow(K) \in Nat \ {0, 1}
    BY WrapFacts DEF Turned
  <1>5. \A j \in 1 .. Len(p) : p[j] + d \in Word /\ p[j] \in Int
    <2>1. \A i \in 1 .. Len(vs) : vs[i] + d \in Word
      BY DEF Turned, InMemory
    <2> HIDE DEF block
    <2> QED
      BY <1>3, <2>1
  <1> HIDE DEF block, f
  <1>6. /\ b.blocks[bi].width = f.width /\ b.blocks[bi].sorted = f.sorted
        /\ BB(b, bi) = Wrap(f.base) /\ BT(b, bi) = f.stride
        /\ BP(b, bi) = f.span /\ BS(b, bi) = f.sum
        /\ BlkLen(b, bi) = Len(f.index)
        /\ \A j \in 1 .. Len(f.index) : Delta(b, bi, j) = f.index[j]
    BY <1>1 DEF Stands, f
  <1>7. /\ f.base \in Int /\ f.stride \in Nat \ {0} /\ f.span \in Nat /\ Len(f.index) = Len(p)
        /\ \A j \in 1 .. Len(p) : /\ f.index[j] \in Nat /\ f.index[j] <= f.span
                                  /\ p[j] = f.base + f.stride * f.index[j]
        /\ f.base = Least(p) /\ f.base + f.stride * f.span = Greatest(p)
        /\ f.sum = SumWrapped(p) /\ f.sorted = Ordered(p)
        /\ (f.width = 0 <=> f.span = 0)
    BY <1>1, <1>3 DEF Describes
  <1>8. \A x \in Int : x + d \in Word => Wrap(x) = x + d
    <2> SUFFICES ASSUME NEW x \in Int, x + d \in Word PROVE Wrap(x) = x + d
      OBVIOUS
    <2>1. Wrap(x + d) = x + d
      BY WrapFacts
    <2>2. Wrap(x + d) = Wrap(x)
      <3>1. CASE d = 0
        BY <3>1
      <3>2. CASE d = Pow(K)
        <4> DEFINE m == Pow(K)
        <4>1. m \in Nat \ {0} /\ d = 1 * m
          BY <1>4, <3>2
        <4> HIDE DEF m
        <4>2. \A k \in Int : (x + k * m) % m = x % m
          <5> SUFFICES ASSUME NEW k \in Int PROVE (x + k * m) % m = x % m
            OBVIOUS
          <5> QED
            BY ONLY <4>1, x \in Int, k \in Int, ModPlus
        <4>3. (x + 1 * m) % m = x % m
          BY ONLY <4>2, 1 \in Int
        <4> QED
          BY <4>1, <4>3 DEF Wrap, Raw, m
      <3> QED
        BY <3>1, <3>2 DEF Turned
    <2> QED
      BY <2>1, <2>2
  <1>9. PICK lowest \in DOMAIN p : Least(p) = p[lowest]
    BY <1>3, Extremes
  <1>10. PICK highest \in DOMAIN p : Greatest(p) = p[highest]
    BY <1>3, Extremes
  <1>11. BB(b, bi) = f.base + d /\ BB(b, bi) \in Nat
    <2>1. f.base = p[lowest] /\ p[lowest] + d \in Word
      BY <1>3, <1>5, <1>7, <1>9
    <2>2. BB(b, bi) = f.base + d
      BY <1>6, <1>7, <1>8, <2>1
    <2> QED
      BY <2>1, <2>2, WrapFacts
  <1>12. BB(b, bi) + BT(b, bi) * BP(b, bi) < Pow(K)
    <2> DEFINE g == f.stride * f.span
               e == f.base
               h == p[highest]
    <2>1. e + g = h /\ g \in Int /\ e \in Int /\ h \in Int
      BY SMTT(60), <1>3, <1>5, <1>7, <1>10
    <2>2. h + d < Pow(K) /\ h + d \in Int
      BY SMTT(60), <1>3, <1>5, WrapFacts
    <2>3. BB(b, bi) + BT(b, bi) * BP(b, bi) = (e + d) + g
      BY <1>6, <1>11
    <2> HIDE DEF e, g, h
    <2>4. (e + d) + g = h + d
      BY <1>4, <2>1
    <2> QED
      BY <2>2, <2>3, <2>4
  <1>13. ASSUME NEW j \in 1 .. Len(p)
         PROVE  /\ Delta(b, bi, j) \in Nat /\ Delta(b, bi, j) <= BP(b, bi)
                /\ p[j] + d = BB(b, bi) + BT(b, bi) * Delta(b, bi, j)
                /\ p[j] + d \in Nat
    <2> DEFINE x == f.index[j]
               g == f.stride * x
               e == f.base
    <2>1. Delta(b, bi, j) = x /\ x \in Nat /\ x <= f.span /\ p[j] = e + g /\ e \in Int
      BY <1>6, <1>7
    <2>2. g \in Int
      BY <1>7, <2>1
    <2>3. BB(b, bi) + BT(b, bi) * Delta(b, bi, j) = (e + d) + g
      BY <1>6, <1>11, <2>1
    <2>4. p[j] + d \in Nat
      BY <1>5, WrapFacts
    <2> HIDE DEF g, e, x
    <2>5. (e + d) + g = (e + g) + d
      BY <1>4, <2>1, <2>2
    <2> QED
      BY <1>6, <2>1, <2>3, <2>4, <2>5
  <1>14. Seen(b, bi, p, d)
    BY <1>3, <1>4, <1>6, <1>7, <1>11, <1>12, <1>13 DEF Seen
  <1> QED
    BY <1>6, <1>7, <1>14

\* B[bi] is how many elements of block bi are in G.
CountedBy(B, G, n, block) ==
  \A bi \in 1 .. CeilDiv(n, block) : B[bi] =
    Cardinality({j \in 1 .. UpTill(n, block, bi) - Before(block, bi) : Before(block, bi) + j \in G})

\* Counts of the blocks add up to that of the array.
LEMMA CountsAddUp ==
  ASSUME NEW n \in Nat, n < Pow(K), NEW G \in SUBSET (1 .. n), NEW block \in Nat \ {0},
         NEW nb, nb = CeilDiv(n, block), NEW B, Len(B) = nb, B \in Seq(Int),
         CountedBy(B, G, n, block)
  PROVE  SumWrapped(B) = Cardinality(G)
  <1> DEFINE s == [i \in 1 .. n |-> IF i \in G THEN 1 ELSE 0]
  <1>1. s \in Seq(Int) /\ Len(s) = n /\ \A i \in 1 .. n : s[i] = IF i \in G THEN 1 ELSE 0
    OBVIOUS
  <1>2. PICK t : Adds(t, s)
    BY <1>1, AddsExist
  <1>3. t[n] = Cardinality(G) /\ Cardinality(G) \in Nat
    BY <1>2, AddsCount
  <1> HIDE DEF s
  <1>4. nb \in Nat
    BY BlocksCover
  <1>5. ASSUME NEW bi \in 1 .. nb
        PROVE  B[bi] \in Int /\ B[bi] = t[UpTill(n, block, bi)] - t[Before(block, bi)]
    <2> DEFINE q == Piece(s, block, bi)
               len == UpTill(n, block, bi) - Before(block, bi)
               H == {j \in 1 .. len : Before(block, bi) + j \in G}
    <2>1. bi \in 1 .. CeilDiv(Len(s), block)
      BY <1>1
    <2>2. /\ q \in Seq(Int) /\ Len(q) = len /\ len > 0 /\ DOMAIN q = 1 .. len
          /\ \A j \in 1 .. len : q[j] = s[Before(block, bi) + j] /\ Before(block, bi) + j \in 1 .. n
      BY <1>1, <2>1, PieceFacts
    <2>3. len \in Nat
      <3>1. /\ Before(block, bi) \in Nat /\ UpTill(n, block, bi) \in Nat
            /\ Before(block, bi) < UpTill(n, block, bi)
        BY BlocksCover
      <3> QED
        BY ONLY <3>1
    <2>4. PICK tq : Adds(tq, q)
      BY <2>2, AddsExist
    <2>5. q = [j \in 1 .. len |-> IF j \in H THEN 1 ELSE 0]
      <3> HIDE DEF len
      <3>1. \A j \in 1 .. len : q[j] = IF j \in H THEN 1 ELSE 0
        BY <1>1, <2>2
      <3>2. q = [j \in 1 .. len |-> q[j]]
        BY <2>2
      <3> HIDE DEF q, H
      <3> QED
        BY <3>1, <3>2
    <2>6. tq[len] = t[UpTill(n, block, bi)] - t[Before(block, bi)] /\ tq[len] \in Int
      <3>1. Len(q) = len
        BY <2>2
      <3> HIDE DEF q, len
      <3>2. q = Piece(s, block, bi)
        BY DEF q
      <3>3. tq[Len(q)] = t[UpTill(Len(s), block, bi)] - t[Before(block, bi)] /\ tq[Len(q)] \in Int
        BY <1>1, <1>2, <2>1, <2>4, <3>2, PieceAdds
      <3> QED
        BY <1>1, <3>1, <3>3
    <2>7. tq[len] = Cardinality(H)
      <3>1. H \in SUBSET (1 .. len)
        OBVIOUS
      <3> HIDE DEF q, len, H
      <3> QED
        BY <2>3, <2>4, <2>5, <3>1, AddsCount
    <2>8. B[bi] = Cardinality(H)
      BY DEF CountedBy
    <2> QED
      BY <2>6, <2>7, <2>8
  <1>6. Blockwise(B, t, Len(s), block)
    BY <1>1, <1>5 DEF Blockwise
  <1>7. SumWrapped(B) = Wrap(t[n])
    BY <1>1, <1>2, <1>6, BlocksAddUp
  <1>8. Cardinality(G) <= n
    <2>1. IsFiniteSet(1 .. n) /\ Cardinality(1 .. n) = IF 1 > n THEN 0 ELSE n - 1 + 1
      BY FS_Interval
    <2>2. Cardinality(G) <= Cardinality(1 .. n)
      BY <2>1, FS_Subset
    <2> QED
      BY <2>1, <2>2
  <1>9. Wrap(Cardinality(G)) = Cardinality(G)
    <2> DEFINE c == Cardinality(G)
    <2>1. c \in Nat /\ c < Pow(K) /\ Pow(K) \in Nat \ {0}
      BY <1>3, <1>8, WrapFacts
    <2> HIDE DEF c
    <2>2. c \in Word
      BY <2>1 DEF Word
    <2>3. Wrap(c) = c
      BY <2>2, WrapFacts
    <2> QED
      BY <2>3 DEF c
  <1> QED
    BY <1>3, <1>7, <1>9

\* Sums of the blocks add up to that of the array.
LEMMA SumsAddUp ==
  ASSUME NEW s \in Seq(Int), NEW block \in Nat \ {0}, NEW nb, nb = CeilDiv(Len(s), block),
         NEW B \in Seq(Int), Len(B) = nb,
         \A bi \in 1 .. nb : Wrap(B[bi]) = SumWrapped(Piece(s, block, bi))
  PROVE  SumWrapped(B) = SumWrapped(s)
  <1>1. PICK t : Adds(t, s)
    BY AddsExist
  <1>2. ASSUME NEW bi \in 1 .. nb
        PROVE  Wrap(B[bi]) = Wrap(t[UpTill(Len(s), block, bi)] - t[Before(block, bi)])
    <2> DEFINE q == Piece(s, block, bi)
    <2>1. q \in Seq(Int)
      BY PieceFacts
    <2>2. PICK tq : Adds(tq, q)
      BY <2>1, AddsExist
    <2> HIDE DEF q
    <2>3. q = Piece(s, block, bi) /\ bi \in 1 .. CeilDiv(Len(s), block)
      BY DEF q
    <2>4. tq[Len(q)] = t[UpTill(Len(s), block, bi)] - t[Before(block, bi)]
      BY <1>1, <2>2, <2>3, PieceAdds
    <2>5. SumWrapped(q) = Wrap(tq[Len(q)])
      BY <2>1, <2>2, SumWrappedIs
    <2> QED
      BY <2>4, <2>5 DEF q
  <1>3. Blockwise(B, t, Len(s), block)
    BY <1>2 DEF Blockwise
  <1> QED
    BY <1>1, <1>3, BlocksAddUp

\* The elements of p are those of m and of x, each with its factor.
Combines(p, m, x, c, st) ==
  Len(m) = Len(p) /\ Len(x) = Len(p) /\ \A j \in 1 .. Len(p) : p[j] = c * m[j] + st * x[j]

\* A sum put together of a count and of another sum.
Combined(a, e, g, c, st) == a = c * e + st * g

\* The sum of some values of a block from how many they are and the sum of their indices.
LEMMA MaskedAdds ==
  ASSUME NEW p \in Seq(Int), NEW x \in Seq(Int), NEW m \in Seq(Int), NEW c \in Int, NEW st \in Int,
         NEW n, n = Len(p), Combines(p, m, x, c, st),
         NEW tp, Adds(tp, p), NEW tx, Adds(tx, x), NEW tm, Adds(tm, m)
  PROVE  /\ tp[n] \in Int /\ tx[n] \in Int /\ tm[n] \in Int
         /\ Combined(tp[n], tm[n], tx[n], c, st)
  <1>0. /\ n \in Nat /\ Len(p) = n /\ Len(x) = n /\ Len(m) = n
        /\ \A j \in 1 .. n : p[j] = c * m[j] + st * x[j]
    BY DEF Combines
  <1>1. \A j \in 1 .. n : x[j] \in Int /\ p[j] \in Int /\ m[j] \in Int
    BY <1>0
  <1>2. /\ tp \in [0 .. n -> Int] /\ tp[0] = 0 /\ \A j \in 1 .. n : tp[j] = tp[j - 1] + p[j]
        /\ tx \in [0 .. n -> Int] /\ tx[0] = 0 /\ \A j \in 1 .. n : tx[j] = tx[j - 1] + x[j]
        /\ tm \in [0 .. n -> Int] /\ tm[0] = 0 /\ \A j \in 1 .. n : tm[j] = tm[j - 1] + m[j]
    BY <1>0 DEF Adds
  <1> DEFINE S == {j \in 0 .. n : tp[j] = c * tm[j] + st * tx[j]}
  <1>3. 0 \in S
    <2>1. c * 0 + st * 0 = 0
      OBVIOUS
    <2> QED
      BY <1>0, <1>2, <2>1
  <1>4. ASSUME NEW j \in 1 .. n, j - 1 \in S PROVE j \in S
    <2> DEFINE a == tx[j - 1]
               e == x[j]
               g == tm[j - 1]
               h == m[j]
    <2>1. tp[j - 1] = c * g + st * a /\ j - 1 \in 0 .. n /\ j \in 0 .. n
      BY <1>0, <1>4
    <2>2. tp[j] = tp[j - 1] + p[j] /\ tx[j] = a + e /\ tm[j] = g + h /\ p[j] = c * h + st * e
      BY <1>0, <1>2
    <2>3. a \in Int /\ e \in Int /\ g \in Int /\ h \in Int
      BY <1>1, <1>2, <2>1
    <2>4. tp[j] = (c * g + st * a) + (c * h + st * e)
      BY <2>1, <2>2
    <2>5. c * tm[j] + st * tx[j] = c * (g + h) + st * (a + e)
      BY <2>2
    <2> HIDE DEF a, e, g, h
    <2>6. (c * g + st * a) + (c * h + st * e) = c * (g + h) + st * (a + e)
      BY ONLY <2>3, c \in Int, st \in Int
    <2> QED
      BY <2>1, <2>4, <2>5, <2>6
  <1> HIDE DEF S
  <1>5. S = 0 .. n
    <2>1. S \in SUBSET (0 .. n)
      BY DEF S
    <2> QED
      BY <1>0, <1>3, <1>4, <2>1, UpTo
  <1>6. n \in S /\ n \in 0 .. n
    BY <1>0, <1>5
  <1> QED
    BY <1>2, <1>6 DEF S, Combined

\* The values of p in the window when each is moved by d, the others put to zero.
Masked(p, d, lo, hi) ==
  [j \in DOMAIN p |-> IF lo <= p[j] + d /\ p[j] + d <= hi THEN p[j] ELSE 0]
Inside(p, d, lo, hi) == {j \in 1 .. Len(p) : lo <= p[j] + d /\ p[j] + d <= hi}

\* What a mask leaves is a sequence of its own.
LEMMA MaskedIs ==
  ASSUME NEW p \in Seq(Int), NEW d \in Int, NEW lo \in Int, NEW hi \in Int
  PROVE  /\ Masked(p, d, lo, hi) \in Seq(Int) /\ Len(Masked(p, d, lo, hi)) = Len(p)
         /\ \A j \in 1 .. Len(p) : Masked(p, d, lo, hi)[j] =
              IF j \in Inside(p, d, lo, hi) THEN p[j] ELSE 0
  <1> DEFINE n == Len(p)
             in(j) == lo <= p[j] + d /\ p[j] + d <= hi
             q == [j \in 1 .. n |-> IF in(j) THEN p[j] ELSE 0]
  <1>1. Masked(p, d, lo, hi) = q
    BY DEF Masked
  <1>2. \A j \in 1 .. n : p[j] \in Int
    OBVIOUS
  <1>3. n \in Nat
    OBVIOUS
  <1>4. \A j \in 1 .. n : j \in Inside(p, d, lo, hi) <=> in(j)
    BY DEF Inside
  <1> HIDE DEF n, in
  <1>5. q \in Seq(Int) /\ Len(q) = n /\ \A j \in 1 .. n : q[j] = IF in(j) THEN p[j] ELSE 0
    BY <1>2, <1>3
  <1> HIDE DEF q
  <1>6. \A j \in 1 .. n : q[j] = IF j \in Inside(p, d, lo, hi) THEN p[j] ELSE 0
    BY <1>4, <1>5
  <1> QED
    BY <1>1, <1>5, <1>6 DEF n

\* The kernels of one block, over the window of indices.
KernelSum(b, bi, ilo, ihi) ==
  BB(b, bi) * CountIn(View(b, bi), ilo, ihi) + BT(b, bi) * SumIn(View(b, bi), ilo, ihi)

\* The indices of a window are those of the values in a window.
Picks(b, bi, p, d, lo, hi, ilo, ihi) ==
  \A j \in 1 .. Len(p) : (lo <= p[j] + d /\ p[j] + d <= hi)
    <=> (ilo <= Delta(b, bi, j) /\ Delta(b, bi, j) <= ihi)

\* They count and add up what a scan of the values would.
LEMMA KernelBlock ==
  ASSUME NEW b, NEW bi, NEW p, NEW d, Seen(b, bi, p, d), d \in {0, Pow(K)},
         NEW lo \in Int, NEW hi \in Int, NEW ilo, NEW ihi,
         Picks(b, bi, p, d, lo, hi, ilo, ihi)
  PROVE  /\ CountIn(View(b, bi), ilo, ihi) = Cardinality(Inside(p, d, lo, hi))
         /\ KernelSum(b, bi, ilo, ihi) \in Int
         /\ Wrap(KernelSum(b, bi, ilo, ihi)) = SumWrapped(Masked(p, d, lo, hi))
  <1> DEFINE n == Len(p)
             v == View(b, bi)
             G == Inside(p, d, lo, hi)
             q == Masked(p, d, lo, hi)
             base == BB(b, bi)
             st == BT(b, bi)
             c == base - d
             x == [j \in 1 .. n |-> IF j \in G THEN v[j] ELSE 0]
             m == [j \in 1 .. n |-> IF j \in G THEN 1 ELSE 0]
  <1>1. /\ d \in Int /\ p \in Seq(Int) /\ n \in Nat /\ DOMAIN p = 1 .. n /\ base \in Nat /\ st \in Nat
        /\ BlkLen(b, bi) = n
        /\ \A j \in 1 .. n : Delta(b, bi, j) \in Nat /\ p[j] + d = base + st * Delta(b, bi, j)
    <2>1. d \in Int /\ p \in Seq(Int) /\ DOMAIN p = 1 .. n
      BY DEF Seen
    <2>2. base \in Nat /\ st \in Nat /\ BlkLen(b, bi) = n
      BY DEF Seen
    <2>3. \A j \in 1 .. n : Delta(b, bi, j) \in Nat /\ p[j] + d = base + st * Delta(b, bi, j)
      BY DEF Seen
    <2>4. n \in Nat
      BY <2>1
    <2> QED
      BY <2>1, <2>2, <2>3, <2>4
  <1>2. DOMAIN v = 1 .. n /\ \A j \in 1 .. n : v[j] = Delta(b, bi, j) /\ v[j] \in Nat
    BY <1>1 DEF View
  <1>3. \A j \in 1 .. n : j \in G <=> (ilo <= v[j] /\ v[j] <= ihi)
    BY <1>2 DEF Inside, Picks
  <1>4. G \in SUBSET (1 .. n)
    BY DEF Inside
  <1>5. q \in Seq(Int) /\ Len(q) = n /\ \A j \in 1 .. n : q[j] = IF j \in G THEN p[j] ELSE 0
    BY <1>1, MaskedIs
  <1>6. \A j \in 1 .. n : p[j] \in Int
    BY <1>1
  <1> HIDE DEF v, G, q, n
  <1>7. CountIn(v, ilo, ihi) = Cardinality(G)
    <2>1. {j \in 1 .. n : ilo <= v[j] /\ v[j] <= ihi} = G
      BY <1>3, <1>4
    <2> QED
      BY <1>2, <2>1 DEF CountIn
  <1>8. SumIn(v, ilo, ihi) = SumWrapped(x)
    <2>1. [j \in DOMAIN v |-> IF ilo <= v[j] /\ v[j] <= ihi THEN v[j] ELSE 0]
            = [j \in 1 .. n |-> IF ilo <= v[j] /\ v[j] <= ihi THEN v[j] ELSE 0]
      BY <1>2
    <2>2. \A j \in 1 .. n : (IF ilo <= v[j] /\ v[j] <= ihi THEN v[j] ELSE 0)
                              = IF j \in G THEN v[j] ELSE 0
      BY <1>3
    <2>3. [j \in 1 .. n |-> IF ilo <= v[j] /\ v[j] <= ihi THEN v[j] ELSE 0] = x
      BY <2>2
    <2> HIDE DEF x
    <2> QED
      BY <2>1, <2>3 DEF SumIn
  <1>9. /\ x \in Seq(Int) /\ Len(x) = n /\ \A j \in 1 .. n : x[j] = IF j \in G THEN v[j] ELSE 0
        /\ m \in Seq(Int) /\ Len(m) = n /\ \A j \in 1 .. n : m[j] = IF j \in G THEN 1 ELSE 0
    BY <1>1, <1>2
  <1>10. PICK tq : Adds(tq, q)
    BY <1>5, AddsExist
  <1>11. PICK tx : Adds(tx, x)
    BY <1>9, AddsExist
  <1>12. PICK tm : Adds(tm, m)
    BY <1>9, AddsExist
  <1>13. tm[n] = Cardinality(G) /\ Cardinality(G) \in Nat
    BY <1>1, <1>4, <1>12, AddsCount
  <1> HIDE DEF x, m
  <1>14. c \in Int /\ Wrap(c) = Wrap(base)
    <2>1. CASE d = 0
      BY <1>1, <2>1
    <2>2. CASE d = Pow(K)
      <3> DEFINE big == Pow(K)
      <3>1. big \in Nat \ {0} /\ c = base + (-1) * big
        BY <1>1, <2>2, WrapFacts
      <3> HIDE DEF big, c, base
      <3>2. \A k \in Int : (base + k * big) % big = base % big
        <4> SUFFICES ASSUME NEW k \in Int PROVE (base + k * big) % big = base % big
          OBVIOUS
        <4>1. base \in Int
          BY <1>1
        <4> QED
          BY ONLY <3>1, <4>1, k \in Int, ModPlus
      <3>3. (base + (-1) * big) % big = base % big
        BY ONLY <3>2, -1 \in Int
      <3>4. c \in Int
        BY <1>1, <3>1
      <3> QED
        BY <3>1, <3>3, <3>4 DEF Wrap, Raw, big
    <2> QED
      BY <2>1, <2>2
  <1>15. \A j \in 1 .. n : q[j] = c * m[j] + st * x[j]
    <2> SUFFICES ASSUME NEW j \in 1 .. n PROVE q[j] = c * m[j] + st * x[j]
      OBVIOUS
    <2>1. CASE j \in G
      <3>1. q[j] = p[j] /\ m[j] = 1 /\ x[j] = v[j]
        BY <1>5, <1>9, <2>1
      <3> DEFINE g == st * v[j]
      <3>2. p[j] + d = base + g /\ g \in Int /\ p[j] \in Int
        <4>1. v[j] = Delta(b, bi, j) /\ v[j] \in Nat
          BY <1>2
        <4>2. p[j] + d = base + st * Delta(b, bi, j) /\ st \in Nat
          BY <1>1
        <4>3. p[j] + d = base + g
          <5> HIDE DEF base, st
          <5> QED
            BY ONLY <4>1, <4>2
        <4>4. g \in Int
          <5> HIDE DEF st
          <5> QED
            BY ONLY <4>1, <4>2
        <4> QED
          BY <1>6, <4>3, <4>4
      <3> HIDE DEF g
      <3>3. p[j] = c + g
        <4>1. base \in Int /\ d \in Int
          BY <1>1
        <4> HIDE DEF base
        <4>2. p[j] = (base - d) + g
          BY <3>2, <4>1
        <4> QED
          BY <4>2
      <3>4. c * 1 = c
        BY <1>14
      <3> QED
        BY <3>1, <3>3, <3>4 DEF g
    <2>2. CASE j \notin G
      <3>1. q[j] = 0 /\ m[j] = 0 /\ x[j] = 0
        BY <1>5, <1>9, <2>2
      <3>2. c * 0 = 0 /\ st * 0 = 0
        <4>1. c \in Int /\ st \in Int
          BY <1>1, <1>14
        <4> HIDE DEF c, st
        <4> QED
          BY ONLY <4>1
      <3>3. c * m[j] = 0 /\ st * x[j] = 0
        BY ONLY <3>1, <3>2
      <3>4. q[j] = 0 + 0
        BY ONLY <3>1
      <3> QED
        BY ONLY <3>3, <3>4
    <2> QED
      BY <2>1, <2>2
  <1> HIDE DEF c, base, st
  <1>16. /\ tq[n] \in Int /\ tx[n] \in Int /\ tm[n] \in Int
         /\ tq[n] = c * tm[n] + st * tx[n]
    <2>1. st \in Int /\ n \in Nat /\ c \in Int
      BY <1>1, <1>14
    <2>2. /\ q \in Seq(Int) /\ x \in Seq(Int) /\ m \in Seq(Int)
          /\ Len(q) = n /\ Len(x) = n /\ Len(m) = n
      BY <1>5, <1>9
    <2>3. Combines(q, m, x, c, st) /\ n = Len(q)
      BY <1>15, <2>2 DEF Combines
    <2>4. Adds(tq, q) /\ Adds(tx, x) /\ Adds(tm, m)
      BY <1>10, <1>11, <1>12
    <2>5. Combined(tq[n], tm[n], tx[n], c, st)
      BY ONLY <2>1, <2>2, <2>3, <2>4, MaskedAdds
    <2>6. tq[n] \in Int /\ tx[n] \in Int /\ tm[n] \in Int
      BY ONLY <2>1, <2>2, <2>3, <2>4, MaskedAdds
    <2> QED
      BY <2>5, <2>6 DEF Combined
  <1>17. SumWrapped(x) = Wrap(tx[n]) /\ SumWrapped(q) = Wrap(tq[n])
    BY <1>5, <1>9, <1>10, <1>11, SumWrappedIs
  <1> DEFINE X == SumWrapped(x)
             k == Cardinality(G)
  <1>18. X \in Int /\ Wrap(X) = Wrap(tx[n])
    BY <1>16, <1>17, WrapFacts
  <1>19. k \in Int /\ tq[n] = k * c + st * tx[n]
    <2>1. c * k = k * c
      BY <1>13, <1>14
    <2> QED
      BY <1>13, <1>16, <2>1
  <1> HIDE DEF X, k
  <1>20. Wrap(k * base) = Wrap(k * c) /\ k * base \in Int /\ k * c \in Int
    BY <1>1, <1>14, <1>19, WrapTimes
  <1>21. Wrap(st * X) = Wrap(st * tx[n]) /\ st * X \in Int /\ st * tx[n] \in Int
    BY <1>1, <1>16, <1>18, WrapTimes
  <1>22. Wrap(k * base + st * X) = Wrap(k * c + st * tx[n]) /\ k * base + st * X \in Int
    <2> DEFINE a1 == k * base
               a2 == k * c
               a3 == st * X
               a4 == st * tx[n]
    <2>1. a1 \in Int /\ a2 \in Int /\ a3 \in Int /\ a4 \in Int /\ Wrap(a1) = Wrap(a2)
          /\ Wrap(a3) = Wrap(a4)
      BY <1>20, <1>21
    <2> HIDE DEF a1, a2, a3, a4
    <2>2. Wrap(a1 + a3) = Wrap(a2 + a4) /\ a1 + a3 \in Int
      BY <2>1, WrapPlus
    <2> QED
      BY <2>2 DEF a1, a2, a3, a4
  <1>23. base * k = k * base
    BY <1>1, <1>19
  <1> QED
    BY <1>7, <1>8, <1>17, <1>19, <1>22, <1>23 DEF v, G, q, base, st, X, k, KernelSum

\* Nothing adds up to nothing.
LEMMA ZerosSum ==
  ASSUME NEW s \in Seq(Int), \A j \in DOMAIN s : s[j] = 0
  PROVE  SumWrapped(s) = 0
  <1>1. PICK t : Adds(t, s)
    BY AddsExist
  <1>2. t[Len(s)] = 0
    BY <1>1, ZeroAdds
  <1>3. SumWrapped(s) = Wrap(t[Len(s)])
    BY <1>1, SumWrappedIs
  <1>4. Wrap(0) = 0
    <2>1. 0 \in Word
      BY WrapFacts DEF Word
    <2> QED
      BY <2>1, WrapFacts
  <1> QED
    BY <1>2, <1>3, <1>4

\* An empty window holds no value.
LEMMA NothingInside ==
  ASSUME NEW p \in Seq(Int), NEW d \in Int, NEW lo \in Int, NEW hi \in Int,
         \A j \in 1 .. Len(p) : ~(lo <= p[j] + d /\ p[j] + d <= hi)
  PROVE  Cardinality(Inside(p, d, lo, hi)) = 0 /\ SumWrapped(Masked(p, d, lo, hi)) = 0
  <1>1. Inside(p, d, lo, hi) = {}
    BY DEF Inside
  <1>2. Cardinality(Inside(p, d, lo, hi)) = 0
    BY <1>1, FS_EmptySet
  <1> DEFINE q == Masked(p, d, lo, hi)
  <1>3. q \in Seq(Int) /\ Len(q) = Len(p)
        /\ \A j \in 1 .. Len(p) : q[j] = IF j \in Inside(p, d, lo, hi) THEN p[j] ELSE 0
    BY MaskedIs
  <1> HIDE DEF q
  <1>4. \A j \in DOMAIN q : q[j] = 0
    BY <1>1, <1>3
  <1>5. SumWrapped(q) = 0
    BY <1>3, <1>4, ZerosSum
  <1> QED
    BY <1>2, <1>5 DEF q

\* A window with all values in it.
LEMMA AllInside ==
  ASSUME NEW p \in Seq(Int), NEW d \in Int, NEW lo \in Int, NEW hi \in Int,
         \A j \in 1 .. Len(p) : lo <= p[j] + d /\ p[j] + d <= hi
  PROVE  Cardinality(Inside(p, d, lo, hi)) = Len(p) /\ Masked(p, d, lo, hi) = p
  <1> DEFINE n == Len(p)
             q == Masked(p, d, lo, hi)
  <1>0. n \in Nat /\ p = [j \in 1 .. n |-> p[j]]
    OBVIOUS
  <1>1. Inside(p, d, lo, hi) = 1 .. n
    BY DEF Inside
  <1>2. Cardinality(1 .. n) = n
    <2> HIDE DEF n
    <2>1. Cardinality(1 .. n) = IF 1 > n THEN 0 ELSE n - 1 + 1
      BY ONLY <1>0, 1 \in Int, n \in Int, FS_Interval
    <2> QED
      BY <1>0, <2>1
  <1>3. q = [j \in 1 .. n |-> q[j]] /\ \A j \in 1 .. n : q[j] = p[j]
    <2>1. q \in Seq(Int) /\ Len(q) = n
          /\ \A j \in 1 .. n : q[j] = IF j \in Inside(p, d, lo, hi) THEN p[j] ELSE 0
      BY MaskedIs
    <2> HIDE DEF q, n
    <2> QED
      BY <1>1, <2>1
  <1> HIDE DEF q, n
  <1>4. q = p
    BY ONLY <1>0, <1>3
  <1> QED
    BY <1>1, <1>2, <1>4 DEF q, n

\* The piece of a mask is the mask of the piece.
LEMMA PieceMasked ==
  ASSUME NEW vs \in Seq(Int), NEW block \in Nat \ {0}, NEW bi \in 1 .. CeilDiv(Len(vs), block),
         NEW p, p = Piece(vs, block, bi), NEW d \in Int, NEW lo \in Int, NEW hi \in Int
  PROVE  /\ Piece(Masked(vs, d, lo, hi), block, bi) = Masked(p, d, lo, hi)
         /\ Inside(p, d, lo, hi) =
              {j \in 1 .. UpTill(Len(vs), block, bi) - Before(block, bi) :
                 Before(block, bi) + j \in Inside(vs, d, lo, hi)}
  <1> DEFINE n == Len(vs)
             at == Before(block, bi)
             len == UpTill(n, block, bi) - at
             M == Masked(vs, d, lo, hi)
             q == Piece(M, block, bi)
             m == Masked(p, d, lo, hi)
  <1>1. /\ p \in Seq(Int) /\ Len(p) = len /\ len \in Nat
        /\ \A j \in 1 .. len : p[j] = vs[at + j] /\ at + j \in 1 .. n
    <2>1. p \in Seq(Int) /\ Len(p) = len
      BY PieceFacts
    <2>2. \A j \in 1 .. len : p[j] = vs[at + j] /\ at + j \in 1 .. n
      BY PieceFacts
    <2>3. len \in Nat
      BY <2>1
    <2> QED
      BY <2>1, <2>2, <2>3
  <1>2. /\ M \in Seq(Int) /\ Len(M) = n
        /\ \A i \in 1 .. n : M[i] = IF i \in Inside(vs, d, lo, hi) THEN vs[i] ELSE 0
    BY MaskedIs
  <1>3. /\ q \in Seq(Int) /\ Len(q) = len /\ \A j \in 1 .. len : q[j] = M[at + j]
    <2> HIDE DEF M
    <2>1. bi \in 1 .. CeilDiv(Len(M), block)
      BY <1>2
    <2>2. q \in Seq(Int) /\ Len(q) = UpTill(Len(M), block, bi) - Before(block, bi)
      BY <1>2, <2>1, PieceFacts
    <2>3. \A j \in 1 .. UpTill(Len(M), block, bi) - Before(block, bi) : q[j] = M[Before(block, bi) + j]
      BY <1>2, <2>1, PieceFacts
    <2> QED
      BY <1>2, <2>2, <2>3
  <1>4. /\ m \in Seq(Int) /\ Len(m) = len
        /\ \A j \in 1 .. len : m[j] = IF j \in Inside(p, d, lo, hi) THEN p[j] ELSE 0
    BY SMTT(60), <1>1, MaskedIs
  <1>5. \A j \in 1 .. len : j \in Inside(p, d, lo, hi) <=> at + j \in Inside(vs, d, lo, hi)
    <2> HIDE DEF at, len, n
    <2>1. n = Len(vs)
      BY DEF n
    <2> QED
      BY <1>1, <2>1 DEF Inside
  <1>6. Inside(p, d, lo, hi) \in SUBSET (1 .. len)
    BY <1>1 DEF Inside
  <1> HIDE DEF n, at, len, M, q, m
  <1>7. q = m
    <2>1. ASSUME NEW j \in 1 .. len PROVE q[j] = m[j]
      <3>1. q[j] = M[at + j]
        BY <1>3
      <3>2. at + j \in 1 .. n /\ p[j] = vs[at + j]
        BY <1>1
      <3>3. M[at + j] = IF at + j \in Inside(vs, d, lo, hi) THEN vs[at + j] ELSE 0
        BY <1>2, <3>2
      <3>4. m[j] = IF j \in Inside(p, d, lo, hi) THEN p[j] ELSE 0
        BY <1>4
      <3>5. j \in Inside(p, d, lo, hi) <=> at + j \in Inside(vs, d, lo, hi)
        BY <1>5
      <3> QED
        BY ONLY <3>1, <3>2, <3>3, <3>4, <3>5
    <2>2. q = [j \in 1 .. len |-> q[j]] /\ m = [j \in 1 .. len |-> m[j]]
      BY <1>3, <1>4
    <2> QED
      BY ONLY <2>1, <2>2
  <1>8. Inside(p, d, lo, hi) = {j \in 1 .. len : at + j \in Inside(vs, d, lo, hi)}
    BY <1>5, <1>6
  <1> QED
    BY <1>7, <1>8 DEF n, at, len, M, q, m

\* What a block says of a window, by its zone or by a kernel.
CountOf(b, bi, lo, hi) ==
  LET w == BlkWindow(b, bi, lo, hi) IN
  IF ~w.some THEN 0
  ELSE IF w.whole \/ b.blocks[bi].width = 0 THEN BlkLen(b, bi)
  ELSE CountIn(View(b, bi), w.ilo, w.ihi)
SumOf(b, bi, lo, hi) ==
  LET w == BlkWindow(b, bi, lo, hi) IN
  IF ~w.some THEN 0
  ELSE IF w.whole THEN BS(b, bi)
  ELSE IF b.blocks[bi].width = 0 THEN BB(b, bi) * BlkLen(b, bi)
  ELSE BB(b, bi) * CountIn(View(b, bi), w.ilo, w.ihi)
       + BT(b, bi) * SumIn(View(b, bi), w.ilo, w.ihi)

\* Either is what a scan of its piece of the array says.
LEMMA BlockAnswers ==
  ASSUME NEW b, NEW bi, NEW p, NEW d, Seen(b, bi, p, d), d \in {0, Pow(K)},
         BS(b, bi) = SumWrapped(p),
         NEW lo \in Word, NEW hi \in Word, lo <= hi, RoundsUp(BB(b, bi), BT(b, bi), lo)
  PROVE  /\ CountOf(b, bi, lo, hi) = Cardinality(Inside(p, d, lo, hi))
         /\ SumOf(b, bi, lo, hi) \in Int
         /\ Wrap(SumOf(b, bi, lo, hi)) = SumWrapped(Masked(p, d, lo, hi))
  <1> DEFINE w == BlkWindow(b, bi, lo, hi)
  <1>0. /\ p \in Seq(Int) /\ d \in Int /\ lo \in Int /\ hi \in Int /\ BlkLen(b, bi) = Len(p)
    BY WrapFacts DEF Seen
  <1>1. /\ ~w.some => \A j \in 1 .. Len(p) : ~(lo <= p[j] + d /\ p[j] + d <= hi)
        /\ w.some /\ w.whole => \A j \in 1 .. Len(p) : lo <= p[j] + d /\ p[j] + d <= hi
        /\ w.some /\ ~w.whole =>
             /\ b.blocks[bi].width # 0
             /\ \A j \in 1 .. Len(p) : (lo <= p[j] + d /\ p[j] + d <= hi)
                  <=> (w.ilo <= Delta(b, bi, j) /\ Delta(b, bi, j) <= w.ihi)
    <2>1. w = BlkWindow(b, bi, lo, hi)
      OBVIOUS
    <2> HIDE DEF w
    <2>2. ~w.some => \A j \in 1 .. Len(p) : ~(lo <= p[j] + d /\ p[j] + d <= hi)
      BY <2>1, SeenWindow
    <2>3. w.some /\ w.whole => \A j \in 1 .. Len(p) : lo <= p[j] + d /\ p[j] + d <= hi
      BY <2>1, SeenWindow
    <2>4. w.some /\ ~w.whole => b.blocks[bi].width # 0
      BY <2>1, SeenWindow
    <2>5. w.some /\ ~w.whole =>
             \A j \in 1 .. Len(p) : (lo <= p[j] + d /\ p[j] + d <= hi)
                  <=> (w.ilo <= Delta(b, bi, j) /\ Delta(b, bi, j) <= w.ihi)
      BY <2>1, SeenWindow
    <2> QED
      BY <2>2, <2>3, <2>4, <2>5
  <1>2. /\ CountOf(b, bi, lo, hi) =
             IF ~w.some THEN 0
             ELSE IF w.whole \/ b.blocks[bi].width = 0 THEN BlkLen(b, bi)
             ELSE CountIn(View(b, bi), w.ilo, w.ihi)
        /\ SumOf(b, bi, lo, hi) =
             IF ~w.some THEN 0
             ELSE IF w.whole THEN BS(b, bi)
             ELSE IF b.blocks[bi].width = 0 THEN BB(b, bi) * BlkLen(b, bi)
             ELSE BB(b, bi) * CountIn(View(b, bi), w.ilo, w.ihi)
                  + BT(b, bi) * SumIn(View(b, bi), w.ilo, w.ihi)
    BY DEF CountOf, SumOf
  <1> HIDE DEF w
  <1>z. Wrap(0) = 0
    <2>1. 0 \in Word
      BY WrapFacts DEF Word
    <2> QED
      BY <2>1, WrapFacts
  <1>3. CASE ~w.some
    <2>1. CountOf(b, bi, lo, hi) = 0 /\ SumOf(b, bi, lo, hi) = 0
      BY <1>2, <1>3
    <2>2. Cardinality(Inside(p, d, lo, hi)) = 0 /\ SumWrapped(Masked(p, d, lo, hi)) = 0
      BY <1>0, <1>1, <1>3, NothingInside
    <2> QED
      BY <1>z, <2>1, <2>2
  <1>4. CASE w.some /\ w.whole
    <2>1. CountOf(b, bi, lo, hi) = Len(p) /\ SumOf(b, bi, lo, hi) = SumWrapped(p)
      BY <1>0, <1>2, <1>4
    <2>2. Cardinality(Inside(p, d, lo, hi)) = Len(p) /\ Masked(p, d, lo, hi) = p
      BY <1>0, <1>1, <1>4, AllInside
    <2>3. SumWrapped(p) \in Int /\ Wrap(SumWrapped(p)) = SumWrapped(p)
      <3>1. PICK t : Adds(t, p)
        BY <1>0, AddsExist
      <3>2. SumWrapped(p) \in Word
        BY <1>0, <3>1, SumWrappedIs
      <3> QED
        BY <3>2, WrapFacts
    <2> QED
      BY <2>1, <2>2, <2>3
  <1>5. CASE w.some /\ ~w.whole
    <2> DEFINE ilo == w.ilo
               ihi == w.ihi
               cn == CountIn(View(b, bi), ilo, ihi)
               sm == KernelSum(b, bi, ilo, ihi)
    <2>1. CountOf(b, bi, lo, hi) = cn /\ SumOf(b, bi, lo, hi) = sm
      <3> HIDE DEF cn, sm
      <3>1. b.blocks[bi].width # 0
        BY <1>1, <1>5
      <3> QED
        BY <1>2, <1>5, <3>1 DEF cn, sm, KernelSum
    <2>2. Picks(b, bi, p, d, lo, hi, ilo, ihi)
      BY <1>1, <1>5 DEF Picks
    <2>3. cn = Cardinality(Inside(p, d, lo, hi))
      <3> HIDE DEF ilo, ihi
      <3> QED
        BY <1>0, <2>2, KernelBlock
    <2>4. sm \in Int
      <3> HIDE DEF ilo, ihi
      <3> QED
        BY <1>0, <2>2, KernelBlock
    <2>5. Wrap(sm) = SumWrapped(Masked(p, d, lo, hi))
      <3> HIDE DEF ilo, ihi
      <3> QED
        BY <1>0, <2>2, KernelBlock
    <2> HIDE DEF cn, sm
    <2> QED
      BY <2>1, <2>3, <2>4, <2>5
  <1> QED
    BY <1>3, <1>4, <1>5

\* An array in memory has fewer elements than there are words.
LEMMA FewElements ==
  ASSUME NEW sg \in BOOLEAN, NEW vs, InMemory(vs, sg)
  PROVE  Len(vs) \in Nat /\ Len(vs) < Pow(K)
  <1> DEFINE n == Len(vs)
             e == Bytes(K)
  <1>1. n \in Nat /\ n * e < Pow(K)
    BY DEF InMemory
  <1>2. e \in Nat \ {0} /\ Pow(K) \in Nat
    <2>1. K \in Classes
      BY ClassAssumption DEF Classes
    <2> QED
      BY <2>1, ElementSizes, WrapFacts
  <1> HIDE DEF n, e
  <1>3. n <= n * e /\ n * e \in Int
    <2>1. n * 1 <= n * e /\ n * 1 = n /\ n * e \in Int
      BY <1>1, <1>2, FactorGrows
    <2> QED
      BY <2>1
  <1> QED
    BY <1>1, <1>2, <1>3 DEF n

\* Windows of a block-wise column, as words, are those of a scan.
LEMMA WindowsExact ==
  ASSUME NEW sg \in BOOLEAN, NEW vs, InMemory(vs, sg), NEW b, Represents(b, vs, sg),
         NEW d, Turned(vs, d), NEW lo \in Word, NEW hi \in Word,
         \A bi \in DOMAIN b.blocks : RoundsUp(BB(b, bi), BT(b, bi), lo)
  PROVE  /\ BlockedCountRange(b, lo, hi) = Cardinality(Inside(vs, d, lo, hi))
         /\ BlockedSumIf(b, lo, hi) = SumWrapped(Masked(vs, d, lo, hi))
  <1> DEFINE block == b.block
             n == Len(vs)
             nb == CeilDiv(n, block)
             A == [bi \in DOMAIN b.blocks |-> CountOf(b, bi, lo, hi)]
             B == [bi \in DOMAIN b.blocks |-> SumOf(b, bi, lo, hi)]
             s == Masked(vs, d, lo, hi)
             G == Inside(vs, d, lo, hi)
  <1>1. block \in Nat \ {0} /\ DOMAIN b.blocks = 1 .. nb
    BY DEF Represents
  <1>2. vs \in Seq(Int) /\ n \in Nat /\ n < Pow(K)
    BY FewElements DEF InMemory
  <1>3. d \in Int /\ d \in {0, Pow(K)} /\ lo \in Int /\ hi \in Int
    BY WrapFacts DEF Turned
  <1>4. nb \in Nat
    <2> HIDE DEF block, n
    <2> QED
      BY <1>1, <1>2, BlocksCover
  <1>5. BlockedCountRange(b, lo, hi) = IF lo > hi THEN 0 ELSE SumWrapped(A)
    BY DEF BlockedCountRange, CountOf
  <1>6. BlockedSumIf(b, lo, hi) = IF lo > hi THEN 0 ELSE SumWrapped(B)
    BY DEF BlockedSumIf, SumOf
  <1>7. CASE lo > hi
    <2>1. \A j \in 1 .. n : ~(lo <= vs[j] + d /\ vs[j] + d <= hi)
      <3> SUFFICES ASSUME NEW j \in 1 .. n PROVE ~(lo <= vs[j] + d /\ vs[j] + d <= hi)
        OBVIOUS
      <3> DEFINE v == vs[j] + d
      <3>1. v \in Int
        BY <1>2, <1>3
      <3> HIDE DEF v
      <3>2. ~(lo <= v /\ v <= hi)
        BY <1>3, <1>7, <3>1
      <3> QED
        BY <3>2 DEF v
    <2>2. Cardinality(G) = 0 /\ SumWrapped(s) = 0
      BY <1>2, <1>3, <2>1, NothingInside
    <2> HIDE DEF G, s, A, B
    <2>3. BlockedCountRange(b, lo, hi) = 0 /\ BlockedSumIf(b, lo, hi) = 0
      BY <1>5, <1>6, <1>7
    <2> QED
      BY <2>2, <2>3 DEF G, s
  <1>8. CASE ~(lo > hi)
    <2>1. ASSUME NEW bi \in 1 .. nb
          PROVE  /\ CountOf(b, bi, lo, hi) = Cardinality(
                      {j \in 1 .. UpTill(n, block, bi) - Before(block, bi) : Before(block, bi) + j \in G})
                 /\ CountOf(b, bi, lo, hi) \in Int
                 /\ SumOf(b, bi, lo, hi) \in Int
                 /\ Wrap(SumOf(b, bi, lo, hi)) = SumWrapped(Piece(s, block, bi))
      <3> DEFINE p == Piece(vs, block, bi)
      <3>1. bi \in DOMAIN b.blocks /\ p = Piece(vs, b.block, bi)
        BY <1>1
      <3> HIDE DEF p
      <3>2. Seen(b, bi, p, d) /\ BS(b, bi) = SumWrapped(p)
        BY <3>1, BlockSeen
      <3>3. lo <= hi /\ RoundsUp(BB(b, bi), BT(b, bi), lo)
        BY <1>3, <1>8, <3>1
      <3>4. CountOf(b, bi, lo, hi) = Cardinality(Inside(p, d, lo, hi))
        BY <1>3, <3>2, <3>3, BlockAnswers
      <3>5. SumOf(b, bi, lo, hi) \in Int
        BY <1>3, <3>2, <3>3, BlockAnswers
      <3>6. Wrap(SumOf(b, bi, lo, hi)) = SumWrapped(Masked(p, d, lo, hi))
        BY <1>3, <3>2, <3>3, BlockAnswers
      <3>7. bi \in 1 .. CeilDiv(Len(vs), block) /\ p = Piece(vs, block, bi)
        BY <3>1
      <3> HIDE DEF block
      <3>8. Piece(Masked(vs, d, lo, hi), block, bi) = Masked(p, d, lo, hi)
        BY <1>1, <1>2, <1>3, <3>7, PieceMasked
      <3>9. Inside(p, d, lo, hi) =
              {j \in 1 .. UpTill(Len(vs), block, bi) - Before(block, bi) :
                 Before(block, bi) + j \in Inside(vs, d, lo, hi)}
        BY <1>1, <1>2, <1>3, <3>7, PieceMasked
      <3>10. Cardinality(Inside(p, d, lo, hi)) \in Int
        <4>1. Inside(p, d, lo, hi) \in SUBSET (1 .. Len(p)) /\ Len(p) \in Nat
          BY <3>2 DEF Inside, Seen
        <4>2. IsFiniteSet(1 .. Len(p))
          BY <4>1, FS_Interval
        <4>3. IsFiniteSet(Inside(p, d, lo, hi))
          BY <4>1, <4>2, FS_Subset
        <4> QED
          BY <4>3, FS_CardinalityType
      <3> QED
        BY <3>4, <3>5, <3>6, <3>8, <3>9, <3>10
    <2>2. /\ A \in Seq(Int) /\ Len(A) = nb /\ \A bi \in 1 .. nb : A[bi] = CountOf(b, bi, lo, hi)
          /\ B \in Seq(Int) /\ Len(B) = nb /\ \A bi \in 1 .. nb : B[bi] = SumOf(b, bi, lo, hi)
      <3>1. A = [bi \in 1 .. nb |-> CountOf(b, bi, lo, hi)]
            /\ B = [bi \in 1 .. nb |-> SumOf(b, bi, lo, hi)]
        BY <1>1
      <3>2. \A bi \in 1 .. nb : CountOf(b, bi, lo, hi) \in Int /\ SumOf(b, bi, lo, hi) \in Int
        BY <2>1
      <3> HIDE DEF A, B, nb
      <3>3. A \in Seq(Int) /\ Len(A) = nb /\ \A bi \in 1 .. nb : A[bi] = CountOf(b, bi, lo, hi)
        BY <1>4, <3>1, <3>2
      <3>4. B \in Seq(Int) /\ Len(B) = nb /\ \A bi \in 1 .. nb : B[bi] = SumOf(b, bi, lo, hi)
        BY <1>4, <3>1, <3>2
      <3> QED
        BY <3>3, <3>4
    <2>3. s \in Seq(Int) /\ Len(s) = n /\ G \in SUBSET (1 .. n)
      <3>1. s \in Seq(Int) /\ Len(s) = n
        BY <1>2, <1>3, MaskedIs
      <3> QED
        BY <3>1 DEF Inside
    <2>4. nb = CeilDiv(n, block) /\ nb = CeilDiv(Len(s), block)
      BY <2>3
    <2> HIDE DEF A, B, s, G, nb, block, n
    <2>5. SumWrapped(A) = Cardinality(G)
      <3>1. CountedBy(A, G, n, block)
        BY <2>1, <2>2, <2>4 DEF CountedBy
      <3> QED
        BY <1>1, <1>2, <2>2, <2>3, <2>4, <3>1, CountsAddUp
    <2>6. SumWrapped(B) = SumWrapped(s)
      <3>1. \A bi \in 1 .. nb : Wrap(B[bi]) = SumWrapped(Piece(s, block, bi))
        BY <2>1, <2>2
      <3>2. /\ block \in Nat \ {0} /\ s \in Seq(Int) /\ B \in Seq(Int)
            /\ Len(B) = CeilDiv(Len(s), block)
            /\ \A bi \in 1 .. Len(B) : Wrap(B[bi]) = SumWrapped(Piece(s, block, bi))
        BY ONLY <1>1, <2>2, <2>3, <2>4, <3>1
      <3> QED
        BY ONLY <3>2, SumsAddUp
    <2> QED
      BY <1>5, <1>6, <1>8, <2>5, <2>6 DEF G, s
  <1> QED
    BY <1>7, <1>8

\* The search of s2r__blk_upper for the end of the indices that are at most kp.
Finds(f, s, kp) ==
  f = [w \in (0 .. Len(s)) \X (0 .. Len(s)) |->
        LET lo  == w[1]
            hi  == w[2]
            mid == lo + (hi - lo) \div 2
        IN  IF lo >= hi THEN lo
            ELSE IF s[mid + 1] > kp THEN f[<<lo, mid>>] ELSE f[<<mid + 1, hi>>]]

\* It is a search by halving.
LEMMA FindsHalving ==
  ASSUME NEW n \in Nat, NEW s \in Seq(Int), Len(s) = n, NEW kp \in Int,
         NEW G, G = {j \in 1 .. n : s[j] <= kp}, NEW f
  PROVE  Finds(f, s, kp) <=> Halving(f, n, G)
  <1> DEFINE One(w) == LET lo  == w[1]
                           hi  == w[2]
                           mid == lo + (hi - lo) \div 2
                       IN  IF lo >= hi THEN lo
                           ELSE IF s[mid + 1] > kp THEN f[<<lo, mid>>] ELSE f[<<mid + 1, hi>>]
             Two(w) == LET lo == w[1]
                           hi == w[2]
                           m  == lo + (hi - lo) \div 2
                       IN  IF lo >= hi THEN lo ELSE IF m + 1 \in G THEN f[<<m + 1, hi>>] ELSE f[<<lo, m>>]
  <1>1. \A j \in 1 .. n : s[j] \in Int
    OBVIOUS
  <1>2. ASSUME NEW w \in (0 .. n) \X (0 .. n) PROVE One(w) = Two(w)
    <2> DEFINE lo == w[1]
               hi == w[2]
               m == lo + (hi - lo) \div 2
    <2>1. lo \in 0 .. n /\ hi \in 0 .. n /\ lo \in Int /\ hi \in Int
      OBVIOUS
    <2>2. CASE lo >= hi
      BY <2>2
    <2>3. CASE ~(lo >= hi)
      <3>1. m + 1 \in 1 .. n
        <4> HIDE DEF lo, hi
        <4>1. lo < hi
          BY <2>1, <2>3
        <4>2. Mid(lo, hi) + 1 \in 1 .. n
          BY <2>1, <4>1, CutStep
        <4> QED
          BY <4>2 DEF Mid
      <3>2. m + 1 \in G <=> ~(s[m + 1] > kp)
        <4> HIDE DEF m
        <4>1. s[m + 1] \in Int
          BY <1>1, <3>1
        <4> QED
          BY <3>1, <4>1
      <3> HIDE DEF m
      <3>3. One(w) = (IF s[m + 1] > kp THEN f[<<lo, m>>] ELSE f[<<m + 1, hi>>])
        BY <2>3 DEF m
      <3>4. Two(w) = (IF m + 1 \in G THEN f[<<m + 1, hi>>] ELSE f[<<lo, m>>])
        BY <2>3 DEF m
      <3> HIDE DEF One, Two
      <3> QED
        BY <3>2, <3>3, <3>4
    <2> QED
      BY <2>2, <2>3
  <1>3. Finds(f, s, kp) <=> f = [w \in (0 .. n) \X (0 .. n) |-> One(w)]
    BY DEF Finds
  <1>4. Halving(f, n, G) <=> f = [w \in (0 .. n) \X (0 .. n) |-> Two(w)]
    BY DEF Halving
  <1> HIDE DEF One, Two
  <1>5. [w \in (0 .. n) \X (0 .. n) |-> One(w)] = [w \in (0 .. n) \X (0 .. n) |-> Two(w)]
    BY <1>2
  <1> QED
    BY <1>3, <1>4, <1>5

\* In a block recorded as sorted it counts the indices that are at most kp.
LEMMA BlkUpperCounts ==
  ASSUME NEW b, NEW bi, NEW s, s = View(b, bi), s \in Seq(Int), NEW n, n = Len(s),
         \A i, j \in 1 .. n : i <= j => s[i] <= s[j], NEW kp \in Int
  PROVE  /\ BlkUpper(b, bi, kp) = Cardinality({j \in 1 .. n : s[j] <= kp})
         /\ BlkUpper(b, bi, kp) \in Nat
  <1> DEFINE G == {j \in 1 .. n : s[j] <= kp}
             find == CHOOSE f : Finds(f, s, kp)
  <1>0. n \in Nat /\ \A j \in 1 .. n : s[j] \in Int
    OBVIOUS
  <1>1. G \in SUBSET (1 .. n) /\ \A j \in G : \A i \in 1 .. j : i \in G
    <2>1. G \in SUBSET (1 .. n)
      OBVIOUS
    <2>2. ASSUME NEW j \in G, NEW i \in 1 .. j PROVE i \in G
      <3>1. j \in 1 .. n /\ s[j] <= kp
        OBVIOUS
      <3>2. i \in 1 .. n /\ i <= j
        BY <1>0, <3>1
      <3>3. s[i] <= s[j] /\ s[i] \in Int /\ s[j] \in Int
        BY <1>0, <3>1, <3>2
      <3> QED
        BY <3>1, <3>2, <3>3
    <2> QED
      BY <2>1, <2>2
  <1>2. PICK c \in 0 .. n : G = 1 .. c
    BY <1>0, <1>1, DownClosed
  <1>3. \E f : Finds(f, s, kp)
    <2>1. PICK f : Halving(f, n, 1 .. c)
      BY <1>0, HalvingExists
    <2>2. G = {j \in 1 .. n : s[j] <= kp}
      OBVIOUS
    <2>3. Halving(f, n, G)
      BY <1>2, <2>1
    <2> HIDE DEF G
    <2>4. Finds(f, s, kp)
      BY <1>0, <2>2, <2>3, FindsHalving
    <2> QED
      BY <2>4
  <1>4. Finds(find, s, kp)
    BY <1>3
  <1>5. BlkUpper(b, bi, kp) = find[<<0, n>>]
    BY DEF BlkUpper, Finds
  <1>6. G = {j \in 1 .. n : s[j] <= kp}
    OBVIOUS
  <1> HIDE DEF find, G
  <1>7. Halving(find, n, 1 .. c)
    <2>1. Halving(find, n, G)
      BY <1>0, <1>4, <1>6, FindsHalving
    <2> QED
      BY <1>2, <2>1
  <1>8. find[<<0, n>>] = Cut(c, 0, n)
    BY <1>0, <1>7, HalvingIs
  <1>9. Cardinality(1 .. c) = c
    <2>1. Cardinality(1 .. c) = IF 1 > c THEN 0 ELSE c - 1 + 1
      BY FS_Interval
    <2> QED
      BY <2>1
  <1>10. Cut(c, 0, n) = c
    BY <1>0 DEF Cut
  <1>11. Cardinality({j \in 1 .. n : s[j] <= kp}) = c
    <2>1. {j \in 1 .. n : s[j] <= kp} = 1 .. c
      BY ONLY <1>2, <1>6
    <2> QED
      BY <1>9, <2>1
  <1>12. BlkUpper(b, bi, kp) = c /\ c \in Nat
    BY <1>5, <1>8, <1>10
  <1> QED
    BY <1>11, <1>12

\* What a block says of the values above a threshold.
GtOf(b, bi, thr) ==
  LET len == BlkLen(b, bi)
      w   == b.blocks[bi].width
      rem == (thr - BB(b, bi)) \div BT(b, bi)
  IN  IF BB(b, bi) > thr THEN len
      ELSE IF BP(b, bi) <= rem THEN 0
      ELSE IF b.blocks[bi].sorted /\ len * Bytes(w) >= BSearchMin
      THEN len - BlkUpper(b, bi, rem)
      ELSE CountIn(View(b, bi), rem + 1, Pow(K))

\* In a block recorded as sorted the indices rise.
LEMMA SortedRises ==
  ASSUME NEW b, NEW bi, NEW p, NEW d, Seen(b, bi, p, d), Ordered(p),
         NEW s, s = View(b, bi), NEW i \in 1 .. Len(p), NEW j \in 1 .. Len(p), i <= j
  PROVE  s[i] <= s[j]
  <1> DEFINE n == Len(p)
             st == BT(b, bi)
             base == BB(b, bi)
  <1>1. p \in Seq(Int) /\ n \in Nat /\ d \in Int
    BY DEF Seen
  <1>2. \A k \in 2 .. n : p[k - 1] <= p[k]
    BY DEF Ordered
  <1>3. \A k \in 1 .. n : p[k] \in Int
    BY <1>1
  <1>a. /\ BlkLen(b, bi) = n /\ base \in Nat /\ st \in Nat \ {0}
        /\ \A k \in 1 .. n : /\ Delta(b, bi, k) \in Nat
                             /\ p[k] + d = base + st * Delta(b, bi, k)
    BY DEF Seen
  <1> HIDE DEF n
  <1>4. p[i] <= p[j]
    <2> DEFINE S == {k \in 0 .. n : k < i \/ p[i] <= p[k]}
    <2>0. i \in 1 .. n /\ j \in 1 .. n
      BY DEF n
    <2>1. 0 \in S
      BY <1>1, <2>0
    <2>2. ASSUME NEW k \in 1 .. n, k - 1 \in S PROVE k \in S
      <3>1. CASE k < i
        BY <1>1, <3>1
      <3>2. CASE k = i
        BY <1>1, <1>3, <2>0, <3>2
      <3>3. CASE k > i
        <4>1. k - 1 \in 1 .. n /\ k \in 2 .. n /\ ~(k - 1 < i)
          BY <1>1, <2>0, <3>3
        <4>2. p[i] <= p[k - 1] /\ p[k - 1] <= p[k]
          BY <1>2, <2>2, <4>1
        <4>3. p[i] <= p[k]
          BY <1>3, <2>0, <4>1, <4>2
        <4> QED
          BY <4>3
      <3> QED
        BY <2>0, <3>1, <3>2, <3>3
    <2> HIDE DEF S
    <2>3. S = 0 .. n
      <3>1. S \in SUBSET (0 .. n)
        BY DEF S
      <3> QED
        BY <1>1, <2>1, <2>2, <3>1, UpTo
    <2>4. j \in S
      BY <1>1, <2>0, <2>3
    <2> QED
      BY <2>0, <2>4 DEF S
  <1> DEFINE x == Delta(b, bi, i)
             y == Delta(b, bi, j)
             g == st * x
             h == st * y
  <1>5. s[i] = x /\ s[j] = y
    BY <1>a DEF View, n
  <1>6. x \in Nat /\ y \in Nat /\ p[i] + d = base + g /\ p[j] + d = base + h
    BY <1>a DEF n
  <1>7. g \in Int /\ h \in Int /\ (g <= h <=> x <= y)
    <2> HIDE DEF x, y, st
    <2> QED
      BY <1>a, <1>6, FactorGrows
  <1>8. p[i] \in Int /\ p[j] \in Int /\ base \in Int
    BY <1>3, <1>a DEF n
  <1> HIDE DEF g, h, x, y, base
  <1>9. g <= h
    BY <1>1, <1>4, <1>6, <1>7, <1>8
  <1> QED
    BY <1>5, <1>7, <1>9

\* A block counts the values above a threshold as a scan does.
LEMMA GtBlock ==
  ASSUME NEW b, NEW bi, NEW p, NEW d, Seen(b, bi, p, d), d \in {0, Pow(K)},
         b.blocks[bi].sorted => Ordered(p), NEW thr \in Word, NEW above, above = thr + 1
  PROVE  /\ GtOf(b, bi, thr) = Cardinality(Inside(p, d, above, Pow(K)))
         /\ GtOf(b, bi, thr) \in Int
  <1> DEFINE base == BB(b, bi)
             st == BT(b, bi)
             sp == BP(b, bi)
             top == st * sp
             y == thr - base
             rem == y \div st
             n == Len(p)
             big == Pow(K)
             s == View(b, bi)
             G == Inside(p, d, above, big)
             long == n * Bytes(b.blocks[bi].width) >= BSearchMin
  <1>1. /\ base \in Nat /\ st \in Nat \ {0} /\ sp \in Nat /\ base + top < big /\ top \in Nat
        /\ BlkLen(b, bi) = n
    BY DEF Seen
  <1>2. p \in Seq(Int) /\ d \in Int /\ n \in Nat
    BY DEF Seen
  <1>3. thr \in Nat /\ above \in Nat /\ big \in Nat /\ above = thr + 1 /\ y \in Int
    <2>1. thr \in Nat /\ big \in Nat
      BY WrapFacts
    <2> HIDE DEF big
    <2> QED
      BY <1>1, <2>1
  <1>4. rem \in Int
    <2> HIDE DEF y
    <2> QED
      BY <1>1, <1>3, QuotientBounds
  <1>5. ASSUME NEW j \in 1 .. n
        PROVE  /\ Delta(b, bi, j) \in Nat /\ Delta(b, bi, j) <= sp /\ sp < big
               /\ p[j] + d \in Nat /\ base <= p[j] + d /\ p[j] + d <= base + top
               /\ (Delta(b, bi, j) <= rem <=> p[j] + d <= thr)
    <2> DEFINE x == Delta(b, bi, j)
               v == p[j] + d
               g == st * x
    <2>1. x \in Nat /\ x <= sp /\ v = base + g /\ v \in Nat
      BY DEF Seen
    <2>2. g \in Nat /\ g <= top
      <3> HIDE DEF x, st, sp
      <3>1. st * x <= st * sp
        BY <1>1, <2>1, FactorGrows
      <3> QED
        BY <1>1, <2>1, <3>1
    <2>3. sp <= top
      <3> HIDE DEF st, sp
      <3>1. 1 * sp <= st * sp
        <4>1. sp * 1 <= sp * st \/ sp = 0
          BY <1>1, FactorGrows
        <4> QED
          BY <1>1, <4>1
      <3> QED
        BY <1>1, <3>1
    <2>4. x <= rem <=> g <= y
      <3>1. st \in Nat \ {0} /\ y \in Int /\ x \in Int
        BY <1>1, <1>3, <2>1
      <3> HIDE DEF x, y, st
      <3>2. x <= (y \div st) <=> st * x <= y
        BY ONLY <3>1, QuotientBounds
      <3> QED
        BY <3>2
    <2> HIDE DEF g, v, base, top, big, x, rem
    <2>5. g <= y <=> v <= thr
      BY <1>1, <1>3, <2>1, <2>2
    <2>6. base <= v /\ v <= base + top /\ sp < big
      BY <1>1, <1>3, <2>1, <2>2, <2>3
    <2> QED
      BY <2>1, <2>4, <2>5, <2>6 DEF x, v
  <1>6. GtOf(b, bi, thr) =
          IF base > thr THEN n
          ELSE IF sp <= rem THEN 0
          ELSE IF b.blocks[bi].sorted /\ long THEN n - BlkUpper(b, bi, rem)
          ELSE CountIn(s, rem + 1, big)
    BY <1>1 DEF GtOf
  <1>7. IsFiniteSet(G) /\ Cardinality(G) \in Int
    <2>1. G \in SUBSET (1 .. n)
      BY DEF Inside
    <2>2. IsFiniteSet(1 .. n)
      BY <1>2, FS_Interval
    <2>3. IsFiniteSet(G)
      BY <2>1, <2>2, FS_Subset
    <2> HIDE DEF G
    <2> QED
      BY <2>3, FS_CardinalityType
  <1>8. ASSUME NEW j \in 1 .. n PROVE j \in G <=> ~(Delta(b, bi, j) <= rem)
    <2> DEFINE v == p[j] + d
    <2>1. v \in Nat /\ v <= base + top /\ (Delta(b, bi, j) <= rem <=> v <= thr)
      BY <1>5
    <2>2. j \in G <=> (above <= v /\ v <= big)
      BY DEF Inside
    <2> HIDE DEF v, base, top, big, G, rem
    <2>3. above <= v <=> ~(v <= thr)
      BY <1>3, <2>1
    <2>4. v <= big
      BY <1>1, <1>3, <2>1
    <2> QED
      BY <2>1, <2>2, <2>3, <2>4
  <1>9. G \in SUBSET (1 .. n)
    BY DEF Inside
  <1> HIDE DEF long
  <1>10. CASE base > thr
    <2>1. GtOf(b, bi, thr) = n
      BY <1>6, <1>10
    <2>2. \A j \in 1 .. n : above <= p[j] + d /\ p[j] + d <= big
      <3> SUFFICES ASSUME NEW j \in 1 .. n PROVE above <= p[j] + d /\ p[j] + d <= big
        OBVIOUS
      <3> DEFINE v == p[j] + d
      <3>1. v \in Nat /\ base <= v /\ v <= base + top
        BY <1>5
      <3> HIDE DEF v, base, top, big
      <3>2. above <= v /\ v <= big
        BY <1>1, <1>3, <1>10, <3>1
      <3> QED
        BY <3>2 DEF v
    <2>3. above \in Int /\ big \in Int
      BY <1>3
    <2>4. Cardinality(G) = n
      <3> HIDE DEF big
      <3> QED
        BY <1>2, <2>2, <2>3, AllInside
    <2> QED
      BY <1>2, <2>1, <2>4
  <1>11. CASE ~(base > thr) /\ sp <= rem
    <2>1. GtOf(b, bi, thr) = 0
      <3> HIDE DEF base, sp, rem
      <3> QED
        BY <1>6, <1>11
    <2>2. ASSUME NEW j \in G PROVE FALSE
      <3>1. j \in 1 .. n
        BY <1>9
      <3> DEFINE x == Delta(b, bi, j)
      <3>2. x \in Nat /\ x <= sp /\ ~(x <= rem)
        BY <1>5, <1>8, <3>1
      <3> HIDE DEF x, sp, rem
      <3> QED
        BY <1>1, <1>4, <1>11, <3>2
    <2>3. G = {}
      BY <2>2
    <2> HIDE DEF G
    <2>4. Cardinality(G) = 0
      BY <2>3, FS_EmptySet
    <2> QED
      BY <2>1, <2>4 DEF G
  <1>12. CASE ~(base > thr) /\ ~(sp <= rem) /\ ~(b.blocks[bi].sorted /\ long)
    <2>1. GtOf(b, bi, thr) = CountIn(s, rem + 1, big)
      <3> HIDE DEF base, sp, rem, s, big
      <3> QED
        BY <1>6, <1>12
    <2>2. Picks(b, bi, p, d, above, big, rem + 1, big)
      <3>1. ASSUME NEW j \in 1 .. n
            PROVE  (above <= p[j] + d /\ p[j] + d <= big)
                     <=> (rem + 1 <= Delta(b, bi, j) /\ Delta(b, bi, j) <= big)
        <4> DEFINE x == Delta(b, bi, j)
        <4>1. x \in Nat /\ x <= sp /\ sp < big /\ (j \in G <=> ~(x <= rem))
          BY <1>5, <1>8
        <4>2. j \in G <=> (above <= p[j] + d /\ p[j] + d <= big)
          BY DEF Inside
        <4> HIDE DEF x, G, sp, rem, big
        <4>3. ~(x <= rem) <=> (rem + 1 <= x /\ x <= big)
          BY <1>1, <1>3, <1>4, <4>1
        <4> QED
          BY <4>1, <4>2, <4>3 DEF x
      <3> HIDE DEF rem, big
      <3> QED
        BY <3>1 DEF Picks
    <2>3. CountIn(s, rem + 1, big) = Cardinality(G)
      <3> DEFINE a == rem + 1
      <3>1. Picks(b, bi, p, d, above, big, a, big) /\ above \in Int /\ big \in Int
        BY <1>3, <2>2
      <3> HIDE DEF a, big
      <3>2. CountIn(View(b, bi), a, big) = Cardinality(Inside(p, d, above, big))
        BY ONLY <3>1, Seen(b, bi, p, d), d \in {0, Pow(K)}, KernelBlock
      <3> QED
        BY <3>2 DEF a
    <2> HIDE DEF G, rem, s
    <2> QED
      BY <1>7, <2>1, <2>3 DEF G
  <1>13. CASE ~(base > thr) /\ ~(sp <= rem) /\ b.blocks[bi].sorted /\ long
    <2>1. GtOf(b, bi, thr) = n - BlkUpper(b, bi, rem)
      <3> HIDE DEF base, sp, rem, s, big
      <3> QED
        BY <1>6, <1>13
    <2> DEFINE H == {j \in 1 .. n : s[j] <= rem}
    <2>2. s \in Seq(Int) /\ Len(s) = n /\ \A j \in 1 .. n : s[j] = Delta(b, bi, j)
      <3>1. s = [j \in 1 .. n |-> Delta(b, bi, j)]
        BY <1>1 DEF View
      <3>2. \A j \in 1 .. n : Delta(b, bi, j) \in Int
        BY <1>5
      <3> HIDE DEF s, n
      <3> QED
        BY <1>2, <3>1, <3>2
    <2>3. \A i, j \in 1 .. n : i <= j => s[i] <= s[j]
      <3> SUFFICES ASSUME NEW i \in 1 .. n, NEW j \in 1 .. n, i <= j PROVE s[i] <= s[j]
        OBVIOUS
      <3>1. Ordered(p) /\ s = View(b, bi)
        BY <1>13
      <3> HIDE DEF s
      <3> QED
        BY <3>1, SortedRises
    <2>4. BlkUpper(b, bi, rem) = Cardinality(H)
      <3>1. s = View(b, bi) /\ n = Len(s)
        BY <2>2
      <3> HIDE DEF s, n, rem
      <3> QED
        BY <1>4, <2>2, <2>3, <3>1, BlkUpperCounts
    <2>5. H \in SUBSET (1 .. n) /\ G = (1 .. n) \ H
      <3>1. \A j \in 1 .. n : j \in G <=> ~(j \in H)
        BY <1>8, <2>2
      <3>2. H \in SUBSET (1 .. n)
        OBVIOUS
      <3> HIDE DEF G, H, n
      <3> QED
        BY <1>9, <3>1, <3>2
    <2> HIDE DEF H, G, s, rem, n
    <2>6. IsFiniteSet(1 .. n) /\ Cardinality(1 .. n) = n
      <3>1. IsFiniteSet(1 .. n) /\ Cardinality(1 .. n) = IF 1 > n THEN 0 ELSE n - 1 + 1
        <4>1. 1 \in Int /\ n \in Int
          BY <1>2
        <4> QED
          BY ONLY <4>1, FS_Interval
      <3> QED
        BY <1>2, <3>1
    <2>7. Cardinality((1 .. n) \ H) = Cardinality(1 .. n) - Cardinality((1 .. n) \cap H)
      BY <2>6, FS_Difference
    <2>8. (1 .. n) \cap H = H
      BY <2>5
    <2>9. Cardinality(G) = n - Cardinality(H)
      BY <2>5, <2>6, <2>7, <2>8
    <2> QED
      BY <1>7, <2>1, <2>4, <2>9 DEF G
  <1> QED
    BY <1>10, <1>11, <1>12, <1>13

\* A block-wise column counts the values above a threshold as a scan does.
LEMMA GtExact ==
  ASSUME NEW sg \in BOOLEAN, NEW vs, InMemory(vs, sg), NEW b, Represents(b, vs, sg),
         NEW d, Turned(vs, d), NEW thr \in Word, NEW above, above = thr + 1
  PROVE  BlockedCountGt(b, thr) = Cardinality(Inside(vs, d, above, Pow(K)))
  <1> DEFINE block == b.block
             n == Len(vs)
             nb == CeilDiv(n, block)
             big == Pow(K)
             A == [bi \in DOMAIN b.blocks |-> GtOf(b, bi, thr)]
             G == Inside(vs, d, above, big)
  <1>1. block \in Nat \ {0} /\ DOMAIN b.blocks = 1 .. nb
    BY DEF Represents
  <1>2. vs \in Seq(Int) /\ n \in Nat /\ n < Pow(K)
    BY FewElements DEF InMemory
  <1>3. d \in Int /\ d \in {0, Pow(K)} /\ above \in Int /\ big \in Int
    <2>1. thr \in Int /\ Pow(K) \in Int
      BY WrapFacts
    <2> QED
      BY <2>1 DEF Turned
  <1>4. nb \in Nat
    <2> HIDE DEF block, n
    <2> QED
      BY <1>1, <1>2, BlocksCover
  <1>5. BlockedCountGt(b, thr) = SumWrapped(A)
    BY DEF BlockedCountGt, GtOf
  <1>6. ASSUME NEW bi \in 1 .. nb
        PROVE  /\ GtOf(b, bi, thr) = Cardinality(
                    {j \in 1 .. UpTill(n, block, bi) - Before(block, bi) : Before(block, bi) + j \in G})
               /\ GtOf(b, bi, thr) \in Int
    <2> DEFINE p == Piece(vs, block, bi)
    <2>1. bi \in DOMAIN b.blocks /\ p = Piece(vs, b.block, bi)
      BY <1>1
    <2> HIDE DEF p
    <2>2. Seen(b, bi, p, d) /\ b.blocks[bi].sorted = Ordered(p)
      BY <2>1, BlockSeen
    <2>3. GtOf(b, bi, thr) = Cardinality(Inside(p, d, above, Pow(K))) /\ GtOf(b, bi, thr) \in Int
      BY <1>3, <2>2, GtBlock
    <2>4. bi \in 1 .. CeilDiv(Len(vs), block) /\ p = Piece(vs, block, bi)
      BY <2>1 DEF p
    <2> HIDE DEF block, big
    <2>5. Inside(p, d, above, big) =
            {j \in 1 .. UpTill(Len(vs), block, bi) - Before(block, bi) :
               Before(block, bi) + j \in Inside(vs, d, above, big)}
      BY <1>1, <1>2, <1>3, <2>4, PieceMasked
    <2> QED
      BY <2>3, <2>5 DEF big
  <1>7. A \in Seq(Int) /\ Len(A) = nb /\ \A bi \in 1 .. nb : A[bi] = GtOf(b, bi, thr)
    <2>1. A = [bi \in 1 .. nb |-> GtOf(b, bi, thr)]
      BY <1>1
    <2>2. \A bi \in 1 .. nb : GtOf(b, bi, thr) \in Int
      BY <1>6
    <2> HIDE DEF A, nb
    <2> QED
      BY <1>4, <2>1, <2>2
  <1>8. G \in SUBSET (1 .. n) /\ nb = CeilDiv(n, block)
    BY DEF Inside
  <1>9. SumWrapped(A) = Cardinality(G)
    <2> HIDE DEF A, G, nb, block, n
    <2>1. CountedBy(A, G, n, block)
      BY <1>6, <1>7, <1>8 DEF CountedBy
    <2> QED
      BY <1>1, <1>2, <1>7, <1>8, <2>1, CountsAddUp
  <1> QED
    BY <1>5, <1>9

\* An array of words stands as it is, and no sum of words' rounding up at zero wraps.
LEMMA UnsignedStands ==
  ASSUME NEW vs, InMemory(vs, FALSE), NEW b, Represents(b, vs, FALSE)
  PROVE  /\ Turned(vs, 0) /\ \A i \in 1 .. Len(vs) : vs[i] \in Nat /\ vs[i] < Pow(K)
         /\ \A bi \in DOMAIN b.blocks : RoundsUp(BB(b, bi), BT(b, bi), 0)
  <1>1. vs \in Seq(Int) /\ \A i \in DOMAIN vs : vs[i] \in Word
    BY DEF InMemory
  <1>2. \A i \in DOMAIN vs : vs[i] + 0 \in Word /\ vs[i] \in Nat /\ vs[i] < Pow(K)
    <2> SUFFICES ASSUME NEW i \in DOMAIN vs
                 PROVE  vs[i] + 0 \in Word /\ vs[i] \in Nat /\ vs[i] < Pow(K)
      OBVIOUS
    <2>1. vs[i] \in Word
      BY <1>1
    <2>2. vs[i] \in Nat /\ vs[i] < Pow(K) /\ vs[i] + 0 = vs[i]
      BY <2>1, WrapFacts DEF Word
    <2> QED
      BY <2>1, <2>2
  <1>3. Turned(vs, 0)
    BY <1>2 DEF Turned
  <1>4. ASSUME NEW bi \in DOMAIN b.blocks PROVE RoundsUp(BB(b, bi), BT(b, bi), 0)
    <2>1. Seen(b, bi, Piece(vs, b.block, bi), 0)
      BY <1>3, BlockSeen
    <2>2. BB(b, bi) \in Nat
      BY <2>1 DEF Seen
    <2>3. 0 <= BB(b, bi)
      BY <2>2
    <2> QED
      BY <2>3 DEF RoundsUp
  <1>5. DOMAIN vs = 1 .. Len(vs)
    BY <1>1
  <1> QED
    BY <1>2, <1>3, <1>4, <1>5

\* Seen as words, values and bounds of one sign are moved by nothing or by one turn.
LEMMA OneTurn ==
  ASSUME NEW S \in SUBSET Int64, OneSign(S)
  PROVE  \E d \in {0, Pow(K)} : \A v \in S : U64(v) = v + d /\ v + d \in Word
  <1>1. K \in Classes /\ Pow(K) \in Int
    BY Conversions, WrapFacts
  <1>2. ASSUME NEW v \in S
        PROVE  v \in Int /\ U64(v) \in Word /\ U64(v) = IF v >= 0 THEN v ELSE v + Pow(K)
    <2>0. v \in Int64
      OBVIOUS
    <2>1. v \in Int /\ -Half[K] <= v /\ v < Half[K]
      BY <2>0, Conversions DEF Int64
    <2>2. U64(v) = IF v >= 0 THEN v ELSE v + Pow(K)
      BY <1>1, <2>1, SignExtended DEF U64
    <2> QED
      BY <2>1, <2>2, Conversions
  <1>3. CASE \A v \in S : v >= 0
    <2>1. ASSUME NEW v \in S PROVE U64(v) = v + 0 /\ v + 0 \in Word
      BY <1>2, <1>3
    <2> QED
      BY <2>1
  <1>4. CASE \A v \in S : v < 0
    <2>1. ASSUME NEW v \in S PROVE U64(v) = v + Pow(K) /\ v + Pow(K) \in Word
      <3>1. ~(v >= 0)
        BY <1>2, <1>4
      <3> QED
        BY <1>2, <3>1
    <2> QED
      BY <2>1
  <1> QED
    BY <1>3, <1>4 DEF OneSign

-----------------------------------------------------------------------------
(* The body of a file.                                                      *)

\* What of a column the file holds: numbers that fit the classes they are kept in.
Filed(c, nb) ==
  /\ nb \in Nat /\ c.bytes \in Nat
  /\ c.blocks = [bi \in 1 .. nb |-> c.blocks[bi]]
  /\ {c.bcls, c.pcls, c.ocls, c.scls} \subseteq Classes /\ c.has_stride \in BOOLEAN
  /\ c.has_stride => c.tcls \in Classes
  /\ \A bi \in 1 .. nb :
       /\ c.blocks[bi].width \in 0 .. K /\ c.blocks[bi].sorted \in BOOLEAN
       /\ c.blocks[bi].base \in Nat /\ c.blocks[bi].base < Pow(c.bcls)
       /\ c.blocks[bi].span \in Nat /\ c.blocks[bi].span < Pow(c.pcls)
       /\ c.blocks[bi].off \in Nat /\ c.blocks[bi].off < Pow(c.ocls)
       /\ c.blocks[bi].sum \in Nat /\ c.blocks[bi].sum < Pow(c.scls)
       /\ c.blocks[bi].stride \in Nat
       /\ c.has_stride => c.blocks[bi].stride < Pow(c.tcls)
  /\ \A a \in 0 .. c.bytes - 1 : c.data[a] \in Nat

\* A class is chosen even for no numbers at all.
LEMMA ClassChosen ==
  ASSUME NEW sg \in BOOLEAN, NEW ns, \A m \in ns : m \in (IF sg THEN Int64 ELSE Word)
  PROVE  ClassOf(sg, ns) \in Classes
  <1>1. K \in Classes /\ Pow(K) = 2 * Half[K] /\ Half[K] \in Nat \ {0}
    BY Conversions DEF Pow
  <1>2. CASE sg
    <2>1. SFits(K, ns)
      BY <1>1, <1>2 DEF SFits, Int64
    <2> QED
      BY <1>1, <1>2, <2>1, ClassifySignedFits DEF ClassOf
  <1>3. CASE ~sg
    <2>1. UFits(K, ns)
      BY <1>1, <1>3 DEF UFits, Word
    <2> QED
      BY <1>1, <1>3, <2>1, ClassifyFits DEF ClassOf
  <1> QED
    BY <1>2, <1>3

\* What a block wrote is a number.
LEMMA PayloadNumbers ==
  ASSUME NEW nb \in Nat, NEW fr, Shaped(fr, nb), NEW bytes \in Nat,
         \A bi \in 1 .. nb : fr[bi].index \in Seq(Nat), NEW a \in 0 .. bytes - 1
  PROVE  Payload(fr, bytes)[a] \in Nat
  <1> DEFINE At(x, k) == Offset(fr, x) + (k - 1) * Bytes(fr[x].width)
             Val(x, k) == Raw(fr[x].width, fr[x].index[k])
             Of(x) == {<<At(x, k), Val(x, k)>> : k \in DOMAIN fr[x].index}
             stored == {x \in DOMAIN fr : fr[x].width # 0}
             written == UNION {Of(x) : x \in stored}
             at(i) == {w \in written : w[1] = i}
             P == [i \in 0 .. bytes - 1 |-> IF at(i) = {} THEN 0 ELSE (CHOOSE w \in at(i) : TRUE)[2]]
  <1>1. Payload(fr, bytes) = P
    BY DEF Payload
  <1>2. ASSUME NEW x \in stored, NEW k \in DOMAIN fr[x].index PROVE Val(x, k) \in Nat
    <2>1. x \in 1 .. nb /\ fr[x].width \in Classes /\ fr[x].index \in Seq(Nat)
      BY DEF Shaped, Classes
    <2>2. fr[x].index[k] \in Int
      BY <2>1
    <2>3. Raw(fr[x].width, fr[x].index[k]) \in Word
      BY <2>1, <2>2, RawRange
    <2> QED
      BY <2>3, Conversions
  <1> HIDE DEF At, Val
  <1>3. ASSUME NEW w \in written PROVE w[2] \in Nat
    <2>1. PICK x \in stored : w \in Of(x)
      OBVIOUS
    <2>2. PICK k \in DOMAIN fr[x].index : w = <<At(x, k), Val(x, k)>>
      BY <2>1
    <2> QED
      BY <1>2, <2>2
  <1> HIDE DEF written
  <1>4. P[a] = IF at(a) = {} THEN 0 ELSE (CHOOSE w \in at(a) : TRUE)[2]
    <2> HIDE DEF at
    <2> QED
      OBVIOUS
  <1>5. at(a) # {} => (CHOOSE w \in at(a) : TRUE) \in written
    <2>1. at(a) # {} => (CHOOSE w \in at(a) : TRUE) \in at(a)
      <3> HIDE DEF at
      <3> QED
        OBVIOUS
    <2> QED
      BY <2>1
  <1> HIDE DEF at, P
  <1> QED
    BY <1>1, <1>3, <1>4, <1>5
\* A column that was built is one a file can hold.
LEMMA BuiltFiled ==
  ASSUME NEW sg \in BOOLEAN, NEW vs, InMemory(vs, sg), NEW block \in Nat,
         NEW b, b = BlockedOf(vs, sg, block), b.block + Len(vs) <= Pow(K)
  PROVE  Filed(b, CeilDiv(Len(vs), b.block))
  <1> DEFINE blkn  == IF block = 0 THEN BlockDefault ELSE block
             fr    == Frames(vs, blkn)
             nb    == CeilDiv(Len(vs), blkn)
             total == PayloadEnd(fr)[Len(fr)]
             bases == {fr[bi].base : bi \in DOMAIN fr}
             sums  == {IF sg THEN I64(u) ELSE u : u \in {fr[bi].sum : bi \in DOMAIN fr}}
             spans == {fr[bi].span : bi \in DOMAIN fr}
             steps == {fr[bi].stride : bi \in DOMAIN fr}
             bcls  == ClassOf(sg, bases)
             scls  == ClassOf(sg, sums)
             pcls  == Classify(spans)
             tcls  == Classify(steps)
             ocls  == Classify({total})
             row(bi) == [width |-> fr[bi].width, sorted |-> fr[bi].sorted,
                         off |-> Raw(ocls, Offset(fr, bi)), base |-> Raw(bcls, fr[bi].base),
                         span |-> Raw(pcls, fr[bi].span), sum |-> Raw(scls, fr[bi].sum),
                         stride |-> Raw(tcls, fr[bi].stride)]
  <1>1. /\ b.block = blkn /\ b.bcls = bcls /\ b.scls = scls /\ b.pcls = pcls /\ b.ocls = ocls
        /\ b.tcls = IF fr = <<>> THEN 0 ELSE tcls
        /\ b.has_stride = \E bi \in DOMAIN fr : fr[bi].stride > 1
        /\ b.bytes = total /\ b.data = Payload(fr, total)
        /\ b.blocks = [bi \in DOMAIN fr |-> row(bi)]
    <2>1. {(IF sg THEN I64(fr[bi].sum) ELSE fr[bi].sum) : bi \in DOMAIN fr} = sums
      OBVIOUS
    <2> QED
      BY <2>1 DEF BlockedOf, FrameClass
  <1>2. blkn \in Nat \ {0} /\ nb = CeilDiv(Len(vs), blkn) /\ fr = Blocks(vs, blkn)
    <2>1. blkn \in Nat \ {0} /\ Len(vs) \in Nat /\ blkn + Len(vs) <= Pow(K)
      BY <1>1, BlockAssumption DEF InMemory
    <2> HIDE DEF blkn
    <2>2. Frames(vs, blkn) = Blocks(vs, blkn)
      BY <2>1, FramesCut
    <2> QED
      BY <2>1, <2>2
  <1>x. fr = <<>> => DOMAIN fr = {}
    OBVIOUS
  <1> HIDE DEF blkn, nb, fr
  <1>3. nb \in Nat /\ Shaped(fr, nb)
    BY <1>2, FramesAre
  <1>4. Len(fr) = nb /\ DOMAIN fr = 1 .. nb
    BY <1>3 DEF Shaped
  <1>5. total = PayloadEnd(fr)[nb] /\ total \in Word
    <2>1. PayloadEnd(fr)[nb] \in Word
      BY <1>2, TotalFits
    <2> QED
      BY <1>4, <2>1
  <1>6. \A bi \in 1 .. nb : /\ fr[bi].base \in (IF sg THEN Int64 ELSE Word)
                            /\ fr[bi].span \in Word /\ fr[bi].stride \in Word
                            /\ fr[bi].sum \in Word
    BY <1>2, FrameNumbers
  <1>7. ASSUME NEW bi \in 1 .. nb
        PROVE  /\ fr[bi].width \in 0 .. K /\ fr[bi].sorted \in BOOLEAN
               /\ fr[bi].base \in Int /\ fr[bi].index \in Seq(Nat)
    <2>1. Describes(fr[bi], Piece(vs, blkn, bi))
      BY <1>2, FramesAre
    <2> QED
      BY <2>1 DEF Describes, Ordered
  <1> HIDE DEF total
  <1>8. bcls \in Classes /\ scls \in Classes /\ pcls \in Classes /\ tcls \in Classes /\ ocls \in Classes
    <2>1. \A m \in bases : m \in (IF sg THEN Int64 ELSE Word)
      BY <1>4, <1>6
    <2>2. \A m \in sums : m \in (IF sg THEN Int64 ELSE Word)
      BY <1>4, <1>6, Conversions
    <2>3. \A m \in spans : m \in Word
      BY <1>4, <1>6
    <2>4. \A m \in steps : m \in Word
      BY <1>4, <1>6
    <2> HIDE DEF bases, sums, spans, steps
    <2>5. bcls \in Classes /\ scls \in Classes
      BY <2>1, <2>2, ClassChosen
    <2>6. K \in Classes /\ Pow(K) \in Nat
      BY Conversions, PowFacts
    <2>7. UFits(K, spans) /\ UFits(K, steps) /\ UFits(K, {total})
      BY <1>5, <2>3, <2>4, <2>6 DEF UFits, Word
    <2>8. pcls \in Classes /\ tcls \in Classes /\ ocls \in Classes
      BY <2>6, <2>7, ClassifyFits
    <2> QED
      BY <2>5, <2>8
  <1> HIDE DEF bcls, scls, pcls, tcls, ocls
  <1>9. ASSUME NEW bi \in 1 .. nb
        PROVE  /\ b.blocks[bi].width \in 0 .. K /\ b.blocks[bi].sorted \in BOOLEAN
               /\ b.blocks[bi].base \in Nat /\ b.blocks[bi].base < Pow(bcls)
               /\ b.blocks[bi].span \in Nat /\ b.blocks[bi].span < Pow(pcls)
               /\ b.blocks[bi].off \in Nat /\ b.blocks[bi].off < Pow(ocls)
               /\ b.blocks[bi].sum \in Nat /\ b.blocks[bi].sum < Pow(scls)
               /\ b.blocks[bi].stride \in Nat /\ b.blocks[bi].stride < Pow(tcls)
    <2>1. b.blocks[bi] = row(bi)
      BY <1>1, <1>4
    <2>2. fr[bi].base \in Int /\ fr[bi].span \in Int /\ fr[bi].stride \in Int /\ fr[bi].sum \in Int
      <3>1. fr[bi].base \in Int
        BY <1>7
      <3>2. fr[bi].span \in Word /\ fr[bi].stride \in Word /\ fr[bi].sum \in Word
        BY <1>6
      <3>3. fr[bi].span \in Nat /\ fr[bi].stride \in Nat /\ fr[bi].sum \in Nat
        BY <3>2, WrapFacts
      <3> QED
        BY <3>1, <3>3
    <2>3. Offset(fr, bi) \in Int
      <3>1. fr[bi].width # 0 => Offset(fr, bi) \in Nat
        BY <1>3, BlocksApart1
      <3> QED
        BY <3>1 DEF Offset
    <2>4. \A c \in Classes : \A v \in Int : Raw(c, v) \in Nat /\ Raw(c, v) < Pow(c)
      BY RawRange, Conversions
    <2>5. /\ Raw(bcls, fr[bi].base) \in Nat /\ Raw(bcls, fr[bi].base) < Pow(bcls)
          /\ Raw(pcls, fr[bi].span) \in Nat /\ Raw(pcls, fr[bi].span) < Pow(pcls)
          /\ Raw(ocls, Offset(fr, bi)) \in Nat /\ Raw(ocls, Offset(fr, bi)) < Pow(ocls)
          /\ Raw(scls, fr[bi].sum) \in Nat /\ Raw(scls, fr[bi].sum) < Pow(scls)
          /\ Raw(tcls, fr[bi].stride) \in Nat /\ Raw(tcls, fr[bi].stride) < Pow(tcls)
      BY <1>8, <2>2, <2>3, <2>4
    <2> QED
      BY <1>7, <2>1, <2>5
  <1>10. b.has_stride \in BOOLEAN /\ (b.has_stride => b.tcls \in Classes /\ b.tcls = tcls)
    <2>1. b.has_stride \in BOOLEAN
      BY <1>1
    <2>2. b.has_stride => fr # <<>>
      BY <1>1, <1>x
    <2> QED
      BY <1>1, <1>8, <2>1, <2>2
  <1>11. b.bytes \in Nat /\ \A a \in 0 .. b.bytes - 1 : b.data[a] \in Nat
    <2>1. total \in Nat
      BY <1>5, WrapFacts
    <2>2. \A bi \in 1 .. nb : fr[bi].index \in Seq(Nat)
      BY <1>7
    <2>3. \A a \in 0 .. total - 1 : Payload(fr, total)[a] \in Nat
      BY <1>3, <2>1, <2>2, PayloadNumbers
    <2> QED
      BY <1>1, <2>1, <2>3
  <1>12. b.blocks = [bi \in 1 .. nb |-> b.blocks[bi]]
    BY <1>1, <1>4
  <1>13. CeilDiv(Len(vs), b.block) = nb
    BY <1>1, <1>2
  <1>14. {b.bcls, b.pcls, b.ocls, b.scls} \subseteq Classes
    BY <1>1, <1>8
  <1>15. \A bi \in 1 .. nb :
           /\ b.blocks[bi].width \in 0 .. K /\ b.blocks[bi].sorted \in BOOLEAN
           /\ b.blocks[bi].base \in Nat /\ b.blocks[bi].base < Pow(b.bcls)
           /\ b.blocks[bi].span \in Nat /\ b.blocks[bi].span < Pow(b.pcls)
           /\ b.blocks[bi].off \in Nat /\ b.blocks[bi].off < Pow(b.ocls)
           /\ b.blocks[bi].sum \in Nat /\ b.blocks[bi].sum < Pow(b.scls)
           /\ b.blocks[bi].stride \in Nat
           /\ b.has_stride => b.blocks[bi].stride < Pow(b.tcls)
    BY <1>1, <1>9, <1>10
  <1> QED
    BY <1>3, <1>10, <1>11, <1>12, <1>13, <1>14, <1>15 DEF Filed

-----------------------------------------------------------------------------
(* What was written to a file is what is read back from it.                 *)

\* The items of t stand in r after its first `at` items.
Carries(r, at, t) == \A i \in 1 .. Len(t) : r[at + i] = t[i]

\* Two pieces joined: where each of them stands.
LEMMA Joined ==
  ASSUME NEW S, NEW s \in Seq(S), NEW t \in Seq(S), NEW r, r = s \o t
  PROVE  r \in Seq(S) /\ Len(r) = Len(s) + Len(t)
         /\ \A R : Carries(R, 0, r) => Carries(R, 0, s) /\ Carries(R, Len(s), t)
  <1>1. r \in Seq(S) /\ Len(r) = Len(s) + Len(t) /\ Len(s) \in Nat /\ Len(t) \in Nat
    OBVIOUS
  <1>2. \A i \in 1 .. Len(s) : r[i] = s[i]
    OBVIOUS
  <1>3. \A i \in 1 .. Len(t) : r[Len(s) + i] = t[i]
    OBVIOUS
  <1>4. ASSUME NEW R, Carries(R, 0, r)
        PROVE  Carries(R, 0, s) /\ Carries(R, Len(s), t)
    <2>1. \A i \in 1 .. Len(r) : R[i] = r[i]
      BY <1>1, <1>4 DEF Carries
    <2>2. ASSUME NEW i \in 1 .. Len(s)
          PROVE  R[0 + i] = s[i]
      BY <1>1, <1>2, <2>1
    <2>3. ASSUME NEW i \in 1 .. Len(t)
          PROVE  R[Len(s) + i] = t[i]
      <3>1. Len(s) + i \in 1 .. Len(r)
        BY <1>1
      <3> QED
        BY <1>3, <2>1, <3>1
    <2> QED
      BY <2>2, <2>3 DEF Carries
  <1> HIDE DEF Carries
  <1> QED
    BY <1>1, <1>4

\* A stretch of items after the first `at` of a sequence.
LEMMA CutOut ==
  ASSUME NEW S, NEW s \in Seq(S), NEW at \in Nat, NEW eb \in Nat, at + eb <= Len(s)
  PROVE  /\ SubSeq(s, at + 1, at + eb) \in [1 .. eb -> S]
         /\ \A j \in 1 .. eb : SubSeq(s, at + 1, at + eb)[j] = s[at + j]
  <1> DEFINE m == at + 1
             n == at + eb
  <1>1. m \in Nat \ {0} /\ n \in Nat /\ n = m + eb - 1 /\ n <= Len(s)
    OBVIOUS
  <1>4. \A j \in 1 .. eb : m + j - 1 = at + j
    OBVIOUS
  <1> HIDE DEF m, n
  <1>2. SubSeq(s, m, n) \in [1 .. eb -> S]
    BY <1>1, Stretch
  <1>3. \A j \in 1 .. eb : SubSeq(s, m, n)[j] = s[m + j - 1]
    BY <1>1, Stretch
  <1> QED
    BY <1>2, <1>3, <1>4 DEF m, n

\* The numbers v in `eb` bytes each.
Spelled(f, v, nb, eb) ==
  /\ \A i \in 1 .. nb : v[i] \in Nat /\ v[i] < Place(eb)
  /\ Len(f) = nb * eb
  /\ \A k \in 1 .. nb * eb : f[k] = ByteOf(v[((k - 1) \div eb) + 1], (k - 1) % eb)

\* A bookkeeping array in a body: the numbers it was made of are read back, when each
\* is below what its bytes can hold.
LEMMA FieldBack ==
  ASSUME NEW nb \in Nat, NEW eb \in Nat \ {0}, NEW v, NEW f, Spelled(f, v, nb, eb),
         NEW body \in Seq(Byte), NEW at \in Nat, at + nb * eb <= Len(body),
         Carries(body, at, f), NEW i \in 1 .. nb
  PROVE  NumberAt(body, at + (i - 1) * eb, eb) = v[i]
  <1>f. /\ \A x \in 1 .. nb : v[x] \in Nat /\ v[x] < Place(eb)
        /\ Len(f) = nb * eb
        /\ \A k \in 1 .. nb * eb : f[k] = ByteOf(v[((k - 1) \div eb) + 1], (k - 1) % eb)
    BY DEF Spelled
  <1> DEFINE pos == (i - 1) * eb
             all == nb * eb
  <1>1. all \in Nat /\ pos \in Nat /\ pos + eb <= all
    <2>1. 1 \in 1 .. eb
      OBVIOUS
    <2>2. i * eb = (i - 1) * eb + eb /\ i * eb <= nb * eb /\ (i - 1) * eb \in Nat
      BY <2>1, PlaceOfByte
    <2>3. nb * eb \in Nat
      OBVIOUS
    <2> QED
      BY <2>2, <2>3
  <1>2. ASSUME NEW j \in 1 .. eb
        PROVE  pos + j \in 1 .. all /\ f[pos + j] = ByteOf(v[i], j - 1)
    <2>1. /\ pos + j \in 1 .. all
          /\ (pos + j - 1) \div eb = i - 1 /\ (pos + j - 1) % eb = j - 1
      BY ONLY nb \in Nat, eb \in Nat \ {0}, i \in 1 .. nb, j \in 1 .. eb, PlaceOfByte
    <2>2. f[pos + j] = ByteOf(v[((pos + j - 1) \div eb) + 1], (pos + j - 1) % eb)
      BY <1>f, <2>1
    <2>3. (i - 1) + 1 = i
      OBVIOUS
    <2> QED
      BY <2>1, <2>2, <2>3
  <1>3. \A k \in 1 .. all : body[at + k] = f[k]
    BY <1>f DEF Carries
  <1>4. Len(body) \in Nat /\ at + all <= Len(body)
    OBVIOUS
  <1> HIDE DEF pos, all
  <1> DEFINE sub == SubSeq(body, at + pos + 1, at + pos + eb)
  <1>5. /\ sub \in [1 .. eb -> Byte]
        /\ \A j \in 1 .. eb : sub[j] = body[at + pos + j]
    <2> DEFINE st == at + pos
    <2>1. st \in Nat /\ st + eb <= Len(body) /\ eb \in Nat /\ body \in Seq(Byte)
      BY <1>1, <1>4
    <2> HIDE DEF st
    <2>2. /\ SubSeq(body, st + 1, st + eb) \in [1 .. eb -> Byte]
          /\ \A j \in 1 .. eb : SubSeq(body, st + 1, st + eb)[j] = body[st + j]
      BY ONLY <2>1, CutOut
    <2> QED
      BY <2>2 DEF st
  <1>6. \A j \in 1 .. eb : sub[j] = ByteOf(v[i], j - 1)
    <2> SUFFICES ASSUME NEW j \in 1 .. eb
                 PROVE  sub[j] = ByteOf(v[i], j - 1)
      OBVIOUS
    <2>1. sub[j] = body[at + pos + j]
      BY <1>5
    <2>2. at + pos + j = at + (pos + j)
      BY <1>1
    <2>3. body[at + (pos + j)] = f[pos + j]
      BY <1>2, <1>3
    <2> QED
      BY <1>2, <2>1, <2>2, <2>3
  <1>7. v[i] \in Nat /\ v[i] < Place(eb)
    BY <1>f
  <1> HIDE DEF sub
  <1>8. WordOf(sub) = v[i]
    BY <1>5, <1>6, <1>7, WordBack
  <1> QED
    BY <1>8 DEF NumberAt, sub, pos

\* The deltas of a block end before the byte End(b, bi).
End(b, bi) == BO(b, bi) + BlkLen(b, bi) * Bytes(b.blocks[bi].width)
\* Blocks whose deltas lie in the payload, apart from each other.
Laid(b) ==
  /\ DOMAIN b.blocks \subseteq Nat /\ b.bytes \in Nat
  /\ \A bi \in DOMAIN b.blocks : b.blocks[bi].width # 0 =>
       /\ Bytes(b.blocks[bi].width) \in Nat \ {0} /\ BO(b, bi) \in Nat /\ BlkLen(b, bi) \in Nat
       /\ End(b, bi) \in Nat /\ End(b, bi) <= b.bytes
       /\ \A bj \in DOMAIN b.blocks : b.blocks[bj].width # 0 /\ bi < bj => End(b, bi) <= BO(b, bj)
\* Byte a is one of the deltas of block bi.
Covers(b, bi, a) == b.blocks[bi].width # 0 /\ BO(b, bi) <= a /\ a < End(b, bi)

\* A column that represents an array is laid out so.
LEMMA RepresentedLaid ==
  ASSUME NEW sg \in BOOLEAN, NEW vs, InMemory(vs, sg), NEW b, Represents(b, vs, sg)
  PROVE  Laid(b)
  <1> DEFINE fr == Blocks(vs, b.block)
             nb == CeilDiv(Len(vs), b.block)
  <1>1. /\ b.block \in Nat \ {0} /\ DOMAIN b.blocks = 1 .. nb /\ b.bytes = PayloadEnd(fr)[nb]
        /\ \A k \in 1 .. nb : Stands(b, k, fr)
    BY DEF Represents
  <1>2. nb \in Nat /\ Shaped(fr, nb)
    <2> DEFINE block == b.block
    <2>1. block \in Nat \ {0} /\ nb = CeilDiv(Len(vs), block) /\ fr = Blocks(vs, block)
      BY <1>1
    <2> HIDE DEF block, nb, fr
    <2> QED
      BY <2>1, FramesAre
  <1>3. b.bytes \in Nat
    <2> HIDE DEF fr, nb
    <2>1. PayloadEnd(fr) \in [0 .. nb -> Nat]
      BY <1>2, PayloadEnds
    <2> QED
      BY <1>1, <1>2, <2>1
  <1> HIDE DEF fr, nb
  <1>4. ASSUME NEW bi \in DOMAIN b.blocks, b.blocks[bi].width # 0
        PROVE  /\ Bytes(b.blocks[bi].width) \in Nat \ {0} /\ BO(b, bi) \in Nat
               /\ BlkLen(b, bi) \in Nat
               /\ End(b, bi) \in Nat /\ End(b, bi) <= b.bytes
               /\ \A bj \in DOMAIN b.blocks :
                    b.blocks[bj].width # 0 /\ bi < bj => End(b, bi) <= BO(b, bj)
    <2> DEFINE w == Bytes(b.blocks[bi].width)
    <2>1. w = Bytes(b.blocks[bi].width)
      OBVIOUS
    <2> HIDE DEF w
    <2>2. /\ w \in Nat \ {0} /\ BO(b, bi) \in Nat
          /\ BO(b, bi) + BlkLen(b, bi) * w <= b.bytes
          /\ \A bj \in DOMAIN b.blocks : b.blocks[bj].width # 0 /\ bi < bj =>
               BO(b, bi) + BlkLen(b, bi) * w <= BO(b, bj)
      BY <1>4, <2>1, StoredApart
    <2>3. BlkLen(b, bi) \in Nat
      <3>1. bi \in 1 .. nb /\ Stands(b, bi, fr)
        BY <1>1, <1>4
      <3>2. BlkLen(b, bi) = Len(fr[bi].index)
        BY <3>1 DEF Stands
      <3> QED
        BY <1>2, <3>1, <3>2 DEF Shaped
    <2>4. End(b, bi) = BO(b, bi) + BlkLen(b, bi) * w
      BY <2>1 DEF End
    <2>5. BlkLen(b, bi) * w \in Nat
      BY <2>2, <2>3
    <2>6. End(b, bi) \in Nat
      BY <2>2, <2>4, <2>5
    <2> QED
      BY <2>1, <2>2, <2>3, <2>4, <2>6
  <1> QED
    BY <1>1, <1>2, <1>3, <1>4 DEF Laid

\* No byte is one of the deltas of two blocks.
LEMMA CoversOnce ==
  ASSUME NEW b, Laid(b), NEW bi \in DOMAIN b.blocks, NEW bj \in DOMAIN b.blocks, NEW a \in Int,
         Covers(b, bi, a), Covers(b, bj, a)
  PROVE  bi = bj
  <1>1. bi \in Nat /\ bj \in Nat
    BY DEF Laid
  <1>2. BO(b, bi) \in Nat /\ BO(b, bj) \in Nat /\ End(b, bi) \in Nat /\ End(b, bj) \in Nat
    BY DEF Laid, Covers
  <1>3. bi < bj => End(b, bi) <= BO(b, bj)
    BY DEF Laid, Covers
  <1>4. bj < bi => End(b, bj) <= BO(b, bi)
    BY DEF Laid, Covers
  <1>5. BO(b, bi) <= a /\ a < End(b, bi) /\ BO(b, bj) <= a /\ a < End(b, bj)
    BY DEF Covers
  <1> QED
    BY <1>1, <1>2, <1>3, <1>4, <1>5

\* Byte k of delta j of a block.
LEMMA DeltaCovered ==
  ASSUME NEW b, Laid(b), NEW bi \in DOMAIN b.blocks, b.blocks[bi].width # 0,
         NEW w, w = Bytes(b.blocks[bi].width), NEW j \in 1 .. BlkLen(b, bi), NEW k \in 0 .. w - 1,
         NEW a, a = BO(b, bi) + (j - 1) * w, NEW ad, ad = a + k
  PROVE  /\ w \in Nat \ {0} /\ a \in Nat /\ Covers(b, bi, ad)
         /\ (ad - BO(b, bi)) % w = k /\ a + w <= b.bytes /\ ad \in 0 .. b.bytes - 1
  <1> DEFINE n == BlkLen(b, bi)
             o == BO(b, bi)
             e == End(b, bi)
             x == (j - 1) * w
             y == n * w
  <1>1. w \in Nat \ {0} /\ o \in Nat /\ n \in Nat /\ e = o + y /\ e <= b.bytes
        /\ e \in Nat /\ b.bytes \in Nat
    BY DEF Laid, End
  <1>0. j \in 1 .. n
    OBVIOUS
  <1>a. k \in 0 .. w - 1 /\ a = o + x
    OBVIOUS
  <1>2. j * w <= y /\ y \in Int
    <2> HIDE DEF n
    <2>1. j \in Int /\ n \in Int /\ j <= n
      BY <1>0, <1>1
    <2> QED
      BY <1>1, <2>1, TimesGrows
  <1>3. j * w = x + w /\ x \in Nat
    <2> HIDE DEF n
    <2>1. j - 1 \in Nat
      BY <1>0, <1>1
    <2> QED
      BY <1>1, <2>1
  <1>4. (x + k) % w = k
    <2> HIDE DEF n
    <2>1. k + 1 \in 1 .. w /\ n \in Nat /\ w \in Nat \ {0} /\ j \in 1 .. n
      BY <1>0, <1>1, <1>a
    <2>2. ((j - 1) * w + (k + 1) - 1) % w = (k + 1) - 1
      BY ONLY <2>1, PlaceOfByte
    <2>3. x + (k + 1) - 1 = x + k /\ (k + 1) - 1 = k
      <3> HIDE DEF x
      <3> QED
        BY <1>1, <1>3, <2>1
    <2> QED
      BY <2>2, <2>3
  <1> HIDE DEF x, y, o, e, n
  <1>5. o <= a + k /\ a + k < e /\ a + k - o = x + k /\ a \in Nat /\ a + w <= e
    BY ONLY <1>1, <1>a, <1>2, <1>3
  <1>6. o <= ad /\ ad < e /\ ad - o = x + k /\ ad \in 0 .. b.bytes - 1
    BY <1>1, <1>5, <1>a
  <1> QED
    BY <1>1, <1>4, <1>5, <1>6 DEF o, e, Covers

\* What is saved of a delta: its bytes, one after the other.
LEMMA PayloadByteIs ==
  ASSUME NEW b, Laid(b), NEW bi \in DOMAIN b.blocks, b.blocks[bi].width # 0,
         NEW w, w = Bytes(b.blocks[bi].width), NEW j \in 1 .. BlkLen(b, bi), NEW k \in 0 .. w - 1,
         NEW a, a = BO(b, bi) + (j - 1) * w, NEW ad, ad = a + k, NEW pad
  PROVE  PayloadByte(b, ad, pad) = ByteOf(b.data[a], k)
  <1> DEFINE in == {x \in DOMAIN b.blocks : Covers(b, x, ad)}
             bx == CHOOSE x \in in : TRUE
             off == (ad - BO(b, bx)) % Bytes(b.blocks[bx].width)
  <1>1. /\ w \in Nat \ {0} /\ a \in Nat /\ Covers(b, bi, ad)
        /\ (ad - BO(b, bi)) % w = k
    BY DeltaCovered
  <1>4. ad \in Int /\ ad = a + k
    BY <1>1
  <1>2. PayloadByte(b, ad, pad) = IF in = {} THEN pad ELSE ByteOf(b.data[ad - off], off)
    BY DEF PayloadByte, Covers, End
  <1>3. bi \in in
    BY <1>1
  <1>5. \A x \in in : x = bi
    BY <1>1, <1>4, CoversOnce
  <1>6. bx = bi
    BY <1>3, <1>5
  <1> HIDE DEF in, bx
  <1>7. off = k
    BY <1>1, <1>6
  <1>8. ad - k = a
    BY <1>1, <1>4
  <1> HIDE DEF off
  <1>9. in # {}
    BY <1>3
  <1>10. PayloadByte(b, ad, pad) = ByteOf(b.data[a], k)
    BY <1>2, <1>7, <1>8, <1>9
  <1> QED
    BY <1>10

\* Every byte of the payload is a byte, what the allocator left in the gaps included.
LEMMA PayloadByteType ==
  ASSUME NEW b, Laid(b), \A a \in 0 .. b.bytes - 1 : b.data[a] \in Nat,
         NEW pad \in Byte, NEW a \in 0 .. b.bytes - 1
  PROVE  PayloadByte(b, a, pad) \in Byte
  <1> DEFINE in == {x \in DOMAIN b.blocks : Covers(b, x, a)}
             bx == CHOOSE x \in in : TRUE
             off == (a - BO(b, bx)) % Bytes(b.blocks[bx].width)
  <1>1. PayloadByte(b, a, pad) = IF in = {} THEN pad ELSE ByteOf(b.data[a - off], off)
    BY DEF PayloadByte, Covers, End
  <1>2. CASE in = {}
    BY <1>1, <1>2
  <1>3. CASE in # {}
    <2> DEFINE o == BO(b, bx)
               w == Bytes(b.blocks[bx].width)
    <2>1. bx \in in
      BY <1>3
    <2>2. bx \in DOMAIN b.blocks /\ Covers(b, bx, a)
      BY <2>1
    <2>3. w \in Nat \ {0} /\ o \in Nat /\ o <= a
      BY <2>2 DEF Laid, Covers
    <2>4. b.bytes \in Nat
      BY DEF Laid
    <2> HIDE DEF in, bx
    <2>5. off \in Nat /\ off <= a - o
      <3> DEFINE d == a - o
      <3>1. d \in Nat /\ off = d % w
        BY <2>3, <2>4
      <3> HIDE DEF d, w, off
      <3>2. (d % w) \in Nat /\ (d % w) <= d
        BY <2>3, <3>1
      <3> QED
        BY <3>1, <3>2 DEF d
    <2> HIDE DEF off
    <2>6. a - off \in 0 .. b.bytes - 1
      BY <2>3, <2>4, <2>5
    <2>7. b.data[a - off] \in Nat
      BY <2>6
    <2> QED
      BY <1>1, <1>3, <2>5, <2>7, ByteOfType
  <1> QED
    BY <1>2, <1>3

\* A column taken apart from its file has the same blocks, and the bytes of the payload.
Unpacked(c, b, pad) ==
  /\ DOMAIN c.blocks = DOMAIN b.blocks /\ c.bytes = b.bytes
  /\ \A bi \in DOMAIN b.blocks : /\ c.blocks[bi].width = b.blocks[bi].width
                                 /\ BO(c, bi) = BO(b, bi) /\ BlkLen(c, bi) = BlkLen(b, bi)
  /\ c.data \in Seq(Byte) /\ Len(c.data) = b.bytes
  /\ \A a \in 0 .. b.bytes - 1 : c.data[a + 1] = PayloadByte(b, a, pad)

\* Reading the payload by whole elements gives the deltas back.
LEMMA ElementsBack ==
  ASSUME NEW b, Laid(b), NEW pad, NEW c, Unpacked(c, b, pad),
         NEW bi \in DOMAIN b.blocks, NEW wd, wd = b.blocks[bi].width,
         wd # 0 => wd \in Classes, NEW j \in 1 .. BlkLen(b, bi),
         wd # 0 => Delta(b, bi, j) \in Nat /\ Delta(b, bi, j) < Pow(wd)
  PROVE  Elements(c).data[BO(b, bi) + (j - 1) * Bytes(wd)] = Delta(b, bi, j) \/ wd = 0
  <1> SUFFICES ASSUME wd # 0
               PROVE  Elements(c).data[BO(b, bi) + (j - 1) * Bytes(wd)] = Delta(b, bi, j)
    OBVIOUS
  <1> DEFINE w == Bytes(wd)
             a == BO(b, bi) + (j - 1) * w
             v == Delta(b, bi, j)
             starts(x) == {y \in DOMAIN c.blocks :
                            /\ c.blocks[y].width # 0 /\ BO(c, y) <= x
                            /\ x < BO(c, y) + BlkLen(c, y) * Bytes(c.blocks[y].width)
                            /\ (x - BO(c, y)) % Bytes(c.blocks[y].width) = 0}
             by == CHOOSE y \in starts(a) : TRUE
  <1>1. w = Bytes(b.blocks[bi].width) /\ a = BO(b, bi) + (j - 1) * w
    OBVIOUS
  <1>a. v = b.data[a]
    BY DEF Delta
  <1>b. v \in Nat /\ v < Place(w)
    <2>1. w = ElemBytes[wd]
      BY ElementSizes
    <2> QED
      BY <2>1, ByteAssumption
  <1>c. \A x \in 0 .. c.bytes - 1 : Elements(c).data[x] =
          IF starts(x) = {} THEN 0
          ELSE NumberAt(c.data, x, Bytes(c.blocks[CHOOSE y \in starts(x) : TRUE].width))
    BY SMTT(60) DEF Elements
  <1>d. j \in 1 .. BlkLen(b, bi)
    OBVIOUS
  <1> HIDE DEF w, a, v
  <1>2. ASSUME NEW k \in 0 .. w - 1, NEW ad, ad = a + k
        PROVE  /\ w \in Nat \ {0} /\ a \in Nat /\ Covers(b, bi, ad)
               /\ (ad - BO(b, bi)) % w = k /\ a + w <= b.bytes /\ ad \in 0 .. b.bytes - 1
               /\ PayloadByte(b, ad, pad) = ByteOf(v, k)
    <2>1. /\ w \in Nat \ {0} /\ a \in Nat /\ Covers(b, bi, ad)
          /\ (ad - BO(b, bi)) % w = k /\ a + w <= b.bytes /\ ad \in 0 .. b.bytes - 1
      BY <1>1, <1>2, <1>d, DeltaCovered
    <2>2. PayloadByte(b, ad, pad) = ByteOf(b.data[a], k)
      BY <1>1, <1>2, <1>d, PayloadByteIs
    <2> QED
      BY <1>a, <2>1, <2>2
  <1>3. w \in Nat \ {0} /\ b.bytes \in Nat
    BY <1>1 DEF Laid
  <1>5. a \in Nat /\ a + w <= b.bytes /\ Covers(b, bi, a) /\ (a - BO(b, bi)) % w = 0
    <2> DEFINE z == 0
    <2>1. z \in 0 .. w - 1 /\ z = 0
      BY <1>3
    <2> HIDE DEF z
    <2>2. a = a + z
      <3>1. a \in Nat
        <4> DEFINE ad == a + z
        <4>1. ad = a + z
          OBVIOUS
        <4> HIDE DEF ad
        <4> QED
          BY <1>2, <2>1, <4>1
      <3> QED
        BY <2>1, <3>1
    <2> QED
      BY <1>2, <2>1, <2>2
  <1>8. starts(a) = {bi}
    <2>1. starts(a) \subseteq {y \in DOMAIN b.blocks : Covers(b, y, a)}
      BY DEF Unpacked, Covers, End
    <2>2. bi \in starts(a)
      BY <1>1, <1>5 DEF Unpacked, Covers, End
    <2>3. \A y \in DOMAIN b.blocks : Covers(b, y, a) => y = bi
      BY <1>5, CoversOnce
    <2> QED
      BY <2>1, <2>2, <2>3
  <1>9. by = bi
    BY <1>8
  <1>10. Elements(c).data[a] = NumberAt(c.data, a, w)
    <2>1. c.bytes = b.bytes /\ c.blocks[bi].width = b.blocks[bi].width
      BY DEF Unpacked
    <2>2. a \in 0 .. c.bytes - 1
      BY <1>3, <1>5, <2>1
    <2> HIDE DEF starts
    <2> QED
      BY <1>1, <1>8, <1>9, <1>c, <2>1, <2>2
  <1> DEFINE sub == SubSeq(c.data, a + 1, a + w)
  <1>11. sub \in [1 .. w -> Byte] /\ \A k \in 1 .. w : sub[k] = c.data[a + k]
    <2> DEFINE dt == c.data
    <2>1. dt \in Seq(Byte) /\ a \in Nat /\ w \in Nat /\ a + w <= Len(dt)
      BY <1>3, <1>5 DEF Unpacked
    <2>2. sub = SubSeq(dt, a + 1, a + w)
      OBVIOUS
    <2> HIDE DEF dt, sub
    <2>3. /\ SubSeq(dt, a + 1, a + w) \in [1 .. w -> Byte]
          /\ \A k \in 1 .. w : SubSeq(dt, a + 1, a + w)[k] = dt[a + k]
      BY ONLY <2>1, CutOut
    <2> QED
      BY <2>2, <2>3 DEF dt
  <1>12. \A k \in 1 .. w : sub[k] = ByteOf(v, k - 1)
    <2> SUFFICES ASSUME NEW k \in 1 .. w
                 PROVE  sub[k] = ByteOf(v, k - 1)
      OBVIOUS
    <2> HIDE DEF sub
    <2>1. k - 1 \in 0 .. w - 1
      BY <1>3
    <2> DEFINE ad == a + (k - 1)
    <2>2. ad = a + (k - 1)
      OBVIOUS
    <2> HIDE DEF ad
    <2>3. PayloadByte(b, ad, pad) = ByteOf(v, k - 1) /\ ad \in 0 .. b.bytes - 1
      BY <1>2, <2>1, <2>2
    <2>4. c.data[ad + 1] = PayloadByte(b, ad, pad)
      BY <2>3 DEF Unpacked
    <2>5. ad + 1 = a + k
      BY <1>5, <2>2
    <2> QED
      BY <1>11, <2>3, <2>4, <2>5
  <1>13. WordOf(sub) = v
    <2> HIDE DEF sub
    <2>1. w \in Nat
      BY <1>3
    <2> QED
      BY <1>11, <1>12, <1>b, <2>1, WordBack
  <1> QED
    BY <1>10, <1>13 DEF NumberAt, w, a, v

\* A bookkeeping array as it is written.
LEMMA FieldBytesAre ==
  ASSUME NEW b, NEW nb \in Nat, Len(b.blocks) = nb, NEW fld, NEW eb \in Nat \ {0},
         \A i \in 1 .. nb : b.blocks[i][fld] \in Nat, NEW f, f = FieldBytes(b, fld, eb)
  PROVE  /\ f \in Seq(Byte) /\ Len(f) = nb * eb
         /\ \A k \in 1 .. nb * eb : f[k] = ByteOf(b.blocks[((k - 1) \div eb) + 1][fld], (k - 1) % eb)
  <1> DEFINE all == nb * eb
  <1>1. all \in Nat
    OBVIOUS
  <1>2. f = [k \in 1 .. all |-> ByteOf(b.blocks[((k - 1) \div eb) + 1][fld], (k - 1) % eb)]
    BY DEF FieldBytes
  <1>3. ASSUME NEW k \in 1 .. all
        PROVE  ByteOf(b.blocks[((k - 1) \div eb) + 1][fld], (k - 1) % eb) \in Byte
    <2>1. ((k - 1) \div eb) + 1 \in 1 .. nb /\ (k - 1) % eb \in 0 .. eb - 1
      BY ElementOfByte
    <2>2. b.blocks[((k - 1) \div eb) + 1][fld] \in Nat
      BY <2>1
    <2>3. (k - 1) % eb \in Nat
      BY <2>1
    <2> QED
      BY ONLY <2>2, <2>3, ByteOfType
  <1> HIDE DEF all
  <1>4. f \in Seq(Byte) /\ Len(f) = all
    <2>1. \A k \in 1 .. all : f[k] \in Byte
      BY <1>2, <1>3
    <2>2. f = [k \in 1 .. all |-> f[k]]
      BY <1>2
    <2>3. f \in [1 .. all -> Byte]
      BY <2>1, <2>2
    <2> QED
      BY <1>1, <2>3
  <1>5. \A k \in 1 .. all : f[k] = ByteOf(b.blocks[((k - 1) \div eb) + 1][fld], (k - 1) % eb)
    BY <1>2
  <1> QED
    BY <1>4, <1>5 DEF all

\* The parts of a body, and where each begins.
Widths(b) == [i \in DOMAIN b.blocks |-> b.blocks[i].width]
Marks(b)  == [i \in DOMAIN b.blocks |-> IF b.blocks[i].sorted THEN 1 ELSE 0]
StrideBytes(b) == IF b.has_stride THEN FieldBytes(b, "stride", Bytes(b.tcls)) ELSE <<>>
DeltaBytes(b, pad) == [a \in 1 .. b.bytes |-> PayloadByte(b, a - 1, pad)]
AtBases(b, nb) == 2 * nb
AtSpans(b, nb) == AtBases(b, nb) + nb * Bytes(b.bcls)
AtOffs(b, nb)  == AtSpans(b, nb) + nb * Bytes(b.pcls)
AtSums(b, nb)  == AtOffs(b, nb) + nb * Bytes(b.ocls)
AtSteps(b, nb) == AtSums(b, nb) + nb * Bytes(b.scls)
AtData(b, nb)  == AtSteps(b, nb) + IF b.has_stride THEN nb * Bytes(b.tcls) ELSE 0
BaseBytes(b) == FieldBytes(b, "base", Bytes(b.bcls))
SpanBytes(b) == FieldBytes(b, "span", Bytes(b.pcls))
OffBytes(b)  == FieldBytes(b, "off", Bytes(b.ocls))
SumBytes(b)  == FieldBytes(b, "sum", Bytes(b.scls))

\* Each part is made of bytes, and as long as the next one's beginning says.
LEMMA PartsAre ==
  ASSUME NEW b, NEW nb, Filed(b, nb), Laid(b), NEW pad \in Byte
  PROVE  /\ Widths(b) \in Seq(Byte) /\ Len(Widths(b)) = nb
         /\ Marks(b) \in Seq(Byte) /\ Len(Marks(b)) = nb
         /\ BaseBytes(b) \in Seq(Byte) /\ Len(BaseBytes(b)) = nb * Bytes(b.bcls)
         /\ SpanBytes(b) \in Seq(Byte) /\ Len(SpanBytes(b)) = nb * Bytes(b.pcls)
         /\ OffBytes(b) \in Seq(Byte) /\ Len(OffBytes(b)) = nb * Bytes(b.ocls)
         /\ SumBytes(b) \in Seq(Byte) /\ Len(SumBytes(b)) = nb * Bytes(b.scls)
         /\ StrideBytes(b) \in Seq(Byte)
         /\ Len(StrideBytes(b)) = IF b.has_stride THEN nb * Bytes(b.tcls) ELSE 0
         /\ DeltaBytes(b, pad) \in Seq(Byte) /\ Len(DeltaBytes(b, pad)) = b.bytes
  <1>1. /\ nb \in Nat /\ b.blocks = [bi \in 1 .. nb |-> b.blocks[bi]] /\ b.bytes \in Nat
        /\ \A a \in 0 .. b.bytes - 1 : b.data[a] \in Nat
    BY DEF Filed
  <1>2. DOMAIN b.blocks = 1 .. nb
    BY <1>1
  <1>3. Len(b.blocks) = nb
    <2>1. b.blocks \in [1 .. nb -> {b.blocks[i] : i \in 1 .. nb}]
      BY <1>1
    <2> QED
      BY <1>1, <2>1
  <1>4. Pow(1) \in Nat /\ 2 <= Pow(1) /\ K < Pow(1) /\ K \in Nat
    <2>1. 1 \in Classes /\ K \in Nat
      BY ClassAssumption DEF Classes
    <2> QED
      BY <2>1, PowFacts, ByteAssumption
  <1>5. 0 \in Byte /\ 1 \in Byte /\ \A v \in 0 .. K : v \in Byte
    BY <1>4 DEF Byte
  <1>6. Widths(b) \in Seq(Byte) /\ Len(Widths(b)) = nb
    <2>1. \A i \in 1 .. nb : b.blocks[i].width \in Byte
      BY <1>5 DEF Filed
    <2>2. Widths(b) = [i \in 1 .. nb |-> b.blocks[i].width]
      BY <1>2 DEF Widths
    <2>3. Widths(b) \in [1 .. nb -> Byte]
      BY <2>1, <2>2
    <2> QED
      BY <1>1, <2>3
  <1>7. Marks(b) \in Seq(Byte) /\ Len(Marks(b)) = nb
    <2>1. Marks(b) = [i \in 1 .. nb |-> IF b.blocks[i].sorted THEN 1 ELSE 0]
      BY <1>2 DEF Marks
    <2>2. \A i \in 1 .. nb : (IF b.blocks[i].sorted THEN 1 ELSE 0) \in Byte
      BY <1>5
    <2>3. Marks(b) \in [1 .. nb -> Byte]
      BY <2>1, <2>2
    <2> QED
      BY <1>1, <2>3
  <1>8. ASSUME NEW c \in Classes
        PROVE  Bytes(c) \in Nat \ {0}
    BY ElementSizes
  <1>9. {b.bcls, b.pcls, b.ocls, b.scls} \subseteq Classes
    BY DEF Filed
  <1>10. BaseBytes(b) \in Seq(Byte) /\ Len(BaseBytes(b)) = nb * Bytes(b.bcls)
    <2>1. Bytes(b.bcls) \in Nat \ {0}
      BY <1>8, <1>9
    <2>2. \A i \in 1 .. nb : b.blocks[i].base \in Nat
      BY DEF Filed
    <2> DEFINE eb == Bytes(b.bcls)
               f  == FieldBytes(b, "base", eb)
    <2>3. eb \in Nat \ {0} /\ BaseBytes(b) = f /\ f = FieldBytes(b, "base", eb)
      BY <2>1 DEF BaseBytes
    <2> HIDE DEF eb, f
    <2>4. \A i \in 1 .. nb : b.blocks[i]["base"] \in Nat
      BY <2>2
    <2>5. f \in Seq(Byte) /\ Len(f) = nb * eb
      BY ONLY <1>1, <1>3, <2>3, <2>4, FieldBytesAre
    <2> QED
      BY <2>3, <2>5 DEF eb
  <1>11. SpanBytes(b) \in Seq(Byte) /\ Len(SpanBytes(b)) = nb * Bytes(b.pcls)
    <2>1. Bytes(b.pcls) \in Nat \ {0}
      BY <1>8, <1>9
    <2>2. \A i \in 1 .. nb : b.blocks[i].span \in Nat
      BY DEF Filed
    <2> DEFINE eb == Bytes(b.pcls)
               f  == FieldBytes(b, "span", eb)
    <2>3. eb \in Nat \ {0} /\ SpanBytes(b) = f /\ f = FieldBytes(b, "span", eb)
      BY <2>1 DEF SpanBytes
    <2> HIDE DEF eb, f
    <2>4. \A i \in 1 .. nb : b.blocks[i]["span"] \in Nat
      BY <2>2
    <2>5. f \in Seq(Byte) /\ Len(f) = nb * eb
      BY ONLY <1>1, <1>3, <2>3, <2>4, FieldBytesAre
    <2> QED
      BY <2>3, <2>5 DEF eb
  <1>12. OffBytes(b) \in Seq(Byte) /\ Len(OffBytes(b)) = nb * Bytes(b.ocls)
    <2>1. Bytes(b.ocls) \in Nat \ {0}
      BY <1>8, <1>9
    <2>2. \A i \in 1 .. nb : b.blocks[i].off \in Nat
      BY DEF Filed
    <2> DEFINE eb == Bytes(b.ocls)
               f  == FieldBytes(b, "off", eb)
    <2>3. eb \in Nat \ {0} /\ OffBytes(b) = f /\ f = FieldBytes(b, "off", eb)
      BY <2>1 DEF OffBytes
    <2> HIDE DEF eb, f
    <2>4. \A i \in 1 .. nb : b.blocks[i]["off"] \in Nat
      BY <2>2
    <2>5. f \in Seq(Byte) /\ Len(f) = nb * eb
      BY ONLY <1>1, <1>3, <2>3, <2>4, FieldBytesAre
    <2> QED
      BY <2>3, <2>5 DEF eb
  <1>13. SumBytes(b) \in Seq(Byte) /\ Len(SumBytes(b)) = nb * Bytes(b.scls)
    <2>1. Bytes(b.scls) \in Nat \ {0}
      BY <1>8, <1>9
    <2>2. \A i \in 1 .. nb : b.blocks[i].sum \in Nat
      BY DEF Filed
    <2> DEFINE eb == Bytes(b.scls)
               f  == FieldBytes(b, "sum", eb)
    <2>3. eb \in Nat \ {0} /\ SumBytes(b) = f /\ f = FieldBytes(b, "sum", eb)
      BY <2>1 DEF SumBytes
    <2> HIDE DEF eb, f
    <2>4. \A i \in 1 .. nb : b.blocks[i]["sum"] \in Nat
      BY <2>2
    <2>5. f \in Seq(Byte) /\ Len(f) = nb * eb
      BY ONLY <1>1, <1>3, <2>3, <2>4, FieldBytesAre
    <2> QED
      BY <2>3, <2>5 DEF eb
  <1>14. ASSUME b.has_stride
         PROVE  StrideBytes(b) \in Seq(Byte) /\ Len(StrideBytes(b)) = nb * Bytes(b.tcls)
    <2>1. Bytes(b.tcls) \in Nat \ {0}
      BY <1>8, <1>14 DEF Filed
    <2>2. \A i \in 1 .. nb : b.blocks[i].stride \in Nat
      BY DEF Filed
    <2> DEFINE eb == Bytes(b.tcls)
               f  == FieldBytes(b, "stride", eb)
    <2>3. eb \in Nat \ {0} /\ StrideBytes(b) = f /\ f = FieldBytes(b, "stride", eb)
      BY <1>14, <2>1 DEF StrideBytes
    <2> HIDE DEF eb, f
    <2>4. \A i \in 1 .. nb : b.blocks[i]["stride"] \in Nat
      BY <2>2
    <2>a. nb \in Nat /\ Len(b.blocks) = nb /\ eb \in Nat \ {0} /\ f = FieldBytes(b, "stride", eb)
      BY <1>1, <1>3, <2>3
    <2>b. f \in Seq(Byte)
      BY ONLY <2>a, <2>4, FieldBytesAre
    <2>5. f \in Seq(Byte) /\ Len(f) = nb * eb
      BY ONLY <2>a, <2>b, <2>4, FieldBytesAre
    <2>6. Len(StrideBytes(b)) = nb * Bytes(b.tcls) /\ StrideBytes(b) \in Seq(Byte)
      BY <2>3, <2>5 DEF eb
    <2> QED
      BY <2>6
  <1>15. ~b.has_stride => StrideBytes(b) \in Seq(Byte) /\ Len(StrideBytes(b)) = 0
    BY DEF StrideBytes
  <1>16. DeltaBytes(b, pad) \in Seq(Byte) /\ Len(DeltaBytes(b, pad)) = b.bytes
    <2>1. ASSUME NEW a \in 1 .. b.bytes
          PROVE  PayloadByte(b, a - 1, pad) \in Byte
      <3>1. a - 1 \in 0 .. b.bytes - 1
        BY <1>1
      <3> QED
        BY <1>1, <3>1, PayloadByteType
    <2>2. DeltaBytes(b, pad) \in [1 .. b.bytes -> Byte]
      BY <2>1 DEF DeltaBytes
    <2> QED
      BY <1>1, <2>2
  <1>17. /\ StrideBytes(b) \in Seq(Byte)
         /\ Len(StrideBytes(b)) = IF b.has_stride THEN nb * Bytes(b.tcls) ELSE 0
    BY <1>14, <1>15
  <1> QED
    BY <1>6, <1>7, <1>10, <1>11, <1>12, <1>13, <1>16, <1>17

\* Where the parts of a body stand.
LEMMA BodyIs ==
  ASSUME NEW b, NEW nb, Filed(b, nb), Laid(b), NEW pad \in Byte, NEW body, body = Body(b, pad)
  PROVE  /\ body \in Seq(Byte) /\ Len(body) = AtData(b, nb) + b.bytes
         /\ AtBases(b, nb) \in Nat /\ AtSpans(b, nb) \in Nat /\ AtOffs(b, nb) \in Nat
         /\ AtSums(b, nb) \in Nat /\ AtSteps(b, nb) \in Nat /\ AtData(b, nb) \in Nat
         /\ Carries(body, 0, Widths(b)) /\ Carries(body, nb, Marks(b))
         /\ Carries(body, AtBases(b, nb), BaseBytes(b)) /\ Carries(body, AtSpans(b, nb), SpanBytes(b))
         /\ Carries(body, AtOffs(b, nb), OffBytes(b)) /\ Carries(body, AtSums(b, nb), SumBytes(b))
         /\ Carries(body, AtSteps(b, nb), StrideBytes(b))
         /\ Carries(body, AtData(b, nb), DeltaBytes(b, pad))
  <1> DEFINE s0 == Widths(b)
             t1 == Marks(b)
             t2 == BaseBytes(b)
             t3 == SpanBytes(b)
             t4 == OffBytes(b)
             t5 == SumBytes(b)
             t6 == StrideBytes(b)
             t7 == DeltaBytes(b, pad)
             s1 == s0 \o t1
             s2 == s1 \o t2
             s3 == s2 \o t3
             s4 == s3 \o t4
             s5 == s4 \o t5
             s6 == s5 \o t6
             s7 == s6 \o t7
  <1>1. body = s7
    BY DEF Body, Widths, Marks, BaseBytes, SpanBytes, OffBytes, SumBytes, StrideBytes, DeltaBytes
  <1>2. nb \in Nat /\ b.bytes \in Nat
    BY DEF Filed
  <1>3. /\ s0 \in Seq(Byte) /\ Len(s0) = nb
        /\ t1 \in Seq(Byte) /\ Len(t1) = nb
        /\ t2 \in Seq(Byte) /\ Len(t2) = nb * Bytes(b.bcls)
        /\ t3 \in Seq(Byte) /\ Len(t3) = nb * Bytes(b.pcls)
        /\ t4 \in Seq(Byte) /\ Len(t4) = nb * Bytes(b.ocls)
        /\ t5 \in Seq(Byte) /\ Len(t5) = nb * Bytes(b.scls)
        /\ t6 \in Seq(Byte)
        /\ Len(t6) = IF b.has_stride THEN nb * Bytes(b.tcls) ELSE 0
        /\ t7 \in Seq(Byte) /\ Len(t7) = b.bytes
    BY PartsAre
  <1> HIDE DEF s0, t1, t2, t3, t4, t5, t6, t7
  <1>4. s1 \in Seq(Byte) /\ Len(s1) = Len(s0) + Len(t1)
        /\ \A R : Carries(R, 0, s1) => Carries(R, 0, s0) /\ Carries(R, Len(s0), t1)
    BY <1>3, Joined
  <1> HIDE DEF s1
  <1>5. s2 \in Seq(Byte) /\ Len(s2) = Len(s1) + Len(t2)
        /\ \A R : Carries(R, 0, s2) => Carries(R, 0, s1) /\ Carries(R, Len(s1), t2)
    BY <1>3, <1>4, Joined
  <1> HIDE DEF s2
  <1>6. s3 \in Seq(Byte) /\ Len(s3) = Len(s2) + Len(t3)
        /\ \A R : Carries(R, 0, s3) => Carries(R, 0, s2) /\ Carries(R, Len(s2), t3)
    BY <1>3, <1>5, Joined
  <1> HIDE DEF s3
  <1>7. s4 \in Seq(Byte) /\ Len(s4) = Len(s3) + Len(t4)
        /\ \A R : Carries(R, 0, s4) => Carries(R, 0, s3) /\ Carries(R, Len(s3), t4)
    BY <1>3, <1>6, Joined
  <1> HIDE DEF s4
  <1>8. s5 \in Seq(Byte) /\ Len(s5) = Len(s4) + Len(t5)
        /\ \A R : Carries(R, 0, s5) => Carries(R, 0, s4) /\ Carries(R, Len(s4), t5)
    BY <1>3, <1>7, Joined
  <1> HIDE DEF s5
  <1>9. s6 \in Seq(Byte) /\ Len(s6) = Len(s5) + Len(t6)
        /\ \A R : Carries(R, 0, s6) => Carries(R, 0, s5) /\ Carries(R, Len(s5), t6)
    BY <1>3, <1>8, Joined
  <1> HIDE DEF s6
  <1>10. s7 \in Seq(Byte) /\ Len(s7) = Len(s6) + Len(t7)
        /\ \A R : Carries(R, 0, s7) => Carries(R, 0, s6) /\ Carries(R, Len(s6), t7)
    BY <1>3, <1>9, Joined
  <1> HIDE DEF s7
  <1>11. Carries(body, 0, s7)
    BY <1>1, <1>10 DEF Carries
  <1>12. Len(s0) = nb /\ Len(s1) = AtBases(b, nb)
    BY <1>2, <1>3, <1>4 DEF AtBases
  <1>13. Len(s2) = AtSpans(b, nb)
    BY <1>3, <1>5, <1>12 DEF AtSpans
  <1>14. Len(s3) = AtOffs(b, nb)
    BY <1>3, <1>6, <1>13 DEF AtOffs
  <1>15. Len(s4) = AtSums(b, nb)
    BY <1>3, <1>7, <1>14 DEF AtSums
  <1>16. Len(s5) = AtSteps(b, nb)
    BY <1>3, <1>8, <1>15 DEF AtSteps
  <1>17. Len(s6) = AtData(b, nb)
    BY <1>3, <1>9, <1>16 DEF AtData
  <1>18. /\ AtBases(b, nb) \in Nat /\ AtSpans(b, nb) \in Nat /\ AtOffs(b, nb) \in Nat
         /\ AtSums(b, nb) \in Nat /\ AtSteps(b, nb) \in Nat /\ AtData(b, nb) \in Nat
    <2>1. /\ Len(s1) \in Nat /\ Len(s2) \in Nat /\ Len(s3) \in Nat /\ Len(s4) \in Nat
          /\ Len(s5) \in Nat /\ Len(s6) \in Nat
      BY <1>4, <1>5, <1>6, <1>7, <1>8, <1>9
    <2> QED
      BY <2>1, <1>12, <1>13, <1>14, <1>15, <1>16, <1>17
  <1>19. Carries(body, 0, s6) /\ Carries(body, AtData(b, nb), t7)
    BY <1>10, <1>11, <1>17
  <1>20. Carries(body, 0, s5) /\ Carries(body, AtSteps(b, nb), t6)
    BY <1>9, <1>16, <1>19
  <1>21. Carries(body, 0, s4) /\ Carries(body, AtSums(b, nb), t5)
    BY <1>8, <1>15, <1>20
  <1>22. Carries(body, 0, s3) /\ Carries(body, AtOffs(b, nb), t4)
    BY <1>7, <1>14, <1>21
  <1>23. Carries(body, 0, s2) /\ Carries(body, AtSpans(b, nb), t3)
    BY <1>6, <1>13, <1>22
  <1>24. Carries(body, 0, s1) /\ Carries(body, AtBases(b, nb), t2)
    BY <1>5, <1>12, <1>23
  <1>25. Carries(body, 0, s0) /\ Carries(body, nb, t1)
    BY <1>4, <1>12, <1>24
  <1>26. body \in Seq(Byte) /\ Len(body) = AtData(b, nb) + b.bytes
    BY <1>1, <1>3, <1>10, <1>17
  <1> QED
    BY <1>18, <1>19, <1>20, <1>21, <1>22, <1>23, <1>24, <1>25, <1>26
       DEF s0, t1, t2, t3, t4, t5, t6, t7

\* A field of the blocks that fits the class c.
Fits(b, fld, nb, c) == \A i \in 1 .. nb : b.blocks[i][fld] \in Nat /\ b.blocks[i][fld] < Pow(c)

\* A bookkeeping array is read back from the body it stands in.
LEMMA NumbersBack ==
  ASSUME NEW b, NEW nb \in Nat, Len(b.blocks) = nb, NEW fld, NEW c \in Classes,
         Fits(b, fld, nb, c),
         NEW eb, eb = Bytes(c), NEW f, f = FieldBytes(b, fld, eb),
         NEW body \in Seq(Byte), NEW at \in Nat, at + nb * eb <= Len(body), Carries(body, at, f),
         NEW i \in 1 .. nb
  PROVE  NumberAt(body, at + (i - 1) * eb, eb) = b.blocks[i][fld]
  <1> DEFINE v == [x \in 1 .. nb |-> b.blocks[x][fld]]
  <1>1. eb \in Nat \ {0} /\ Pow(c) = Place(eb)
    BY ElementSizes, ByteAssumption
  <1>2. \A x \in 1 .. nb : v[x] \in Nat /\ v[x] < Place(eb)
    BY <1>1 DEF Fits
  <1>3. /\ f \in Seq(Byte) /\ Len(f) = nb * eb
        /\ \A k \in 1 .. nb * eb :
             f[k] = ByteOf(b.blocks[((k - 1) \div eb) + 1][fld], (k - 1) % eb)
    <2>1. \A x \in 1 .. nb : b.blocks[x][fld] \in Nat
      BY DEF Fits
    <2>2. eb \in Nat \ {0} /\ nb \in Nat /\ Len(b.blocks) = nb /\ f = FieldBytes(b, fld, eb)
      BY <1>1
    <2>3. f \in Seq(Byte)
      BY ONLY <2>1, <2>2, FieldBytesAre
    <2>4. Len(f) = nb * eb
      BY ONLY <2>1, <2>2, FieldBytesAre
    <2>5. \A k \in 1 .. nb * eb :
            f[k] = ByteOf(b.blocks[((k - 1) \div eb) + 1][fld], (k - 1) % eb)
      BY ONLY <2>1, <2>2, FieldBytesAre
    <2> QED
      BY ONLY <2>3, <2>4, <2>5
  <1>4. \A k \in 1 .. nb * eb : f[k] = ByteOf(v[((k - 1) \div eb) + 1], (k - 1) % eb)
    <2> SUFFICES ASSUME NEW k \in 1 .. nb * eb
                 PROVE  f[k] = ByteOf(v[((k - 1) \div eb) + 1], (k - 1) % eb)
      OBVIOUS
    <2> DEFINE q == ((k - 1) \div eb) + 1
               r == (k - 1) % eb
    <2>1. q \in 1 .. nb
      BY <1>1, ElementOfByte
    <2>2. f[k] = ByteOf(b.blocks[q][fld], r)
      BY <1>3
    <2> HIDE DEF q, r
    <2>3. v[q] = b.blocks[q][fld]
      BY <2>1
    <2>4. f[k] = ByteOf(v[q], r)
      BY <2>2, <2>3
    <2> QED
      BY <2>4 DEF q, r
  <1>5. v[i] = b.blocks[i][fld]
    OBVIOUS
  <1> HIDE DEF v
  <1>6. NumberAt(body, at + (i - 1) * eb, eb) = v[i]
    <2>1. /\ body \in Seq(Byte) /\ at \in Nat /\ at + nb * eb <= Len(body) /\ Carries(body, at, f)
          /\ nb \in Nat /\ eb \in Nat \ {0} /\ i \in 1 .. nb
      BY <1>1, <1>3
    <2>2. Spelled(f, v, nb, eb)
      BY <1>2, <1>3, <1>4 DEF Spelled
    <2> QED
      BY ONLY <2>1, <2>2, FieldBack
  <1> QED
    BY <1>5, <1>6

\* A structure with the same numbers as another.
SameNumbers(c, b) ==
  /\ c.count = b.count /\ c.block = b.block /\ c.signed = b.signed
  /\ c.bcls = b.bcls /\ c.pcls = b.pcls /\ c.ocls = b.ocls /\ c.scls = b.scls
  /\ c.has_stride = b.has_stride /\ c.bytes = b.bytes /\ DOMAIN c.blocks = DOMAIN b.blocks
  /\ \A bi \in DOMAIN b.blocks :
       /\ c.blocks[bi].width = b.blocks[bi].width /\ c.blocks[bi].sorted = b.blocks[bi].sorted
       /\ c.blocks[bi].base = b.blocks[bi].base /\ c.blocks[bi].span = b.blocks[bi].span
       /\ c.blocks[bi].off = b.blocks[bi].off /\ c.blocks[bi].sum = b.blocks[bi].sum
       /\ b.has_stride => c.blocks[bi].stride = b.blocks[bi].stride

\* The header of a column, read.
LEMMA HeaderBack ==
  ASSUME NEW b, NEW nb, Filed(b, nb), b.signed \in BOOLEAN, NEW h, h = Header(b), NEW tcls
  PROVE  /\ h.nblocks = nb /\ h.bytes = b.bytes /\ h.count = b.count /\ h.block = b.block
         /\ h.signed = b.signed /\ (HasTcls(h) <=> b.has_stride)
         /\ Abs(h.bcls) = b.bcls /\ Abs(h.scls) = b.scls /\ h.pcls = b.pcls /\ h.ocls = b.ocls
         /\ Bytes(h.bcls) = Bytes(b.bcls) /\ Bytes(h.scls) = Bytes(b.scls)
         /\ FormatGood(h) /\ ClassesGood(h)
         /\ Len(b.blocks) = nb /\ DOMAIN b.blocks = 1 .. nb
  <1>1. /\ nb \in Nat /\ b.blocks = [bi \in 1 .. nb |-> b.blocks[bi]]
        /\ {b.bcls, b.pcls, b.ocls, b.scls} \subseteq Classes /\ b.has_stride \in BOOLEAN
    BY DEF Filed
  <1>2. DOMAIN b.blocks = 1 .. nb
    BY <1>1
  <1>3. Len(b.blocks) = nb
    <2>1. b.blocks \in [1 .. nb -> {b.blocks[i] : i \in 1 .. nb}]
      BY <1>1
    <2> QED
      BY <1>1, <2>1
  <1>4. /\ h.magic = "SR33" /\ h.class = 0 /\ h.signed = b.signed /\ h.rsvd = 0
        /\ h.fmt = (IF b.has_stride THEN 3 ELSE 2) /\ h.count = b.count /\ h.block = b.block
        /\ h.nblocks = Len(b.blocks) /\ h.bcls = ClassByte(b, b.bcls) /\ h.pcls = b.pcls
        /\ h.ocls = b.ocls /\ h.scls = ClassByte(b, b.scls) /\ h.bytes = b.bytes
    BY DEF Header
  <1>5. HasTcls(h) <=> b.has_stride
    BY <1>1, <1>4 DEF HasTcls
  <1>6. ASSUME NEW c \in Classes, NEW x, x = ClassByte(b, c)
        PROVE  /\ Abs(x) = c /\ Bytes(x) = Bytes(c) /\ IsClass(x) /\ (x < 0) = b.signed
               /\ x \in Int /\ c \in Int /\ c > 0
    <2>1. c \in Int /\ c > 0
      BY ClassAssumption DEF Classes
    <2>2. x = IF b.signed THEN -c ELSE c
      BY <1>6 DEF ClassByte
    <2>3. x \in Int /\ (x < 0) = b.signed /\ x # 0
      BY <2>1, <2>2
    <2>4. Abs(x) = c /\ Abs(c) = c
      BY <2>1, <2>2 DEF Abs
    <2>5. Bytes(x) = Bytes(c)
      BY <2>1, <2>3, <2>4 DEF Bytes
    <2> QED
      BY <2>1, <2>3, <2>4, <2>5 DEF IsClass
  <1>7. /\ Abs(h.bcls) = b.bcls /\ Bytes(h.bcls) = Bytes(b.bcls)
        /\ IsClass(h.bcls) /\ (h.bcls < 0) = b.signed
    BY <1>1, <1>4, <1>6
  <1>8. /\ Abs(h.scls) = b.scls /\ Bytes(h.scls) = Bytes(b.scls)
        /\ IsClass(h.scls) /\ (h.scls < 0) = b.signed
    BY <1>1, <1>4, <1>6
  <1>9. ASSUME NEW c \in Classes
        PROVE  IsClass(c) /\ c > 0
    <2>1. c \in Int /\ c > 0
      BY ClassAssumption DEF Classes
    <2> QED
      BY <2>1 DEF IsClass, Abs
  <1>10. ClassesGood(h)
    BY <1>1, <1>4, <1>7, <1>8, <1>9 DEF ClassesGood
  <1>11. FormatGood(h)
    BY <1>4 DEF FormatGood
  <1> QED
    BY <1>2, <1>3, <1>4, <1>5, <1>7, <1>8, <1>10, <1>11

\* The numbers of each bookkeeping array, read from the body.
LEMMA BodyBack ==
  ASSUME NEW b, NEW nb, Filed(b, nb), Laid(b), NEW pad \in Byte, NEW body, body = Body(b, pad),
         NEW i \in 1 .. nb
  PROVE  /\ body[i] = b.blocks[i].width
         /\ body[nb + i] = (IF b.blocks[i].sorted THEN 1 ELSE 0)
         /\ NumberAt(body, AtBases(b, nb) + (i - 1) * Bytes(b.bcls), Bytes(b.bcls)) = b.blocks[i].base
         /\ NumberAt(body, AtSpans(b, nb) + (i - 1) * Bytes(b.pcls), Bytes(b.pcls)) = b.blocks[i].span
         /\ NumberAt(body, AtOffs(b, nb) + (i - 1) * Bytes(b.ocls), Bytes(b.ocls)) = b.blocks[i].off
         /\ NumberAt(body, AtSums(b, nb) + (i - 1) * Bytes(b.scls), Bytes(b.scls)) = b.blocks[i].sum
         /\ b.has_stride => NumberAt(body, AtSteps(b, nb) + (i - 1) * Bytes(b.tcls), Bytes(b.tcls))
                              = b.blocks[i].stride
  <1>1. /\ nb \in Nat /\ {b.bcls, b.pcls, b.ocls, b.scls} \subseteq Classes /\ b.bytes \in Nat
        /\ b.blocks = [bi \in 1 .. nb |-> b.blocks[bi]]
    BY DEF Filed
  <1>2. DOMAIN b.blocks = 1 .. nb
    BY <1>1
  <1>3. Len(b.blocks) = nb
    <2>1. b.blocks \in [1 .. nb -> {b.blocks[x] : x \in 1 .. nb}]
      BY <1>1
    <2> QED
      BY <1>1, <2>1
  <1>4. /\ body \in Seq(Byte) /\ Len(body) = AtData(b, nb) + b.bytes
        /\ AtBases(b, nb) \in Nat /\ AtSpans(b, nb) \in Nat /\ AtOffs(b, nb) \in Nat
        /\ AtSums(b, nb) \in Nat /\ AtSteps(b, nb) \in Nat /\ AtData(b, nb) \in Nat
        /\ Carries(body, 0, Widths(b)) /\ Carries(body, nb, Marks(b))
        /\ Carries(body, AtBases(b, nb), BaseBytes(b)) /\ Carries(body, AtSpans(b, nb), SpanBytes(b))
        /\ Carries(body, AtOffs(b, nb), OffBytes(b)) /\ Carries(body, AtSums(b, nb), SumBytes(b))
        /\ Carries(body, AtSteps(b, nb), StrideBytes(b))
    BY BodyIs
  <1>5. Len(Widths(b)) = nb /\ Len(Marks(b)) = nb
    BY PartsAre
  <1>6. body[i] = b.blocks[i].width
    <2>1. body[0 + i] = Widths(b)[i]
      BY <1>4, <1>5 DEF Carries
    <2>2. 0 + i = i
      BY <1>1
    <2>3. Widths(b)[i] = b.blocks[i].width
      BY <1>2 DEF Widths
    <2> QED
      BY <2>1, <2>2, <2>3
  <1>7. body[nb + i] = (IF b.blocks[i].sorted THEN 1 ELSE 0)
    <2>1. body[nb + i] = Marks(b)[i]
      BY <1>4, <1>5 DEF Carries
    <2>3. Marks(b)[i] = IF b.blocks[i].sorted THEN 1 ELSE 0
      BY <1>2 DEF Marks
    <2> QED
      BY <2>1, <2>3
  <1>8. \A c \in Classes : Bytes(c) \in Nat \ {0}
    BY ElementSizes
  <1>9. /\ AtSpans(b, nb) = AtBases(b, nb) + nb * Bytes(b.bcls)
        /\ AtOffs(b, nb) = AtSpans(b, nb) + nb * Bytes(b.pcls)
        /\ AtSums(b, nb) = AtOffs(b, nb) + nb * Bytes(b.ocls)
        /\ AtSteps(b, nb) = AtSums(b, nb) + nb * Bytes(b.scls)
        /\ b.has_stride => AtData(b, nb) = AtSteps(b, nb) + nb * Bytes(b.tcls)
        /\ ~b.has_stride => AtData(b, nb) = AtSteps(b, nb)
    BY <1>4 DEF AtSpans, AtOffs, AtSums, AtSteps, AtData
  <1>10. /\ AtSpans(b, nb) <= AtOffs(b, nb) /\ AtOffs(b, nb) <= AtSums(b, nb)
         /\ AtSums(b, nb) <= AtSteps(b, nb) /\ AtSteps(b, nb) <= AtData(b, nb)
         /\ AtData(b, nb) <= Len(body)
    <2>1. ASSUME NEW c \in Classes  PROVE nb * Bytes(c) \in Nat
      BY <1>1, <1>8
    <2>2. nb * Bytes(b.pcls) \in Nat /\ nb * Bytes(b.ocls) \in Nat /\ nb * Bytes(b.scls) \in Nat
      BY <1>1, <2>1
    <2>3. b.has_stride => nb * Bytes(b.tcls) \in Nat
      BY <2>1 DEF Filed
    <2>4. AtSteps(b, nb) <= AtData(b, nb)
      BY <1>4, <1>9, <2>3
    <2> DEFINE x3 == nb * Bytes(b.pcls)
               x4 == nb * Bytes(b.ocls)
               x5 == nb * Bytes(b.scls)
    <2>5. /\ AtOffs(b, nb) = AtSpans(b, nb) + x3 /\ AtSums(b, nb) = AtOffs(b, nb) + x4
          /\ AtSteps(b, nb) = AtSums(b, nb) + x5 /\ x3 \in Nat /\ x4 \in Nat /\ x5 \in Nat
      BY <1>9, <2>2
    <2> HIDE DEF x3, x4, x5
    <2> DEFINE y2 == AtSpans(b, nb)
               y3 == AtOffs(b, nb)
               y4 == AtSums(b, nb)
               y5 == AtSteps(b, nb)
               y6 == AtData(b, nb)
               yn == Len(body)
               d  == b.bytes
    <2>6. y2 \in Nat /\ y3 = y2 + x3 /\ y4 = y3 + x4 /\ y5 = y4 + x5 /\ y5 <= y6
          /\ y6 \in Nat /\ yn = y6 + d /\ d \in Nat /\ x3 \in Nat /\ x4 \in Nat /\ x5 \in Nat
      BY <1>1, <1>4, <2>4, <2>5
    <2> HIDE DEF y2, y3, y4, y5, y6, yn, d
    <2>7. y2 <= y3 /\ y3 <= y4 /\ y4 <= y5 /\ y5 <= y6 /\ y6 <= yn
      BY ONLY <2>6
    <2> QED
      BY <2>7 DEF y2, y3, y4, y5, y6, yn
  <1>11. NumberAt(body, AtBases(b, nb) + (i - 1) * Bytes(b.bcls), Bytes(b.bcls)) = b.blocks[i].base
    <2> DEFINE cl == b.bcls
               fld == "base"
               eb == Bytes(cl)
               f  == FieldBytes(b, fld, eb)
               at == AtBases(b, nb)
    <2>1. cl \in Classes
      BY <1>1
    <2>2. \A x \in 1 .. nb : b.blocks[x].base \in Nat /\ b.blocks[x].base < Pow(b.bcls)
      BY DEF Filed
    <2>3. Carries(body, at, f) /\ at \in Nat
      BY <1>4 DEF BaseBytes
    <2>4. at + nb * eb <= Len(body)
      <3>1. at + nb * eb = AtSpans(b, nb)
        BY <1>9
      <3>2. AtSpans(b, nb) <= Len(body)
        BY <1>4, <1>10
      <3> QED
        BY <3>1, <3>2
    <2>5. Fits(b, fld, nb, cl)
      BY <2>2 DEF Fits
    <2>6. /\ eb = Bytes(cl) /\ f = FieldBytes(b, fld, eb) /\ nb \in Nat /\ Len(b.blocks) = nb
          /\ body \in Seq(Byte) /\ i \in 1 .. nb
      BY <1>1, <1>3, <1>4
    <2> HIDE DEF cl, eb, f, at, fld
    <2>7. NumberAt(body, at + (i - 1) * eb, eb) = b.blocks[i][fld]
      BY ONLY <2>1, <2>3, <2>4, <2>5, <2>6, NumbersBack
    <2> QED
      BY <2>7 DEF cl, eb, at, fld
  <1>12. NumberAt(body, AtSpans(b, nb) + (i - 1) * Bytes(b.pcls), Bytes(b.pcls)) = b.blocks[i].span
    <2> DEFINE cl == b.pcls
               fld == "span"
               eb == Bytes(cl)
               f  == FieldBytes(b, fld, eb)
               at == AtSpans(b, nb)
    <2>1. cl \in Classes
      BY <1>1
    <2>2. \A x \in 1 .. nb : b.blocks[x].span \in Nat /\ b.blocks[x].span < Pow(b.pcls)
      BY DEF Filed
    <2>3. Carries(body, at, f) /\ at \in Nat
      BY <1>4 DEF SpanBytes
    <2>4. at + nb * eb <= Len(body)
      <3>1. at + nb * eb = AtOffs(b, nb)
        BY <1>9
      <3>2. AtOffs(b, nb) <= Len(body)
        BY <1>4, <1>10
      <3> QED
        BY <3>1, <3>2
    <2>5. Fits(b, fld, nb, cl)
      BY <2>2 DEF Fits
    <2>6. /\ eb = Bytes(cl) /\ f = FieldBytes(b, fld, eb) /\ nb \in Nat /\ Len(b.blocks) = nb
          /\ body \in Seq(Byte) /\ i \in 1 .. nb
      BY <1>1, <1>3, <1>4
    <2> HIDE DEF cl, eb, f, at, fld
    <2>7. NumberAt(body, at + (i - 1) * eb, eb) = b.blocks[i][fld]
      BY ONLY <2>1, <2>3, <2>4, <2>5, <2>6, NumbersBack
    <2> QED
      BY <2>7 DEF cl, eb, at, fld
  <1>13. NumberAt(body, AtOffs(b, nb) + (i - 1) * Bytes(b.ocls), Bytes(b.ocls)) = b.blocks[i].off
    <2> DEFINE cl == b.ocls
               fld == "off"
               eb == Bytes(cl)
               f  == FieldBytes(b, fld, eb)
               at == AtOffs(b, nb)
    <2>1. cl \in Classes
      BY <1>1
    <2>2. \A x \in 1 .. nb : b.blocks[x].off \in Nat /\ b.blocks[x].off < Pow(b.ocls)
      BY DEF Filed
    <2>3. Carries(body, at, f) /\ at \in Nat
      BY <1>4 DEF OffBytes
    <2>4. at + nb * eb <= Len(body)
      <3>1. at + nb * eb = AtSums(b, nb)
        BY <1>9
      <3>2. AtSums(b, nb) <= Len(body)
        BY <1>4, <1>10
      <3> QED
        BY <3>1, <3>2
    <2>5. Fits(b, fld, nb, cl)
      BY <2>2 DEF Fits
    <2>6. /\ eb = Bytes(cl) /\ f = FieldBytes(b, fld, eb) /\ nb \in Nat /\ Len(b.blocks) = nb
          /\ body \in Seq(Byte) /\ i \in 1 .. nb
      BY <1>1, <1>3, <1>4
    <2> HIDE DEF cl, eb, f, at, fld
    <2>7. NumberAt(body, at + (i - 1) * eb, eb) = b.blocks[i][fld]
      BY ONLY <2>1, <2>3, <2>4, <2>5, <2>6, NumbersBack
    <2> QED
      BY <2>7 DEF cl, eb, at, fld
  <1>14. NumberAt(body, AtSums(b, nb) + (i - 1) * Bytes(b.scls), Bytes(b.scls)) = b.blocks[i].sum
    <2> DEFINE cl == b.scls
               fld == "sum"
               eb == Bytes(cl)
               f  == FieldBytes(b, fld, eb)
               at == AtSums(b, nb)
    <2>1. cl \in Classes
      BY <1>1
    <2>2. \A x \in 1 .. nb : b.blocks[x].sum \in Nat /\ b.blocks[x].sum < Pow(b.scls)
      BY DEF Filed
    <2>3. Carries(body, at, f) /\ at \in Nat
      BY <1>4 DEF SumBytes
    <2>4. at + nb * eb <= Len(body)
      <3>1. at + nb * eb = AtSteps(b, nb)
        BY <1>9
      <3>2. AtSteps(b, nb) <= Len(body)
        BY <1>4, <1>10
      <3> QED
        BY <3>1, <3>2
    <2>5. Fits(b, fld, nb, cl)
      BY <2>2 DEF Fits
    <2>6. /\ eb = Bytes(cl) /\ f = FieldBytes(b, fld, eb) /\ nb \in Nat /\ Len(b.blocks) = nb
          /\ body \in Seq(Byte) /\ i \in 1 .. nb
      BY <1>1, <1>3, <1>4
    <2> HIDE DEF cl, eb, f, at, fld
    <2>7. NumberAt(body, at + (i - 1) * eb, eb) = b.blocks[i][fld]
      BY ONLY <2>1, <2>3, <2>4, <2>5, <2>6, NumbersBack
    <2> QED
      BY <2>7 DEF cl, eb, at, fld
  <1>15. ASSUME b.has_stride
         PROVE  NumberAt(body, AtSteps(b, nb) + (i - 1) * Bytes(b.tcls), Bytes(b.tcls)) = b.blocks[i].stride
    <2> DEFINE cl == b.tcls
               fld == "stride"
               eb == Bytes(cl)
               f  == FieldBytes(b, fld, eb)
               at == AtSteps(b, nb)
    <2>1. cl \in Classes
      BY <1>1, <1>15 DEF Filed
    <2>2. \A x \in 1 .. nb : b.blocks[x].stride \in Nat /\ b.blocks[x].stride < Pow(b.tcls)
      BY <1>15 DEF Filed
    <2>3. Carries(body, at, f) /\ at \in Nat
      BY <1>4, <1>15 DEF StrideBytes
    <2>4. at + nb * eb <= Len(body)
      <3>1. at + nb * eb = AtData(b, nb)
        BY <1>9, <1>15
      <3>2. AtData(b, nb) <= Len(body)
        BY <1>4, <1>10
      <3> QED
        BY <3>1, <3>2
    <2>5. Fits(b, fld, nb, cl)
      BY <2>2 DEF Fits
    <2>6. /\ eb = Bytes(cl) /\ f = FieldBytes(b, fld, eb) /\ nb \in Nat /\ Len(b.blocks) = nb
          /\ body \in Seq(Byte) /\ i \in 1 .. nb
      BY <1>1, <1>3, <1>4
    <2> HIDE DEF cl, eb, f, at, fld
    <2>7. NumberAt(body, at + (i - 1) * eb, eb) = b.blocks[i][fld]
      BY ONLY <2>1, <2>3, <2>4, <2>5, <2>6, NumbersBack
    <2> QED
      BY <2>7 DEF cl, eb, at, fld
  <1> QED
    BY <1>6, <1>7, <1>11, <1>12, <1>13, <1>14, <1>15

\* A body is taken apart into the structure it was written from, and the payload's bytes.
LEMMA ParsedBack ==
  ASSUME NEW b, NEW nb, Filed(b, nb), Laid(b), b.signed \in BOOLEAN, NEW pad \in Byte,
         NEW body, body = Body(b, pad), NEW h, h = Header(b),
         NEW tcls, b.has_stride => tcls = b.tcls, NEW c, c = Parsed(h, tcls, body)
  PROVE  /\ SameNumbers(c, b)
         /\ c.data \in Seq(Byte) /\ Len(c.data) = b.bytes
         /\ \A a \in 0 .. b.bytes - 1 : c.data[a + 1] = PayloadByte(b, a, pad)
  <1>1. /\ h.nblocks = nb /\ h.bytes = b.bytes /\ h.count = b.count /\ h.block = b.block
        /\ h.signed = b.signed /\ (HasTcls(h) <=> b.has_stride)
        /\ Abs(h.bcls) = b.bcls /\ Abs(h.scls) = b.scls /\ h.pcls = b.pcls /\ h.ocls = b.ocls
        /\ Bytes(h.bcls) = Bytes(b.bcls) /\ Bytes(h.scls) = Bytes(b.scls)
        /\ DOMAIN b.blocks = 1 .. nb
    BY HeaderBack
  <1>2. nb \in Nat /\ b.bytes \in Nat /\ b.has_stride \in BOOLEAN
    BY DEF Filed
  <1>3. /\ body \in Seq(Byte) /\ Len(body) = AtData(b, nb) + b.bytes /\ AtData(b, nb) \in Nat
        /\ Carries(body, AtData(b, nb), DeltaBytes(b, pad))
    BY BodyIs
  <1> DEFINE a1 == 2 * nb
             a2 == a1 + nb * Bytes(h.bcls)
             a3 == a2 + nb * Bytes(h.pcls)
             a4 == a3 + nb * Bytes(h.ocls)
             a5 == a4 + nb * Bytes(h.scls)
             num(at, cl, i) == NumberAt(body, at + (i - 1) * Bytes(cl), Bytes(cl))
             data == SubSeq(body, Len(body) - h.bytes + 1, Len(body))
             row(i) == [width |-> body[i], sorted |-> body[nb + i] % 2 = 1,
                        base |-> num(a1, h.bcls, i), span |-> num(a2, h.pcls, i),
                        off |-> num(a3, h.ocls, i), sum |-> num(a4, h.scls, i),
                        stride |-> IF HasTcls(h) THEN num(a5, tcls, i) ELSE 1]
  <1>4. c = [NoBody(h, tcls) EXCEPT !.blocks = [i \in 1 .. nb |-> row(i)], !.data = data]
    BY <1>1 DEF Parsed
  <1>5. /\ a1 = AtBases(b, nb) /\ a2 = AtSpans(b, nb) /\ a3 = AtOffs(b, nb) /\ a4 = AtSums(b, nb)
        /\ a5 = AtSteps(b, nb)
    BY <1>1 DEF AtBases, AtSpans, AtOffs, AtSums, AtSteps
  <1> HIDE DEF a1, a2, a3, a4, a5
  <1>6. ASSUME NEW i \in 1 .. nb
        PROVE  /\ row(i).width = b.blocks[i].width /\ row(i).sorted = b.blocks[i].sorted
               /\ row(i).base = b.blocks[i].base /\ row(i).span = b.blocks[i].span
               /\ row(i).off = b.blocks[i].off /\ row(i).sum = b.blocks[i].sum
               /\ b.has_stride => row(i).stride = b.blocks[i].stride
    <2>1. /\ body[i] = b.blocks[i].width
          /\ body[nb + i] = (IF b.blocks[i].sorted THEN 1 ELSE 0)
          /\ NumberAt(body, a1 + (i - 1) * Bytes(b.bcls), Bytes(b.bcls)) = b.blocks[i].base
          /\ NumberAt(body, a2 + (i - 1) * Bytes(b.pcls), Bytes(b.pcls)) = b.blocks[i].span
          /\ NumberAt(body, a3 + (i - 1) * Bytes(b.ocls), Bytes(b.ocls)) = b.blocks[i].off
          /\ NumberAt(body, a4 + (i - 1) * Bytes(b.scls), Bytes(b.scls)) = b.blocks[i].sum
          /\ b.has_stride => NumberAt(body, a5 + (i - 1) * Bytes(b.tcls), Bytes(b.tcls))
                               = b.blocks[i].stride
      BY <1>5, BodyBack
    <2>2. num(a1, h.bcls, i) = b.blocks[i].base
      BY <1>1, <2>1
    <2>3. num(a2, h.pcls, i) = b.blocks[i].span
      BY <1>1, <2>1
    <2>4. num(a3, h.ocls, i) = b.blocks[i].off
      BY <1>1, <2>1
    <2>5. num(a4, h.scls, i) = b.blocks[i].sum
      BY <1>1, <2>1
    <2>6. b.has_stride => num(a5, tcls, i) = b.blocks[i].stride
      BY <2>1
    <2>7. (body[nb + i] % 2 = 1) = b.blocks[i].sorted
      <3>1. b.blocks[i].sorted \in BOOLEAN
        BY DEF Filed
      <3>2. CASE b.blocks[i].sorted
        <4>1. body[nb + i] = 1
          BY <2>1, <3>2
        <4>2. 1 % 2 = 1
          OBVIOUS
        <4> QED
          BY <3>1, <3>2, <4>1, <4>2
      <3>3. CASE ~b.blocks[i].sorted
        <4>1. body[nb + i] = 0
          BY <2>1, <3>3
        <4>2. ~(0 % 2 = 1)
          OBVIOUS
        <4> QED
          BY <3>1, <3>3, <4>1, <4>2
      <3> QED
        BY <3>1, <3>2, <3>3
    <2> HIDE DEF num
    <2> QED
      BY <1>1, <2>1, <2>2, <2>3, <2>4, <2>5, <2>6, <2>7
  <1> HIDE DEF row, data
  <1>7. /\ c.count = b.count /\ c.block = b.block /\ c.signed = b.signed
        /\ c.bcls = b.bcls /\ c.pcls = b.pcls /\ c.ocls = b.ocls /\ c.scls = b.scls
        /\ c.has_stride = b.has_stride /\ c.bytes = b.bytes
        /\ c.blocks = [i \in 1 .. nb |-> row(i)] /\ c.data = data
    <2>1. HasTcls(h) = b.has_stride
      BY <1>1, <1>2 DEF HasTcls
    <2> QED
      BY <1>1, <1>4, <2>1 DEF NoBody, NoBlocks
  <1>8. SameNumbers(c, b)
    <2>1. \A i \in 1 .. nb : c.blocks[i] = row(i)
      BY <1>7
    <2>2. DOMAIN c.blocks = DOMAIN b.blocks
      BY <1>1, <1>7
    <2> QED
      BY <1>1, <1>6, <1>7, <2>1, <2>2 DEF SameNumbers
  <1>9. /\ data \in Seq(Byte) /\ Len(data) = b.bytes
        /\ \A a \in 1 .. b.bytes : data[a] = body[AtData(b, nb) + a]
    <2> DEFINE at == AtData(b, nb)
               n == b.bytes
    <2>1. data = SubSeq(body, at + 1, at + n)
      <3>1. Len(body) - h.bytes = at /\ Len(body) = at + n
        BY <1>1, <1>2, <1>3
      <3> QED
        BY <3>1 DEF data
    <2>2. at \in Nat /\ n \in Nat /\ at + n <= Len(body) /\ body \in Seq(Byte)
      BY <1>2, <1>3
    <2> HIDE DEF at, n
    <2>3. /\ SubSeq(body, at + 1, at + n) \in [1 .. n -> Byte]
          /\ \A j \in 1 .. n : SubSeq(body, at + 1, at + n)[j] = body[at + j]
      BY ONLY <2>2, CutOut
    <2>4. data \in [1 .. n -> Byte] /\ \A j \in 1 .. n : data[j] = body[at + j]
      BY <2>1, <2>3
    <2>5. data \in Seq(Byte) /\ Len(data) = n
      BY <2>2, <2>4
    <2> QED
      BY <2>4, <2>5 DEF at, n
  <1>10. ASSUME NEW a \in 0 .. b.bytes - 1
         PROVE  data[a + 1] = PayloadByte(b, a, pad)
    <2>1. a + 1 \in 1 .. b.bytes /\ (a + 1) - 1 = a
      BY <1>2
    <2>2. Len(DeltaBytes(b, pad)) = b.bytes
      BY PartsAre
    <2>3. data[a + 1] = DeltaBytes(b, pad)[a + 1]
      <3>1. data[a + 1] = body[AtData(b, nb) + (a + 1)]
        BY <1>9, <2>1
      <3>2. body[AtData(b, nb) + (a + 1)] = DeltaBytes(b, pad)[a + 1]
        BY <1>3, <2>1, <2>2 DEF Carries
      <3> QED
        BY <3>1, <3>2
    <2>4. \A x \in 1 .. b.bytes : DeltaBytes(b, pad)[x] = PayloadByte(b, x - 1, pad)
      BY DEF DeltaBytes
    <2> QED
      BY <2>1, <2>3, <2>4
  <1> QED
    BY <1>7, <1>8, <1>9, <1>10

\* The deltas of a block fit its width.
LEMMA DeltasFit ==
  ASSUME NEW sg \in BOOLEAN, NEW vs, InMemory(vs, sg), NEW b, Represents(b, vs, sg),
         NEW bi \in DOMAIN b.blocks, b.blocks[bi].width # 0, NEW j \in 1 .. BlkLen(b, bi)
  PROVE  /\ b.blocks[bi].width \in Classes
         /\ Delta(b, bi, j) \in Nat /\ Delta(b, bi, j) < Pow(b.blocks[bi].width)
  <1> DEFINE fr == Blocks(vs, b.block)
             f  == fr[bi]
             p  == Piece(vs, b.block, bi)
  <1>1. Stands(b, bi, fr) /\ Describes(f, p)
    <2>1. f = Blocks(vs, b.block)[bi] /\ p = Piece(vs, b.block, bi)
      OBVIOUS
    <2> HIDE DEF f, p
    <2> QED
      BY <2>1, BlockStands
  <1>2. /\ b.blocks[bi].width = f.width /\ BlkLen(b, bi) = Len(f.index)
        /\ Delta(b, bi, j) = f.index[j]
    BY <1>1 DEF Stands
  <1> HIDE DEF f, p
  <1>3. /\ f.index \in Seq(Nat) /\ DOMAIN f.index = DOMAIN p /\ f.span \in Nat
        /\ \A x \in DOMAIN p : f.index[x] \in Nat /\ f.index[x] <= f.span
        /\ f.width \in 0 .. K /\ (f.width # 0 => f.span < Pow(f.width))
    BY <1>1 DEF Describes
  <1>4. j \in DOMAIN p
    BY <1>2, <1>3
  <1>5. f.width \in Classes /\ K \in Nat
    BY <1>2, <1>3, ClassAssumption DEF Classes
  <1>6. Pow(f.width) \in Nat
    BY <1>5, PowFacts
  <1>7. f.index[j] \in Nat /\ f.index[j] <= f.span /\ f.span < Pow(f.width)
    BY <1>2, <1>3, <1>4
  <1> QED
    BY <1>2, <1>3, <1>5, <1>6, <1>7

\* What has the numbers of a column that represents an array, and its payload, does too.
LEMMA ElementsRepresent ==
  ASSUME NEW sg \in BOOLEAN, NEW vs, InMemory(vs, sg), NEW b, Represents(b, vs, sg),
         NEW pad, NEW c, SameNumbers(c, b), c.data \in Seq(Byte), Len(c.data) = b.bytes,
         \A a \in 0 .. b.bytes - 1 : c.data[a + 1] = PayloadByte(b, a, pad)
  PROVE  Represents(Elements(c), vs, sg)
  <1> DEFINE e == Elements(c)
             fr == Blocks(vs, b.block)
             nb == CeilDiv(Len(vs), b.block)
  <1>1. /\ b.block \in Nat \ {0} /\ b.count = Len(vs) /\ b.signed = sg
        /\ DOMAIN b.blocks = 1 .. nb /\ b.bytes = PayloadEnd(fr)[nb]
        /\ \A bi \in 1 .. nb : Stands(b, bi, fr)
    BY DEF Represents
  <1>2. Laid(b)
    BY RepresentedLaid
  <1>3. Unpacked(c, b, pad)
    BY DEF Unpacked, SameNumbers, BO, BlkLen
  <1>4. /\ e.count = b.count /\ e.block = b.block /\ e.signed = b.signed
        /\ e.bcls = b.bcls /\ e.scls = b.scls /\ e.has_stride = b.has_stride
        /\ e.bytes = b.bytes /\ e.blocks = c.blocks /\ DOMAIN e.blocks = DOMAIN b.blocks
    BY DEF Elements, SameNumbers
  <1>5. ASSUME NEW bi \in 1 .. nb
        PROVE  Stands(e, bi, fr)
    <2> DEFINE f == fr[bi]
    <2>1. bi \in DOMAIN b.blocks
      BY <1>1
    <2>2. /\ b.blocks[bi].width = f.width /\ b.blocks[bi].sorted = f.sorted
          /\ BB(b, bi) = Wrap(f.base) /\ BT(b, bi) = f.stride
          /\ BP(b, bi) = f.span /\ BS(b, bi) = f.sum
          /\ BlkLen(b, bi) = Len(f.index)
          /\ f.width # 0 => BO(b, bi) = Offset(fr, bi)
          /\ \A j \in 1 .. Len(f.index) : Delta(b, bi, j) = f.index[j]
      BY <1>1 DEF Stands
    <2> HIDE DEF f, e, fr, nb
    <2>3. /\ e.blocks[bi].width = b.blocks[bi].width /\ e.blocks[bi].sorted = b.blocks[bi].sorted
          /\ e.blocks[bi].base = b.blocks[bi].base /\ e.blocks[bi].span = b.blocks[bi].span
          /\ e.blocks[bi].off = b.blocks[bi].off /\ e.blocks[bi].sum = b.blocks[bi].sum
          /\ b.has_stride => e.blocks[bi].stride = b.blocks[bi].stride
      BY <1>4, <2>1 DEF SameNumbers
    <2>4. BB(e, bi) = BB(b, bi) /\ BS(e, bi) = BS(b, bi)
      BY <1>4, <2>3 DEF BB, BS, ReadBack
    <2>5. BT(e, bi) = BT(b, bi)
      BY <1>4, <2>3 DEF BT
    <2>6. BP(e, bi) = BP(b, bi) /\ BO(e, bi) = BO(b, bi) /\ BlkLen(e, bi) = BlkLen(b, bi)
      BY <1>4, <2>3 DEF BP, BO, BlkLen
    <2>7. ASSUME NEW j \in 1 .. Len(f.index)
          PROVE  Delta(e, bi, j) = Delta(b, bi, j)
      <3> DEFINE wd == b.blocks[bi].width
      <3>1. CASE wd = 0
        BY <2>3, <3>1 DEF Delta
      <3>2. CASE wd # 0
        <4>1. j \in 1 .. BlkLen(b, bi)
          BY <2>2
        <4>2. wd \in Classes /\ Delta(b, bi, j) \in Nat /\ Delta(b, bi, j) < Pow(wd)
          BY <2>1, <3>2, <4>1, DeltasFit
        <4>3. wd = b.blocks[bi].width
          OBVIOUS
        <4> HIDE DEF wd
        <4>4. Elements(c).data[BO(b, bi) + (j - 1) * Bytes(wd)] = Delta(b, bi, j) \/ wd = 0
          BY <1>2, <1>3, <2>1, <4>1, <4>2, <4>3, ElementsBack
        <4>5. Delta(e, bi, j) = e.data[BO(b, bi) + (j - 1) * Bytes(wd)]
          BY <2>3, <2>6, <3>2, <4>3 DEF Delta
        <4> QED
          BY <3>2, <4>4, <4>5 DEF e
      <3> QED
        BY <3>1, <3>2
    <2>8. \A j \in 1 .. Len(f.index) : Delta(e, bi, j) = f.index[j]
      BY <2>2, <2>7
    <2> QED
      BY <2>2, <2>3, <2>4, <2>5, <2>6, <2>8 DEF Stands, f
  <1> HIDE DEF e
  <1>6. e.block = b.block
    BY <1>4
  <1>7. Represents(e, vs, sg)
    BY <1>1, <1>4, <1>5, <1>6 DEF Represents
  <1> QED
    BY <1>7 DEF e

\* The length of a body, as the loader works it out from the header.
LEMMA BodyLenIs ==
  ASSUME NEW b, NEW nb, Filed(b, nb), Laid(b), b.signed \in BOOLEAN, NEW pad \in Byte,
         NEW h, h = Header(b), NEW tcls, b.has_stride => tcls = b.tcls
  PROVE  /\ BodyLen(h, tcls) = Len(Body(b, pad)) /\ BodyLen(h, tcls) \in Nat
         /\ BodyLen(h, tcls) = nb * PerBlock(h, tcls) + b.bytes
  <1> DEFINE B1 == Bytes(b.bcls)
             B2 == Bytes(b.pcls)
             B3 == Bytes(b.ocls)
             B4 == Bytes(b.scls)
             B5 == IF b.has_stride THEN Bytes(b.tcls) ELSE 0
  <1>1. /\ h.nblocks = nb /\ h.bytes = b.bytes /\ (HasTcls(h) <=> b.has_stride)
        /\ h.pcls = b.pcls /\ h.ocls = b.ocls
        /\ Bytes(h.bcls) = B1 /\ Bytes(h.scls) = B4
    BY HeaderBack
  <1>2. /\ nb \in Nat /\ b.bytes \in Nat /\ {b.bcls, b.pcls, b.ocls, b.scls} \subseteq Classes
        /\ b.has_stride \in BOOLEAN /\ (b.has_stride => b.tcls \in Classes)
    BY DEF Filed
  <1>3. B1 \in Nat /\ B2 \in Nat /\ B3 \in Nat /\ B4 \in Nat /\ B5 \in Nat
    BY <1>2, ElementSizes
  <1>4. PerBlock(h, tcls) = 2 + B1 + B2 + B3 + B4 + B5
    <2>1. PerBlock(h, tcls) = 2 + Bytes(h.bcls) + Bytes(h.pcls) + Bytes(h.ocls) + Bytes(h.scls)
                                + IF HasTcls(h) THEN Bytes(tcls) ELSE 0
      BY DEF PerBlock
    <2>2. (IF HasTcls(h) THEN Bytes(tcls) ELSE 0) = B5
      BY <1>1, <1>2
    <2>3. Bytes(h.pcls) = B2 /\ Bytes(h.ocls) = B3
      BY <1>1
    <2> HIDE DEF B1, B2, B3, B4, B5
    <2> QED
      BY <1>1, <2>1, <2>2, <2>3
  <1>5. /\ AtData(b, nb) = 2 * nb + nb * B1 + nb * B2 + nb * B3 + nb * B4 + nb * B5
        /\ Len(Body(b, pad)) = AtData(b, nb) + b.bytes
    <2>1. Len(Body(b, pad)) = AtData(b, nb) + b.bytes
      BY BodyIs
    <2>2. AtData(b, nb) = AtSteps(b, nb) + IF b.has_stride THEN nb * Bytes(b.tcls) ELSE 0
      BY DEF AtData
    <2>3. (IF b.has_stride THEN nb * Bytes(b.tcls) ELSE 0) = nb * B5
      BY <1>2
    <2>4. AtSteps(b, nb) = 2 * nb + nb * B1 + nb * B2 + nb * B3 + nb * B4
      BY DEF AtSteps, AtSums, AtOffs, AtSpans, AtBases
    <2> HIDE DEF B1, B2, B3, B4, B5
    <2> QED
      BY <2>1, <2>2, <2>3, <2>4
  <1> HIDE DEF B1, B2, B3, B4, B5
  <1>6. nb * (2 + B1 + B2 + B3 + B4 + B5) = 2 * nb + nb * B1 + nb * B2 + nb * B3 + nb * B4 + nb * B5
    BY <1>2, <1>3
  <1>7. BodyLen(h, tcls) = nb * PerBlock(h, tcls) + b.bytes
    BY <1>1 DEF BodyLen
  <1>8. nb * PerBlock(h, tcls) \in Nat
    BY <1>2, <1>3, <1>4
  <1> QED
    BY <1>2, <1>4, <1>5, <1>6, <1>7, <1>8

\* A column built from an array, as the files need it.
LEMMA BuiltStored ==
  ASSUME NEW sg \in BOOLEAN, NEW vs, InMemory(vs, sg), NEW block \in Nat,
         NEW b, b = BlockedOf(vs, sg, block), b.block + Len(vs) <= Pow(K),
         NEW nb, nb = CeilDiv(Len(vs), b.block)
  PROVE  Represents(b, vs, sg) /\ Filed(b, nb) /\ Laid(b) /\ b.signed = sg
  <1>1. Represents(b, vs, sg)
    BY BuiltRepresents
  <1>2. Filed(b, nb)
    BY BuiltFiled
  <1> QED
    BY <1>1, <1>2, RepresentedLaid DEF Represents

\* Whatever is made of the body of a saved column represents the array.
LEMMA BodyAccepted ==
  ASSUME NEW sg \in BOOLEAN, NEW vs, InMemory(vs, sg), NEW block \in Nat,
         NEW b, b = BlockedOf(vs, sg, block), b.block + Len(vs) <= Pow(K),
         NEW pad \in Byte, NEW h, h = Header(b),
         NEW tcls, b.has_stride => tcls = b.tcls,
         NEW r, r = ParsedGood(Parsed(h, tcls, Body(b, pad))), r.ret
  PROVE  Represents(r.blk, vs, sg)
  <1> DEFINE nb == CeilDiv(Len(vs), b.block)
             c  == Parsed(h, tcls, Body(b, pad))
  <1>1. Represents(b, vs, sg) /\ Filed(b, nb) /\ Laid(b) /\ b.signed = sg
    BY BuiltStored
  <1> HIDE DEF nb
  <1>2. /\ SameNumbers(c, b)
        /\ c.data \in Seq(Byte) /\ Len(c.data) = b.bytes
        /\ \A a \in 0 .. b.bytes - 1 : c.data[a + 1] = PayloadByte(b, a, pad)
    BY <1>1, ParsedBack
  <1> HIDE DEF c
  <1>3. r.blk = Elements(c)
    <2>1. r = IF BlocksGood(c) THEN [blk |-> Elements(c), ret |-> TRUE] ELSE RefusedFile
      BY DEF ParsedGood, c
    <2> QED
      BY <2>1 DEF RefusedFile
  <1> QED
    BY <1>1, <1>2, <1>3, ElementsRepresent

\* Elements of two classes have different lengths.
LEMMA BytesTell ==
  ASSUME NEW c \in Classes, NEW d \in Classes, Bytes(c) = Bytes(d)
  PROVE  c = d
  <1>1. c \in Int /\ d \in Int /\ c > 0 /\ d > 0 /\ c <= K /\ d <= K /\ K \in Nat
    BY ClassAssumption DEF Classes
  <1>2. Bytes(c) = ElemBytes[c] /\ Bytes(d) = ElemBytes[d]
    BY <1>1 DEF Bytes, Abs
  <1>3. Pow(c) = Pow(d)
    BY <1>2, ByteAssumption
  <1>4. ASSUME NEW e \in Classes, NEW f \in Classes, e < f PROVE Pow(e) < Pow(f)
    <2>1. Pow(e) <= Half[f] /\ Half[f] \in Nat /\ Pow(f) \in Nat
      BY <1>4, Wider
    <2>2. Pow(f) = 2 * Half[f] /\ Half[f] > 0
      BY PowFacts DEF Pow
    <2> QED
      BY <2>1, <2>2, PowFacts
  <1>5. Pow(c) \in Nat /\ Pow(d) \in Nat
    BY PowFacts
  <1> QED
    BY <1>1, <1>3, <1>4, <1>5

\* The numbers and the sign of one header are those of another.
Announces(g, h) ==
  g.count = h.count /\ g.block = h.block /\ g.nblocks = h.nblocks
  /\ g.bytes = h.bytes /\ g.signed = h.signed

\* Another header than the one that was saved: one thing about it differs, and that is
\* none of its numbers.
OtherHead(h, g) ==
  \/ g = [h EXCEPT !.magic = "unknown"] \/ g = [h EXCEPT !.signed = ~@]
  \/ \E x \in 1 .. 4 : g = [h EXCEPT !.fmt = x]
  \/ \E c \in -K .. K : \/ g = [h EXCEPT !.bcls = c] \/ g = [h EXCEPT !.pcls = c]
                        \/ g = [h EXCEPT !.ocls = c] \/ g = [h EXCEPT !.scls = c]

\* The class of the strides takes a byte of its own.
Skip(h) == IF HasTcls(h) THEN 1 ELSE 0

\* A header is a record of its fields.
LEMMA HeadFields ==
  ASSUME NEW b, NEW h, h = Header(b)
  PROVE  h = [magic |-> h.magic, class |-> h.class, signed |-> h.signed, fmt |-> h.fmt,
              rsvd |-> h.rsvd, count |-> h.count, block |-> h.block, nblocks |-> h.nblocks,
              bcls |-> h.bcls, pcls |-> h.pcls, ocls |-> h.ocls, scls |-> h.scls, bytes |-> h.bytes]
  BY DEF Header

\* A class byte is known by its sign and by the length of its elements.
LEMMA ClassTold ==
  ASSUME NEW e, NEW o, IsClass(e), IsClass(o), e \in Int, o \in Int, (e < 0) = (o < 0),
         Bytes(e) = Bytes(o)
  PROVE  e = o
  <1>1. Abs(e) \in Classes /\ Abs(o) \in Classes
    BY DEF IsClass
  <1>2. Abs(e) > 0 /\ Abs(o) > 0 /\ Abs(e) \in Int /\ Abs(o) \in Int
    BY SMTT(60), <1>1, ClassAssumption DEF Classes
  <1>3. e # 0 /\ o # 0
    BY <1>2 DEF Abs
  <1>4. Bytes(e) = Bytes(Abs(e)) /\ Bytes(o) = Bytes(Abs(o))
    <2>1. Abs(Abs(e)) = Abs(e) /\ Abs(Abs(o)) = Abs(o)
      BY <1>2 DEF Abs
    <2> QED
      BY <1>2, <1>3, <2>1 DEF Bytes
  <1>5. Abs(e) = Abs(o)
    BY <1>1, <1>4, BytesTell
  <1> QED
    BY <1>5 DEF Abs


\* Equal multiples are multiples of equals.
LEMMA Cancel ==
  ASSUME NEW n \in Nat \ {0}, NEW x \in Nat, NEW y \in Nat, n * x = n * y
  PROVE  x = y
  OBVIOUS

\* The class a class byte names, of either sign, has a length.
LEMMA ClassBytes ==
  ASSUME NEW c, IsClass(c), c \in Int
  PROVE  Bytes(c) \in Nat
  <1>1. Abs(c) \in Classes /\ Abs(c) # 0
    BY ClassAssumption DEF IsClass, Classes
  <1>2. c # 0 /\ Bytes(c) = ElemBytes[Abs(c)]
    BY <1>1 DEF Bytes, Abs
  <1> QED
    BY <1>1, <1>2, PowFacts

\* The bytes of bookkeeping of one block, apart from the step.
Bookkeeping(h) == 2 + Bytes(h.bcls) + Bytes(h.pcls) + Bytes(h.ocls) + Bytes(h.scls)
\* The length of the body a header announces, with or without steps.
LEMMA BodyLenOf ==
  ASSUME NEW h, h.nblocks \in Nat, h.bytes \in Nat, ClassesGood(h),
         {h.bcls, h.pcls, h.ocls, h.scls} \subseteq Int, NEW t, HasTcls(h) => t \in Classes
  PROVE  /\ Bookkeeping(h) \in Nat \ {0}
         /\ ~HasTcls(h) => BodyLen(h, t) = h.nblocks * Bookkeeping(h) + h.bytes
         /\ HasTcls(h) => /\ BodyLen(h, t) = h.nblocks * (Bookkeeping(h) + Bytes(t)) + h.bytes
                          /\ Bytes(t) \in Nat
  <1>1. Bytes(h.bcls) \in Nat /\ Bytes(h.pcls) \in Nat /\ Bytes(h.ocls) \in Nat /\ Bytes(h.scls) \in Nat
    BY ClassBytes DEF ClassesGood
  <1>2. HasTcls(h) => Bytes(t) \in Nat
    BY ElementSizes
  <1>3. PerBlock(h, t) = Bookkeeping(h) + IF HasTcls(h) THEN Bytes(t) ELSE 0
    <2>1. PerBlock(h, t) = 2 + Bytes(h.bcls) + Bytes(h.pcls) + Bytes(h.ocls) + Bytes(h.scls)
                             + IF HasTcls(h) THEN Bytes(t) ELSE 0
      BY DEF PerBlock
    <2> QED
      BY <2>1 DEF Bookkeeping
  <1>4. Bookkeeping(h) \in Nat \ {0}
    BY <1>1 DEF Bookkeeping
  <1>5. ~HasTcls(h) => PerBlock(h, t) = Bookkeeping(h)
    BY <1>3, <1>4
  <1>6. HasTcls(h) => PerBlock(h, t) = Bookkeeping(h) + Bytes(t)
    BY <1>3
  <1> QED
    BY <1>2, <1>4, <1>5, <1>6 DEF BodyLen

\* The bodies of two headers, with the class of the strides before them, are as long.
SameLength(g, h, b, t) ==
  /\ HasTcls(g) => t \in Classes
  /\ HasTcls(g) /\ HasTcls(h) => t = b.tcls
  /\ Skip(g) + BodyLen(g, t) = Skip(h) + BodyLen(h, b.tcls)

\* Another header either is refused or says the same, but for classes of another length.
LEMMA HeadTold ==
  ASSUME NEW b, NEW nb, Filed(b, nb), b.signed \in BOOLEAN, NEW h, h = Header(b),
         NEW g, OtherHead(h, g), FormatGood(g), ClassesGood(g)
  PROVE  /\ Announces(g, h)
         /\ \A t : nb # 0 /\ SameLength(g, h, b, t) => g = h
  <1> DEFINE Same == \A t : nb # 0 /\ SameLength(g, h, b, t) => g = h
  <1> SUFFICES Announces(g, h) /\ Same
    OBVIOUS
  <1>1. /\ h.nblocks = nb /\ h.bytes = b.bytes /\ (HasTcls(h) <=> b.has_stride) /\ h.signed = b.signed
        /\ FormatGood(h) /\ ClassesGood(h) /\ h.pcls = b.pcls /\ h.ocls = b.ocls
    BY HeaderBack
  <1>2. /\ nb \in Nat /\ b.bytes \in Nat /\ (b.has_stride => b.tcls \in Classes)
        /\ {b.bcls, b.pcls, b.ocls, b.scls} \subseteq Classes
    BY DEF Filed
  <1>3. {h.bcls, h.pcls, h.ocls, h.scls} \subseteq Int
    <2>1. {b.bcls, b.pcls, b.ocls, b.scls} \subseteq Int
      BY SMTT(60), <1>2, ClassAssumption DEF Classes
    <2>2. h.bcls \in Int /\ h.scls \in Int
      BY <2>1 DEF Header, ClassByte
    <2> QED
      BY <1>1, <2>1, <2>2
  <1>4. h = [magic |-> h.magic, class |-> h.class, signed |-> h.signed, fmt |-> h.fmt,
              rsvd |-> h.rsvd, count |-> h.count, block |-> h.block, nblocks |-> h.nblocks,
              bcls |-> h.bcls, pcls |-> h.pcls, ocls |-> h.ocls, scls |-> h.scls, bytes |-> h.bytes]
    BY HeadFields
  <1>5. g.magic # "unknown" /\ h.signed \in BOOLEAN
    BY <1>1 DEF FormatGood
  <1>6. CASE g = [h EXCEPT !.magic = "unknown"]
    BY <1>4, <1>5, <1>6
  <1>7. CASE g = [h EXCEPT !.signed = ~@]
    <2>1. g.bcls = h.bcls /\ g.signed = ~h.signed
      BY <1>4, <1>7
    <2>2. (g.bcls < 0) = g.signed /\ (h.bcls < 0) = h.signed
      BY <1>1 DEF ClassesGood
    <2> QED
      BY <1>5, <2>1, <2>2
  <1>8. ASSUME NEW x, g = [h EXCEPT !.fmt = x]
        PROVE  Announces(g, h) /\ Same
    <2>1. g.fmt = x /\ Bookkeeping(g) = Bookkeeping(h) /\ Announces(g, h)
      BY <1>4, <1>8 DEF Bookkeeping, Announces
    <2>2. x \in {2, 3} /\ h.fmt \in {2, 3}
      BY <1>1, <2>1 DEF FormatGood
    <2>3. CASE x = h.fmt
      BY <1>4, <1>8, <2>1, <2>3
    <2>4. CASE x # h.fmt
      <3>1. HasTcls(g) <=> ~HasTcls(h)
        BY <2>1, <2>2, <2>4 DEF HasTcls
      <3> SUFFICES ASSUME NEW t, HasTcls(g) => t \in Classes,
                          Skip(g) + BodyLen(g, t) = Skip(h) + BodyLen(h, b.tcls)
                   PROVE  FALSE
        BY <2>1 DEF SameLength
      <3>2. g.nblocks = nb /\ g.bytes = b.bytes /\ {g.bcls, g.pcls, g.ocls, g.scls} \subseteq Int
        BY <1>1, <1>3, <1>4, <1>8
      <3> DEFINE p == Bookkeeping(h)
                 u == Bytes(t)
                 w == Bytes(b.tcls)
      <3>3. p \in Nat
        BY <1>1, <1>2, <1>3, BodyLenOf
      <3>4. /\ ~HasTcls(g) => BodyLen(g, t) = nb * p + b.bytes
            /\ HasTcls(g) => BodyLen(g, t) = nb * (p + u) + b.bytes /\ u \in Nat
        BY <1>2, <2>1, <3>2, BodyLenOf
      <3>5. /\ ~HasTcls(h) => BodyLen(h, b.tcls) = nb * p + b.bytes
            /\ HasTcls(h) => BodyLen(h, b.tcls) = nb * (p + w) + b.bytes /\ w \in Nat
        BY <1>1, <1>2, <1>3, BodyLenOf
      <3> HIDE DEF p, u, w
      <3>6. CASE HasTcls(g)
        <4>1. /\ 1 + (nb * (p + u) + b.bytes) = 0 + (nb * p + b.bytes) /\ u \in Nat
          BY <3>1, <3>4, <3>5, <3>6 DEF Skip
        <4>2. nb * (p + u) = nb * p + nb * u /\ nb * p \in Nat /\ nb * u \in Nat
          BY <1>2, <3>3, <4>1
        <4> QED
          BY ONLY <4>1, <4>2, <1>2
      <3>7. CASE HasTcls(h)
        <4>1. /\ 0 + (nb * p + b.bytes) = 1 + (nb * (p + w) + b.bytes) /\ w \in Nat
          BY <3>1, <3>4, <3>5, <3>7 DEF Skip
        <4>2. nb * (p + w) = nb * p + nb * w /\ nb * p \in Nat /\ nb * w \in Nat
          BY <1>2, <3>3, <4>1
        <4> QED
          BY ONLY <4>1, <4>2, <1>2
      <3> QED
        BY <3>1, <3>6, <3>7
    <2> QED
      BY <2>3, <2>4
  <1>9. ASSUME Announces(g, h), g.fmt = h.fmt, {g.bcls, g.pcls, g.ocls, g.scls} \subseteq Int,
               NEW t, nb # 0, HasTcls(g) => t \in Classes, HasTcls(g) /\ HasTcls(h) => t = b.tcls,
               Skip(g) + BodyLen(g, t) = Skip(h) + BodyLen(h, b.tcls)
        PROVE  Bookkeeping(g) = Bookkeeping(h)
    <2> DEFINE p == Bookkeeping(g)
               q == Bookkeeping(h)
               w == Bytes(b.tcls)
    <2>1. HasTcls(g) <=> HasTcls(h)
      BY <1>9 DEF HasTcls
    <2>2. g.nblocks = nb /\ g.bytes = b.bytes
      BY <1>1, <1>9 DEF Announces
    <2>3. /\ p \in Nat
          /\ ~HasTcls(g) => BodyLen(g, t) = nb * p + b.bytes
          /\ HasTcls(g) => BodyLen(g, t) = nb * (p + w) + b.bytes /\ w \in Nat
      BY <1>2, <1>9, <2>1, <2>2, BodyLenOf
    <2>4. /\ q \in Nat
          /\ ~HasTcls(h) => BodyLen(h, b.tcls) = nb * q + b.bytes
          /\ HasTcls(h) => BodyLen(h, b.tcls) = nb * (q + w) + b.bytes
      BY <1>1, <1>2, <1>3, BodyLenOf
    <2>5. Skip(g) = Skip(h) /\ Skip(h) \in Nat
      BY <2>1 DEF Skip
    <2> HIDE DEF p, q, w
    <2>6. CASE ~HasTcls(h)
      <3>1. nb * p + b.bytes = nb * q + b.bytes
        <4>1. Skip(h) + (nb * p + b.bytes) = Skip(h) + (nb * q + b.bytes)
          BY <1>9, <2>1, <2>3, <2>4, <2>5, <2>6
        <4>2. nb * p \in Nat /\ nb * q \in Nat
          BY <1>2, <2>3, <2>4
        <4> QED
          BY ONLY <4>1, <4>2, <1>2, <2>5
      <3>2. nb * p = nb * q
        <4>2. nb * p \in Nat /\ nb * q \in Nat
          BY <1>2, <2>3, <2>4
        <4> QED
          BY ONLY <3>1, <4>2, <1>2
      <3>3. p = q
        BY ONLY <3>2, <1>2, <1>9, <2>3, <2>4, Cancel
      <3> QED
        BY <3>3 DEF p, q
    <2>7. CASE HasTcls(h)
      <3>0. p + w \in Nat /\ q + w \in Nat /\ w \in Nat
        BY <2>1, <2>3, <2>4, <2>7
      <3>1. nb * (p + w) + b.bytes = nb * (q + w) + b.bytes
        <4>1. Skip(h) + (nb * (p + w) + b.bytes) = Skip(h) + (nb * (q + w) + b.bytes)
          BY <1>9, <2>1, <2>3, <2>4, <2>5, <2>7
        <4>2. nb * (p + w) \in Nat /\ nb * (q + w) \in Nat
          BY <1>2, <3>0
        <4> QED
          BY ONLY <4>1, <4>2, <1>2, <2>5
      <3>2. nb * (p + w) = nb * (q + w)
        <4>2. nb * (p + w) \in Nat /\ nb * (q + w) \in Nat
          BY <1>2, <3>0
        <4> QED
          BY ONLY <3>1, <4>2, <1>2
      <3>3. p + w = q + w
        BY ONLY <3>2, <1>2, <1>9, <3>0, Cancel
      <3>4. p = q
        BY ONLY <3>3, <3>0, <2>3, <2>4
      <3> QED
        BY <3>4 DEF p, q
    <2> QED
      BY <2>6, <2>7
  <1>10. ASSUME NEW c \in -K .. K,
                \/ g = [h EXCEPT !.bcls = c] \/ g = [h EXCEPT !.pcls = c]
                \/ g = [h EXCEPT !.ocls = c] \/ g = [h EXCEPT !.scls = c]
         PROVE  Announces(g, h) /\ Same
    <2>1. c \in Int
      BY ClassAssumption
    <2>2. Announces(g, h) /\ g.fmt = h.fmt /\ {g.bcls, g.pcls, g.ocls, g.scls} \subseteq Int
      BY <1>3, <1>4, <1>10, <2>1 DEF Announces
    <2>3. /\ Bytes(h.bcls) \in Nat /\ Bytes(h.pcls) \in Nat /\ Bytes(h.ocls) \in Nat /\ Bytes(h.scls) \in Nat
          /\ Bytes(g.bcls) \in Nat /\ Bytes(g.pcls) \in Nat /\ Bytes(g.ocls) \in Nat /\ Bytes(g.scls) \in Nat
      BY <1>1, <1>3, <2>2, ClassBytes DEF ClassesGood
    <2> SUFFICES ASSUME NEW t, nb # 0, HasTcls(g) => t \in Classes,
                        HasTcls(g) /\ HasTcls(h) => t = b.tcls,
                        Skip(g) + BodyLen(g, t) = Skip(h) + BodyLen(h, b.tcls)
                 PROVE  g = h
      BY <2>2 DEF SameLength
    <2>4. Bookkeeping(g) = Bookkeeping(h)
      BY <1>9, <2>2
    <2>5. \A e \in {h.bcls, h.pcls, h.ocls, h.scls, g.bcls, g.pcls, g.ocls, g.scls} : IsClass(e) /\ e \in Int
      BY <1>1, <1>3, <2>2 DEF ClassesGood
    <2>6. /\ (h.bcls < 0) = h.signed /\ (h.scls < 0) = h.signed /\ (g.bcls < 0) = h.signed
          /\ (g.scls < 0) = h.signed
      BY <1>1, <2>2 DEF ClassesGood, Announces
    <2>7. h.pcls > 0 /\ h.ocls > 0 /\ g.pcls > 0 /\ g.ocls > 0
      BY <1>1 DEF ClassesGood
    <2>8. CASE g = [h EXCEPT !.bcls = c]
      <3>1. g.bcls = c /\ g.pcls = h.pcls /\ g.ocls = h.ocls /\ g.scls = h.scls
        BY <1>4, <2>8
      <3>2. Bytes(g.bcls) = Bytes(h.bcls)
        BY <2>3, <2>4, <3>1 DEF Bookkeeping
      <3>3. c = h.bcls
        BY <2>5, <2>6, <3>1, <3>2, ClassTold
      <3> QED
        BY <1>4, <2>8, <3>3
    <2>9. CASE g = [h EXCEPT !.pcls = c]
      <3>1. g.pcls = c /\ g.bcls = h.bcls /\ g.ocls = h.ocls /\ g.scls = h.scls
        BY <1>4, <2>9
      <3>2. Bytes(g.pcls) = Bytes(h.pcls)
        BY <2>3, <2>4, <3>1 DEF Bookkeeping
      <3>3. (g.pcls < 0) = (h.pcls < 0)
        BY <2>5, <2>7
      <3>4. c = h.pcls
        BY <2>5, <3>1, <3>2, <3>3, ClassTold
      <3> QED
        BY <1>4, <2>9, <3>4
    <2>10. CASE g = [h EXCEPT !.ocls = c]
      <3>1. g.ocls = c /\ g.bcls = h.bcls /\ g.pcls = h.pcls /\ g.scls = h.scls
        BY <1>4, <2>10
      <3>2. Bytes(g.ocls) = Bytes(h.ocls)
        BY <2>3, <2>4, <3>1 DEF Bookkeeping
      <3>3. (g.ocls < 0) = (h.ocls < 0)
        BY <2>5, <2>7
      <3>4. c = h.ocls
        BY <2>5, <3>1, <3>2, <3>3, ClassTold
      <3> QED
        BY <1>4, <2>10, <3>4
    <2>11. CASE g = [h EXCEPT !.scls = c]
      <3>1. g.scls = c /\ g.bcls = h.bcls /\ g.pcls = h.pcls /\ g.ocls = h.ocls
        BY <1>4, <2>11
      <3>2. Bytes(g.scls) = Bytes(h.scls)
        BY <2>3, <2>4, <3>1 DEF Bookkeeping
      <3>3. c = h.scls
        BY <2>5, <2>6, <3>1, <3>2, ClassTold
      <3> QED
        BY <1>4, <2>11, <3>3
    <2> QED
      BY <1>10, <2>8, <2>9, <2>10, <2>11
  <1>11. \/ g = [h EXCEPT !.magic = "unknown"] \/ g = [h EXCEPT !.signed = ~@]
         \/ \E x \in 1 .. 4 : g = [h EXCEPT !.fmt = x]
         \/ \E c \in -K .. K : \/ g = [h EXCEPT !.bcls = c] \/ g = [h EXCEPT !.pcls = c]
                               \/ g = [h EXCEPT !.ocls = c] \/ g = [h EXCEPT !.scls = c]
    BY DEF OtherHead
  <1> HIDE DEF Same
  <1>12. CASE \E x \in 1 .. 4 : g = [h EXCEPT !.fmt = x]
    BY <1>8, <1>12
  <1>13. CASE \E c \in -K .. K : \/ g = [h EXCEPT !.bcls = c] \/ g = [h EXCEPT !.pcls = c]
                               \/ g = [h EXCEPT !.ocls = c] \/ g = [h EXCEPT !.scls = c]
    BY <1>10, <1>13
  <1> QED
    BY <1>6, <1>7, <1>11, <1>12, <1>13

\* A file without blocks is the column of the empty array.
LEMMA NothingRepresents ==
  ASSUME NEW sg \in BOOLEAN, NEW vs, InMemory(vs, sg), NEW block \in Nat,
         NEW b, b = BlockedOf(vs, sg, block), b.block + Len(vs) <= Pow(K),
         NEW h, h = Header(b), h.nblocks = 0,
         NEW g, Announces(g, h), NEW tcls
  PROVE  Represents(NoBody(g, tcls), vs, sg)
  <1> DEFINE nb == CeilDiv(Len(vs), b.block)
             e  == NoBody(g, tcls)
  <1>1. Represents(b, vs, sg) /\ Filed(b, nb) /\ Laid(b) /\ b.signed = sg
    BY BuiltStored
  <1>2. nb = 0
    <2> DEFINE n == nb
    <2>1. Filed(b, n) /\ b.signed \in BOOLEAN
      BY <1>1
    <2> HIDE DEF n
    <2>2. h.nblocks = n
      BY <2>1, <1>1, HeaderBack
    <2> QED
      BY <2>2 DEF n
  <1>3. /\ b.block \in Nat \ {0} /\ b.count = Len(vs) /\ b.signed = sg
        /\ b.bytes = PayloadEnd(Blocks(vs, b.block))[nb]
    BY <1>1 DEF Represents
  <1>4. e.block = b.block /\ e.count = b.count /\ e.signed = sg /\ e.bytes = b.bytes /\ e.blocks = <<>>
    <2>1. h.block = b.block /\ h.count = b.count /\ h.signed = b.signed /\ h.bytes = b.bytes
      BY DEF Header
    <2> QED
      BY <1>1, <2>1 DEF NoBody, NoBlocks, Announces
  <1> HIDE DEF e
  <1>5. DOMAIN e.blocks = 1 .. nb
    BY <1>2, <1>4
  <1>6. Represents(e, vs, sg)
    <2>1. nb = CeilDiv(Len(vs), e.block) /\ e.block = b.block
      BY <1>4
    <2>2. \A bi \in 1 .. nb : FALSE
      BY <1>2
    <2> HIDE DEF nb
    <2> QED
      BY <1>3, <1>4, <1>5, <2>1, <2>2 DEF Represents
  <1> QED
    BY <1>6 DEF e

\* What is left of two pieces joined when the first is taken off.
LEMMA TailOf ==
  ASSUME NEW S, NEW s \in Seq(S), NEW t \in Seq(S), NEW r, r = s \o t
  PROVE  /\ r \in Seq(S) /\ Len(r) = Len(s) + Len(t)
         /\ \A i \in 1 .. Len(s) : r[i] = s[i]
         /\ SubSeq(r, Len(r) - Len(t) + 1, Len(r)) = t
  <1> DEFINE m == Len(s)
             n == Len(t)
  <1>1. r \in Seq(S) /\ Len(r) = m + n /\ m \in Nat /\ n \in Nat
    OBVIOUS
  <1>2. \A i \in 1 .. m : r[i] = s[i]
    OBVIOUS
  <1>3. \A i \in 1 .. n : r[m + i] = t[i]
    OBVIOUS
  <1>4. t \in [1 .. n -> S]
    OBVIOUS
  <1>5. Len(r) - n + 1 = m + 1 /\ Len(r) = m + n
    BY <1>1
  <1> HIDE DEF m, n
  <1>6. SubSeq(r, m + 1, m + n) \in [1 .. n -> S]
    BY ONLY <1>1, CutOut
  <1>7. \A j \in 1 .. n : SubSeq(r, m + 1, m + n)[j] = r[m + j]
    BY ONLY <1>1, CutOut
  <1> DEFINE x == SubSeq(r, m + 1, m + n)
  <1>8. x \in [1 .. n -> S] /\ \A j \in 1 .. n : x[j] = t[j]
    BY <1>3, <1>6, <1>7
  <1> HIDE DEF x
  <1>9. x = t
    <2>1. x = [j \in 1 .. n |-> x[j]] /\ t = [j \in 1 .. n |-> t[j]]
      BY ONLY <1>4, <1>8
    <2>2. [j \in 1 .. n |-> x[j]] = [j \in 1 .. n |-> t[j]]
      BY ONLY <1>8
    <2> QED
      BY ONLY <2>1, <2>2
  <1> QED
    BY <1>1, <1>2, <1>5, <1>9 DEF x, m, n

\* The body of a column at the end of a file, behind the class of the strides where
\* there are strides.
Led(rest, body, b) ==
  /\ rest \in Seq(Byte) /\ body \in Seq(Byte)
  /\ Len(rest) = (IF b.has_stride THEN 1 ELSE 0) + Len(body)
  /\ SubSeq(rest, Len(rest) - Len(body) + 1, Len(rest)) = body
  /\ b.has_stride => rest # <<>> /\ rest[1] = b.tcls

\* What follows the header of a saved column.
LEMMA RestIs ==
  ASSUME NEW b, NEW nb, Filed(b, nb), Laid(b), NEW pad \in Byte,
         NEW body, body = Body(b, pad), NEW rest, rest = Image(b, pad).rest
  PROVE  Led(rest, body, b)
  <1>1. body \in Seq(Byte)
    BY BodyIs
  <1>2. b.has_stride \in BOOLEAN /\ (b.has_stride => b.tcls \in Classes)
    BY DEF Filed
  <1>3. rest = (IF b.has_stride THEN <<b.tcls>> ELSE <<>>) \o body
    BY DEF Image
  <1>4. CASE b.has_stride
    <2>1. b.tcls \in Byte
      BY <1>2, <1>4, ByteAssumption, PowFacts, ClassAssumption DEF Byte, Classes
    <2> DEFINE s == <<b.tcls>>
    <2>2. s \in Seq(Byte) /\ Len(s) = 1 /\ s[1] = b.tcls
      BY <2>1
    <2>3. rest = s \o body
      BY <1>3, <1>4
    <2> HIDE DEF s
    <2>s. s \in Seq(Byte) /\ body \in Seq(Byte) /\ rest = s \o body
      BY <1>1, <2>2, <2>3
    <2>t. rest \in Seq(Byte) /\ Len(rest) = Len(s) + Len(body)
      BY ONLY <2>s, TailOf
    <2>u. \A i \in 1 .. Len(s) : rest[i] = s[i]
      BY ONLY <2>s, TailOf
    <2>v. SubSeq(rest, Len(rest) - Len(body) + 1, Len(rest)) = body
      BY ONLY <2>s, TailOf
    <2>4. /\ rest \in Seq(Byte) /\ Len(rest) = Len(s) + Len(body)
          /\ \A i \in 1 .. Len(s) : rest[i] = s[i]
          /\ SubSeq(rest, Len(rest) - Len(body) + 1, Len(rest)) = body
      BY ONLY <2>t, <2>u, <2>v
    <2>5. rest[1] = b.tcls /\ Len(rest) = 1 + Len(body)
      BY <2>2, <2>4
    <2>6. rest # <<>>
      <3>1. Len(rest) # 0
        BY <1>1, <2>5
      <3> QED
        BY <3>1
    <2> QED
      BY <1>1, <1>4, <2>4, <2>5, <2>6 DEF Led
  <1>5. CASE ~b.has_stride
    <2>1. rest = body
      BY <1>1, <1>3, <1>5
    <2>2. Len(rest) - Len(body) + 1 = 1 /\ Len(body) \in Nat
      BY <1>1, <2>1
    <2>3. SubSeq(body, 1, Len(body)) = body
      BY <1>1, <2>2, Prefix
    <2> QED
      BY <1>1, <1>5, <2>1, <2>2, <2>3 DEF Led
  <1> QED
    BY <1>2, <1>4, <1>5

\* An empty sequence apart, a checksum is of one sequence.
LEMMA CrcTells ==
  ASSUME NEW s, NEW t, s # <<>>, t # <<>>, Crc(s) = Crc(t)
  PROVE  s = t
  BY DEF Crc

\* What is accepted of an image that has the saved header but for one of its classes, or
\* the saved length but for one byte, or another checksum, is the column that was saved:
\* a length that fits leaves no other class, and a checksum that matches no other byte.
LEMMA LoadsLike ==
  ASSUME NEW sg \in BOOLEAN, NEW vs, InMemory(vs, sg), NEW block \in Nat,
         NEW b, b = BlockedOf(vs, sg, block), b.block + Len(vs) <= Pow(K),
         NEW pad \in Byte, NEW h, h = Header(b),
         NEW whole, whole = Image(b, pad).rest,
         NEW d, NEW rest, rest = d.image.rest, rest \in Seq(Byte), Len(rest) = Len(whole),
         NEW g, g = d.image.head, g = h \/ (OtherHead(h, g) /\ rest = whole),
         d.image.crc = Crc(Body(b, pad)) \/ d.image.crc = Crc(Append(rest, 0)),
         NEW ok, NEW r, r = Load(d, ok), r.ret
  PROVE  Represents(r.blk, vs, sg)
  <1> DEFINE nb == CeilDiv(Len(vs), b.block)
             tcls == TclsOf(d.image)
             body == Body(b, pad)
             cut == SubSeq(rest, Len(rest) - BodyLen(g, tcls) + 1, Len(rest))
  <1>1. Represents(b, vs, sg) /\ Filed(b, nb) /\ Laid(b) /\ b.signed = sg
    BY BuiltStored
  <1> HIDE DEF nb
  <1>2. /\ (HasTcls(h) <=> b.has_stride) /\ h.nblocks = nb /\ h.bytes = b.bytes
        /\ ClassesGood(h) /\ h.pcls = b.pcls /\ h.ocls = b.ocls
    BY <1>1, HeaderBack
  <1>3. Led(whole, body, b)
    <2> HIDE DEF body
    <2>1. body = Body(b, pad)
      BY DEF body
    <2> QED
      BY ONLY <1>1, <2>1, RestIs, whole = Image(b, pad).rest, pad \in Byte
  <1>4. ~RefusedFile.ret
    BY DEF RefusedFile
  <1>5. FormatGood(g) /\ ClassesGood(g) /\ tcls \in Classes
    BY <1>4 DEF Load
  <1>6. \/ g.nblocks = 0 /\ r = [blk |-> NoBody(g, tcls), ret |-> TRUE]
        \/ g.nblocks # 0 /\ r = LoadBody(d, g, tcls, ok) /\ BodyExact(d, g, tcls)
    BY <1>4 DEF Load
  <1> HIDE DEF body
  <1>7. Announces(g, h)
    <2>1. CASE g = h
      BY <2>1 DEF Announces
    <2>2. CASE OtherHead(h, g)
      BY <1>1, <1>5, <2>2, HeadTold
    <2> QED
      BY <2>1, <2>2
  <1>8. CASE g.nblocks = 0 /\ r = [blk |-> NoBody(g, tcls), ret |-> TRUE]
    <2>1. r.blk = NoBody(g, tcls) /\ h.nblocks = 0
      BY <1>7, <1>8 DEF Announces
    <2> HIDE DEF tcls
    <2>2. Represents(NoBody(g, tcls), vs, sg)
      BY <1>7, <2>1, NothingRepresents
    <2> QED
      BY <2>1, <2>2
  <1>9. CASE g.nblocks # 0 /\ r = LoadBody(d, g, tcls, ok) /\ BodyExact(d, g, tcls)
    <2>1. nb # 0
      BY <1>2, <1>7, <1>9 DEF Announces
    <2>2. /\ BodyLen(h, b.tcls) = Len(body) /\ Len(body) \in Nat
          /\ Len(whole) = Skip(h) + BodyLen(h, b.tcls)
      <3>1. BodyLen(h, b.tcls) = Len(Body(b, pad))
        <4> DEFINE t == b.tcls
        <4>1. b.has_stride => t = b.tcls
          OBVIOUS
        <4> HIDE DEF t
        <4>2. BodyLen(h, t) = Len(Body(b, pad))
          BY <1>1, <4>1, BodyLenIs
        <4> QED
          BY <4>2 DEF t
      <3>2. Len(body) \in Nat /\ Len(whole) = (IF b.has_stride THEN 1 ELSE 0) + Len(body)
        BY <1>3 DEF Led
      <3> QED
        BY <1>2, <3>1, <3>2 DEF Skip, body
    <2>3. Skip(g) + BodyLen(g, tcls) = Len(rest)
      BY <1>9 DEF BodyExact, Skip
    <2>4. g = h
      <3>1. HasTcls(g) /\ HasTcls(h) /\ rest = whole => tcls = b.tcls
        BY <1>2, <1>3 DEF TclsOf, Led
      <3>2. rest = whole => SameLength(g, h, b, tcls)
        BY <1>5, <2>2, <2>3, <3>1 DEF SameLength
      <3> HIDE DEF tcls
      <3>3. OtherHead(h, g) /\ rest = whole => g = h
        BY <1>1, <1>5, <2>1, <3>2, HeadTold
      <3> QED
        BY <3>3
    <2>5. Skip(h) + BodyLen(h, tcls) = Skip(h) + BodyLen(h, b.tcls) /\ BodyLen(h, b.tcls) \in Nat
      BY <2>2, <2>3, <2>4
    <2> HIDE DEF tcls
    <2>6. {h.bcls, h.pcls, h.ocls, h.scls} \subseteq Int
      <3>1. {b.bcls, b.pcls, b.ocls, b.scls} \subseteq Int
        <4>1. {b.bcls, b.pcls, b.ocls, b.scls} \subseteq Classes
          BY <1>1 DEF Filed
        <4>2. Classes \subseteq Int
          BY DEF Classes
        <4> QED
          BY ONLY <4>1, <4>2
      <3>2. h.bcls \in Int /\ h.scls \in Int
        BY <3>1 DEF Header, ClassByte
      <3> QED
        BY <1>2, <3>1, <3>2
    <2> DEFINE p == Bookkeeping(h)
               u == Bytes(tcls)
               w == Bytes(b.tcls)
    <2>7. nb \in Nat \ {0} /\ b.bytes \in Nat /\ (b.has_stride => b.tcls \in Classes)
      BY <1>1, <2>1 DEF Filed
    <2>8. /\ p \in Nat \ {0} 
          /\ ~b.has_stride => BodyLen(h, tcls) = nb * p + b.bytes
          /\ b.has_stride => BodyLen(h, tcls) = nb * (p + u) + b.bytes /\ u \in Nat
      BY <1>2, <1>5, <2>6, <2>7, BodyLenOf
    <2>9. /\ ~b.has_stride => BodyLen(h, b.tcls) = nb * p + b.bytes
          /\ b.has_stride => BodyLen(h, b.tcls) = nb * (p + w) + b.bytes /\ w \in Nat
      BY <1>2, <2>6, <2>7, BodyLenOf
    <2> HIDE DEF p, u, w
    <2>10. b.has_stride => tcls = b.tcls
      <3> SUFFICES ASSUME b.has_stride PROVE tcls = b.tcls
        OBVIOUS
      <3>1. Skip(h) \in Nat
        BY DEF Skip
      <3>2. p + u \in Nat /\ p + w \in Nat /\ u \in Nat /\ w \in Nat
        BY <2>8, <2>9
      <3>3. nb * (p + u) \in Nat /\ nb * (p + w) \in Nat
        BY <2>7, <3>2
      <3>4. nb * (p + u) = nb * (p + w)
        <4>1. Skip(h) + (nb * (p + u) + b.bytes) = Skip(h) + (nb * (p + w) + b.bytes)
          BY <2>5, <2>8, <2>9
        <4> QED
          BY ONLY <4>1, <3>1, <3>3, <2>7
      <3>5. p + u = p + w
        BY ONLY <3>2, <3>4, <2>7, Cancel
      <3>6. u = w
        BY ONLY <3>2, <3>5, <2>8
      <3> QED
        BY <1>5, <2>7, <3>6, BytesTell DEF u, w
    <2>11. BodyLen(h, tcls) = Len(body)
      <3>1. b.has_stride \in BOOLEAN
        BY <1>1 DEF Filed
      <3>2. b.has_stride => BodyLen(h, tcls) = BodyLen(h, b.tcls)
        BY <2>10
      <3> QED
        BY <2>2, <2>8, <2>9, <3>1, <3>2
    <2>12. Len(body) > 0 /\ body # <<>>
      <3>1. \E m \in Nat \ {0} : Len(body) = nb * m + b.bytes
        <4>1. ~b.has_stride => p \in Nat \ {0} /\ Len(body) = nb * p + b.bytes
          BY <2>2, <2>8, <2>9
        <4>2. b.has_stride => p + w \in Nat \ {0} /\ Len(body) = nb * (p + w) + b.bytes
          BY <2>2, <2>8, <2>9
        <4>3. b.has_stride \in BOOLEAN
          BY <1>1 DEF Filed
        <4> QED
          BY <4>1, <4>2, <4>3
      <3>2. PICK m \in Nat \ {0} : Len(body) = nb * m + b.bytes
        BY <3>1
      <3>3. nb * m > 0 /\ nb * m \in Nat
        BY <2>7
      <3>4. Len(body) > 0
        BY ONLY <3>2, <3>3, <2>7
      <3> QED
        BY <3>4
    <2>13. cut \in [1 .. Len(body) -> Byte]
      <3>1. Len(rest) = Skip(h) + Len(body) /\ Skip(h) \in Nat
        BY <2>2 DEF Skip
      <3>2. cut = SubSeq(rest, Skip(h) + 1, Skip(h) + Len(body))
        <4>1. Len(rest) - BodyLen(g, tcls) + 1 = Skip(h) + 1
          BY <2>2, <2>4, <2>11, <3>1
        <4> QED
          BY <3>1, <4>1
      <3> DEFINE at == Skip(h)
                 n  == Len(body)
      <3>3. at \in Nat /\ n \in Nat /\ rest \in Seq(Byte) /\ at + n <= Len(rest)
        BY <2>2, <3>1
      <3> HIDE DEF at, n
      <3>4. SubSeq(rest, at + 1, at + n) \in [1 .. n -> Byte]
        BY ONLY <3>3, CutOut
      <3> QED
        BY ONLY <3>2, <3>4 DEF at, n
    <2>14. Len(cut) = Len(body) /\ cut # <<>>
      <3> DEFINE n == Len(body)
                 x == cut
      <3>1. x \in [1 .. n -> Byte] /\ n \in Nat /\ n > 0
        BY <2>2, <2>12, <2>13
      <3> HIDE DEF n, x
      <3>2. Len(x) = n
        BY <3>1
      <3>3. x # <<>>
        BY <3>1, <3>2
      <3> QED
        BY <3>2, <3>3 DEF n, x
    <2>15. CrcMatches(d.image, cut) /\ r = ParsedGood(Parsed(g, tcls, cut))
      <3>1. r = IF ok /\ CrcMatches(d.image, cut) THEN ParsedGood(Parsed(g, tcls, cut)) ELSE RefusedFile
        BY <1>9 DEF LoadBody
      <3> HIDE DEF cut
      <3> QED
        BY <1>4, <3>1
    <2> HIDE DEF cut
    <2>16. cut = body
      <3>1. d.image.crc = Crc(cut)
        BY <2>15 DEF CrcMatches
      <3>2. CASE d.image.crc = Crc(Body(b, pad))
        BY <2>12, <2>14, <3>1, <3>2, CrcTells DEF body
      <3>3. CASE d.image.crc = Crc(Append(rest, 0))
        <4>1. Append(rest, 0) # <<>> /\ Len(Append(rest, 0)) = Len(rest) + 1
          BY SMTT(60)
        <4>2. cut = Append(rest, 0)
          BY <2>14, <3>1, <3>3, <4>1, CrcTells
        <4>3. Len(body) = Len(rest) + 1 /\ Len(rest) = Skip(h) + Len(body)
          BY <2>2, <2>14, <4>1, <4>2
        <4>4. Len(rest) \in Nat /\ Len(body) \in Nat /\ (Skip(h) = 0 \/ Skip(h) = 1)
          BY <2>2 DEF Skip
        <4> QED
          BY ONLY <4>3, <4>4
      <3> QED
        BY <3>2, <3>3
    <2>17. r = ParsedGood(Parsed(h, tcls, Body(b, pad)))
      BY <2>4, <2>15, <2>16 DEF body
    <2> QED
      BY <2>10, <2>17, BodyAccepted
  <1> QED
    BY <1>6, <1>8, <1>9

\* What is loaded from the image of a column, however much of it there is, represents the
\* array the column was built from, unless the loader refuses it.
LEMMA LoadsBack ==
  ASSUME NEW sg \in BOOLEAN, NEW vs, InMemory(vs, sg), NEW block \in Nat,
         NEW b, b = BlockedOf(vs, sg, block), b.block + Len(vs) <= Pow(K),
         NEW pad \in Byte,
         NEW d, d.image = Image(b, pad), NEW ok, NEW r, r = Load(d, ok), r.ret
  PROVE  Represents(r.blk, vs, sg)
  <1> DEFINE nb == CeilDiv(Len(vs), b.block)
             h == Header(b)
             rest == d.image.rest
  <1>1. Filed(b, nb) /\ Laid(b)
    BY BuiltStored
  <1>2. /\ d.image.head = h /\ d.image.crc = Crc(Body(b, pad)) /\ rest = Image(b, pad).rest
        /\ rest = d.image.rest /\ h = Header(b)
    BY DEF Image
  <1> HIDE DEF rest, h, nb
  <1>3. rest \in Seq(Byte)
    <2> DEFINE body == Body(b, pad)
    <2>1. body = Body(b, pad)
      OBVIOUS
    <2> HIDE DEF body
    <2>2. Led(rest, body, b)
      BY ONLY <1>1, <1>2, <2>1, RestIs, pad \in Byte
    <2> QED
      BY <2>2 DEF Led
  <1> QED
    BY <1>2, <1>3, LoadsLike

\* No array has more blocks than elements.
LEMMA BlocksFew ==
  ASSUME NEW n \in Nat, NEW block \in Nat \ {0}
  PROVE  CeilDiv(n, block) \in Nat /\ CeilDiv(n, block) <= n
  <1> DEFINE nb == CeilDiv(n, block)
  <1>1. nb \in Nat /\ UpTill(n, block, nb) = n
        /\ \A bi \in 1 .. nb : Before(block, bi) < UpTill(n, block, bi)
    BY BlocksCover
  <1> HIDE DEF nb
  <1>2. CASE nb > 0
    <2>1. Before(block, nb) < n
      BY <1>1, <1>2
    <2>2. (nb - 1) * block < n
      BY <2>1 DEF Before
    <2> DEFINE m == nb - 1
    <2>3. m \in Nat /\ m * block < n
      BY <1>1, <1>2, <2>2
    <2> HIDE DEF m
    <2>4. 1 * m <= block * m
      BY <2>3, TimesGrows
    <2>5. m <= m * block /\ m * block \in Nat
      BY <2>3, <2>4
    <2>6. m < n
      BY ONLY <2>3, <2>5, n \in Nat
    <2> QED
      BY <1>1, <2>6 DEF m, nb
  <1> QED
    BY <1>1, <1>2 DEF nb

\* The payload has no more bytes than the array.
LEMMA BytesFew ==
  ASSUME NEW sg \in BOOLEAN, NEW vs, InMemory(vs, sg), NEW b, Represents(b, vs, sg)
  PROVE  b.bytes \in Nat /\ b.bytes <= Len(vs) * Bytes(K)
  <1> DEFINE n == Len(vs)
             block == b.block
             nb == CeilDiv(n, block)
             fr == Blocks(vs, block)
  <1>1. n \in Nat /\ block \in Nat \ {0} /\ b.bytes = PayloadEnd(fr)[nb]
    BY DEF Represents, InMemory
  <1>3. Measured(fr, nb, n, block)
    BY <1>1, FramesMeasured
  <1>m. nb = CeilDiv(n, block)
    OBVIOUS
  <1> HIDE DEF fr, nb, n, block
  <1>2. nb \in Nat /\ UpTill(n, block, nb) = n
    BY <1>1, <1>m, BlocksCover
  <1>4. nb \in 0 .. nb
    BY <1>2
  <1>5. PayloadEnd(fr)[nb] \in Nat /\ PayloadEnd(fr)[nb] <= UpTill(n, block, nb) * Bytes(K)
    BY <1>1, <1>3, <1>4, <1>m, EndsBound
  <1> QED
    BY <1>1, <1>2, <1>5 DEF n

\* The body of a column in memory is no longer than a size_t can tell.
LEMMA BodyFits ==
  ASSUME NEW sg \in BOOLEAN, NEW vs, InMemory(vs, sg), Len(vs) * (6 * Bytes(K) + 2) < Pow(K),
         NEW b, Represents(b, vs, sg), NEW nb, nb = CeilDiv(Len(vs), b.block), Filed(b, nb),
         NEW h, h = Header(b), NEW tcls, b.has_stride => tcls = b.tcls
  PROVE  BodyLenGood(h, tcls)
  <1> DEFINE n == Len(vs)
             e == Bytes(K)
             per == PerBlock(h, tcls)
  <1>1. n \in Nat /\ b.block \in Nat \ {0} /\ b.signed \in BOOLEAN
    BY DEF Represents, InMemory
  <1>2. nb \in Nat /\ nb <= n
    BY <1>1, BlocksFew
  <1>3. b.bytes \in Nat /\ b.bytes <= n * e
    BY BytesFew
  <1>4. /\ h.nblocks = nb /\ h.bytes = b.bytes /\ (HasTcls(h) <=> b.has_stride)
        /\ h.pcls = b.pcls /\ h.ocls = b.ocls
        /\ Bytes(h.bcls) = Bytes(b.bcls) /\ Bytes(h.scls) = Bytes(b.scls)
    BY <1>1, HeaderBack
  <1>5. /\ {b.bcls, b.pcls, b.ocls, b.scls} \subseteq Classes /\ b.has_stride \in BOOLEAN
        /\ b.has_stride => b.tcls \in Classes
    BY DEF Filed
  <1>6. /\ e \in Nat \ {0}
        /\ \A c \in Classes : Bytes(c) \in Nat /\ Bytes(c) <= e
    BY ElementSizes, Conversions
  <1>7. per \in Nat /\ per <= 2 + 5 * e
    <2> DEFINE B1 == Bytes(b.bcls)
               B2 == Bytes(b.pcls)
               B3 == Bytes(b.ocls)
               B4 == Bytes(b.scls)
               B5 == IF HasTcls(h) THEN Bytes(tcls) ELSE 0
    <2>1. /\ B1 \in Nat /\ B1 <= e /\ B2 \in Nat /\ B2 <= e
          /\ B3 \in Nat /\ B3 <= e /\ B4 \in Nat /\ B4 <= e
      BY <1>5, <1>6
    <2>2. B5 \in Nat /\ B5 <= e
      BY <1>4, <1>5, <1>6
    <2>3. per = 2 + B1 + B2 + B3 + B4 + B5
      BY <1>4 DEF PerBlock
    <2> HIDE DEF B1, B2, B3, B4, B5, per, e
    <2> QED
      BY <1>6, <2>1, <2>2, <2>3
  <1>8. n * (6 * e + 2) < Pow(K) /\ Pow(K) \in Nat
    BY Conversions, PowFacts
  <1>9. BodyLen(h, tcls) = nb * per + b.bytes
    BY <1>4 DEF BodyLen
  <1> HIDE DEF n, e, per
  <1>10. nb * per <= n * per /\ nb * per \in Int /\ n * per \in Int
    BY <1>1, <1>2, <1>7, TimesGrows
  <1>11. per * n <= (2 + 5 * e) * n
    <2>1. 2 + 5 * e \in Int /\ per \in Int
      BY <1>6, <1>7
    <2> QED
      BY <1>1, <1>7, <2>1, TimesGrows
  <1>12. per * n = n * per /\ (2 + 5 * e) * n = 2 * n + 5 * (n * e) /\ n * (6 * e + 2) = 6 * (n * e) + 2 * n
         /\ n * e \in Nat
    BY <1>1, <1>6, <1>7
  <1> DEFINE x == nb * per
             y == n * per
             z == n * e
  <1>13. /\ x <= y /\ y <= 2 * n + 5 * z /\ 6 * z + 2 * n < Pow(K) /\ b.bytes <= z
         /\ x \in Int /\ y \in Int /\ z \in Nat
    BY <1>3, <1>8, <1>10, <1>11, <1>12
  <1> HIDE DEF x, y, z
  <1>14. x + b.bytes < Pow(K)
    BY <1>1, <1>3, <1>8, <1>13
  <1> QED
    BY <1>9, <1>14 DEF x, BodyLenGood

\* The number of blocks a loader works out is the number there are.
LEMMA CountRight ==
  ASSUME NEW sg \in BOOLEAN, NEW vs, InMemory(vs, sg), NEW b, Represents(b, vs, sg),
         b.block + Len(vs) <= Pow(K), NEW nb, nb = CeilDiv(Len(vs), b.block), Filed(b, nb),
         NEW h, h = Header(b)
  PROVE  CountGood(h)
  <1>1. Len(vs) \in Nat /\ b.block \in Nat \ {0} /\ b.count = Len(vs) /\ b.signed \in BOOLEAN
    BY DEF Represents, InMemory
  <1>2. h.nblocks = nb /\ h.count = Len(vs) /\ h.block = b.block
    BY <1>1, HeaderBack
  <1>3. Wrap(Len(vs) + b.block - 1) = Len(vs) + b.block - 1
    <2>1. Pow(K) \in Nat
      BY WrapFacts
    <2>2. Len(vs) + b.block - 1 \in Word
      BY <1>1, <2>1 DEF Word
    <2> QED
      BY <2>2, WrapFacts
  <1> QED
    BY <1>1, <1>2, <1>3 DEF CountGood, CeilDiv

\* A length that goes into what is left, divided, is no more than the quotient.
LEMMA WithinQuotient ==
  ASSUME NEW l \in Nat, NEW w \in Nat \ {0}, NEW m \in Int, l * w <= m
  PROVE  l <= m \div w
  <1> DEFINE q == m \div w
             r == m % w
  <1>1. q \in Int /\ m = q * w + r /\ r \in 0 .. w - 1
    BY DivMod
  <1> HIDE DEF q, r
  <1>2. SUFFICES ASSUME q + 1 <= l PROVE FALSE
    BY <1>1 DEF q
  <1>3. (q + 1) * w <= l * w /\ (q + 1) * w \in Int /\ l * w \in Int
    BY <1>1, <1>2, TimesGrows
  <1>4. (q + 1) * w = q * w + w /\ q * w \in Int
    BY <1>1
  <1> QED
    BY ONLY <1>1, <1>3, <1>4, l * w <= m, w \in Nat \ {0}, m \in Int

\* The blocks of a column, taken apart again, stand every check.
LEMMA BlocksStand ==
  ASSUME NEW sg \in BOOLEAN, NEW vs, InMemory(vs, sg), NEW b, Represents(b, vs, sg),
         NEW c, SameNumbers(c, b), ~b.has_stride => \A bi \in DOMAIN b.blocks : c.blocks[bi].stride = 1
  PROVE  BlocksGood(c)
  <1> SUFFICES ASSUME NEW bi \in DOMAIN c.blocks
               PROVE  LET w == c.blocks[bi].width IN
                      /\ w \in 0 .. K /\ c.blocks[bi].stride # 0
                      /\ w # 0 => BO(c, bi) <= c.bytes /\ BlkLen(c, bi) <= (c.bytes - BO(c, bi)) \div Bytes(w)
    BY DEF BlocksGood
  <1> DEFINE wd == b.blocks[bi].width
             f == Blocks(vs, b.block)[bi]
             p == Piece(vs, b.block, bi)
  <1>1. bi \in DOMAIN b.blocks /\ c.blocks[bi].width = wd /\ c.bytes = b.bytes
        /\ c.count = b.count /\ c.block = b.block /\ c.blocks[bi].off = b.blocks[bi].off
    BY DEF SameNumbers
  <1>2. BO(c, bi) = BO(b, bi) /\ BlkLen(c, bi) = BlkLen(b, bi)
    BY <1>1 DEF BO, BlkLen
  <1>3. Stands(b, bi, Blocks(vs, b.block)) /\ Describes(f, p)
    BY <1>1, BlockStands
  <1>4. wd \in 0 .. K /\ BT(b, bi) = f.stride /\ f.stride # 0 /\ BlkLen(b, bi) = Len(f.index)
        /\ Len(f.index) \in Nat
    BY <1>3 DEF Stands, Describes
  <1>5. c.blocks[bi].stride # 0
    <2>1. CASE b.has_stride
      <3>1. c.blocks[bi].stride = b.blocks[bi].stride
        BY <1>1, <2>1 DEF SameNumbers
      <3> QED
        BY <1>4, <2>1, <3>1 DEF BT
    <2>2. CASE ~b.has_stride
      BY <1>1, <2>2
    <2> QED
      BY <2>1, <2>2
  <1>6. ASSUME wd # 0
        PROVE  BO(b, bi) <= b.bytes /\ BlkLen(b, bi) <= (b.bytes - BO(b, bi)) \div Bytes(wd)
    <2> DEFINE w == Bytes(wd)
               o == BO(b, bi)
               l == BlkLen(b, bi)
    <2>1. w \in Nat \ {0} /\ o \in Nat /\ o + l * w <= b.bytes
      BY <1>1, <1>6, StoredApart
    <2>2. l \in Nat /\ b.bytes \in Nat
      BY <1>4, BytesFew
    <2> HIDE DEF w, o, l
    <2>3. l * w \in Nat
      BY <2>1, <2>2
    <2>4. o <= b.bytes /\ l * w <= b.bytes - o /\ b.bytes - o \in Int
      BY ONLY <2>1, <2>2, <2>3
    <2>5. l <= (b.bytes - o) \div w
      BY <2>1, <2>2, <2>4, WithinQuotient
    <2> QED
      BY <2>4, <2>5 DEF w, o, l
  <1> QED
    BY <1>1, <1>2, <1>4, <1>5, <1>6

\* A file that was written whole, and not touched, is accepted.
LEMMA WholeAccepted ==
  ASSUME NEW sg \in BOOLEAN, NEW vs, InMemory(vs, sg), Len(vs) * (6 * Bytes(K) + 2) < Pow(K),
         NEW block \in Nat, NEW b, b = BlockedOf(vs, sg, block), b.block + Len(vs) <= Pow(K),
         NEW pad \in Byte, NEW d, d.image = Image(b, pad), d.len = Whole(d.image)
  PROVE  Load(d, TRUE).ret
  <1> DEFINE nb == CeilDiv(Len(vs), b.block)
             rest == d.image.rest
             h == d.image.head
             tcls == TclsOf(d.image)
             body == Body(b, pad)
             cut == SubSeq(rest, Len(rest) - BodyLen(h, tcls) + 1, Len(rest))
  <1>1. Represents(b, vs, sg) /\ Filed(b, nb) /\ Laid(b) /\ b.signed = sg
    BY BuiltStored
  <1>2. nb = CeilDiv(Len(vs), b.block)
    OBVIOUS
  <1> HIDE DEF nb
  <1>3. h = Header(b) /\ d.image.crc = Crc(body) /\ rest = Image(b, pad).rest
    BY DEF Image
  <1>4. Led(rest, body, b)
    <2> HIDE DEF body, rest
    <2>1. body = Body(b, pad)
      BY DEF body
    <2> QED
      BY ONLY <1>1, <1>3, <2>1, RestIs, pad \in Byte
  <1> HIDE DEF h
  <1>5. (HasTcls(h) <=> b.has_stride) /\ h.nblocks = nb /\ FormatGood(h) /\ ClassesGood(h)
    BY <1>1, <1>3, HeaderBack
  <1>6. tcls \in Classes /\ (b.has_stride => tcls = b.tcls)
    <2>1. tcls = IF ~HasTcls(h) THEN 1 ELSE IF rest = <<>> THEN 0 ELSE rest[1]
      BY DEF TclsOf, h
    <2>2. 1 \in Classes
      BY ClassAssumption DEF Classes
    <2>3. b.has_stride \in BOOLEAN /\ (b.has_stride => b.tcls \in Classes)
      BY <1>1 DEF Filed
    <2> QED
      BY <1>4, <1>5, <2>1, <2>2, <2>3 DEF Led
  <1>7. CountGood(h)
    BY <1>1, <1>2, <1>3, CountRight
  <1>8. /\ Len(rest) \in Nat /\ d.len = HeaderItems + Len(rest) + 1
        /\ ~(d.len < HeaderItems + (IF HasTcls(h) THEN 1 ELSE 0))
    <2>1. Len(rest) \in Nat
      BY <1>4 DEF Led
    <2>2. d.len = HeaderItems + Len(rest) + 1 /\ HeaderItems = 7
      BY DEF Whole, HeaderItems
    <2> HIDE DEF rest
    <2> QED
      BY <2>1, <2>2
  <1> HIDE DEF tcls
  <1>9. CASE h.nblocks = 0
    <2> DEFINE r == Load(d, TRUE)
    <2>1. r = [blk |-> NoBody(h, tcls), ret |-> TRUE]
      BY <1>5, <1>6, <1>7, <1>8, <1>9 DEF Load, h, tcls
    <2> HIDE DEF r
    <2>2. r.ret
      BY <2>1
    <2> QED
      BY <2>2 DEF r
  <1>10. CASE h.nblocks # 0
    <2>1. BodyLenGood(h, tcls)
      BY <1>1, <1>2, <1>3, <1>6, BodyFits
    <2>2. BodyLen(h, tcls) = Len(body)
      <3>1. BodyLen(h, tcls) = Len(Body(b, pad))
        BY <1>1, <1>3, <1>6, BodyLenIs
      <3> QED
        BY <3>1
    <2> HIDE DEF body
    <2>3. BodyExact(d, h, tcls)
      <3>1. Len(rest) = (IF HasTcls(h) THEN 1 ELSE 0) + BodyLen(h, tcls)
        BY <1>4, <1>5, <2>2 DEF Led
      <3> QED
        BY <3>1 DEF BodyExact
    <2>4. cut = body
      BY <1>4, <2>2 DEF Led
    <2>5. CrcMatches(d.image, cut)
      BY <1>3, <2>4 DEF CrcMatches
    <2>6. Load(d, TRUE) = LoadBody(d, h, tcls, TRUE)
      BY <1>5, <1>6, <1>7, <1>8, <1>10, <2>1, <2>3 DEF Load, h, tcls
    <2>7. LoadBody(d, h, tcls, TRUE) = ParsedGood(Parsed(h, tcls, cut))
      <3>1. LoadBody(d, h, tcls, TRUE)
              = IF TRUE /\ CrcMatches(d.image, cut) THEN ParsedGood(Parsed(h, tcls, cut)) ELSE RefusedFile
        BY DEF LoadBody
      <3> HIDE DEF cut
      <3> QED
        BY <2>5, <3>1
    <2> DEFINE c == Parsed(h, tcls, Body(b, pad))
    <2>8. SameNumbers(c, b)
      <3> HIDE DEF c
      <3>1. c = Parsed(h, tcls, Body(b, pad))
        BY DEF c
      <3> QED
        BY <1>1, <1>3, <1>6, <3>1, ParsedBack
    <2>9. ~b.has_stride => \A bi \in DOMAIN b.blocks : c.blocks[bi].stride = 1
      <3> SUFFICES ASSUME ~b.has_stride, NEW bi \in DOMAIN b.blocks PROVE c.blocks[bi].stride = 1
        OBVIOUS
      <3>1. bi \in 1 .. h.nblocks /\ ~HasTcls(h)
        BY <1>5, <1>1 DEF Filed
      <3> QED
        BY <3>1 DEF Parsed
    <2> HIDE DEF c
    <2>10. BlocksGood(c)
      BY <1>1, <2>8, <2>9, BlocksStand
    <2>11. ParsedGood(c).ret
      BY <2>10 DEF ParsedGood
    <2> QED
      BY <2>4, <2>6, <2>7, <2>11 DEF c, body
  <1> QED
    BY <1>9, <1>10

\* Where the offset of block i is, in a body as long as its header says.
LEMMA OffsetWithin ==
  ASSUME NEW nb \in Nat, NEW B1 \in Nat, NEW B2 \in Nat, NEW B3 \in Nat, NEW B4 \in Nat, NEW B5 \in Nat,
         NEW bytes \in Nat, NEW i \in 1 .. nb,
         NEW at, at = 2 * nb + nb * B1 + nb * B2 + (i - 1) * B3
  PROVE  /\ at \in Nat /\ at + B3 <= nb * (2 + B1 + B2 + B3 + B4 + B5) + bytes
         /\ nb * (2 + B1 + B2 + B3 + B4 + B5) + bytes \in Nat
  <1> DEFINE x == nb * B1
             y == nb * B2
             z == nb * B3
             u == nb * B4
             v == nb * B5
             k == (i - 1) * B3
  <1>1. x \in Nat /\ y \in Nat /\ z \in Nat /\ u \in Nat /\ v \in Nat
    OBVIOUS
  <1>2. i * B3 <= z
    BY TimesGrows
  <1>3. k = i * B3 - B3 /\ k \in Nat /\ i * B3 \in Nat
    <2>1. i - 1 \in Nat /\ i \in Nat
      OBVIOUS
    <2> QED
      BY <2>1
  <1>4. nb * (2 + B1 + B2 + B3 + B4 + B5) = 2 * nb + x + y + z + u + v
    OBVIOUS
  <1>5. at = 2 * nb + x + y + k
    OBVIOUS
  <1> HIDE DEF x, y, z, u, v, k
  <1>6. k + B3 <= z
    BY <1>1, <1>2, <1>3
  <1> QED
    BY <1>1, <1>3, <1>4, <1>5, <1>6

\* The numbers of a header.
Numbered(h) ==
  /\ h.count \in Nat /\ h.block \in Nat /\ h.nblocks \in Nat /\ h.bytes \in Nat
  /\ {h.bcls, h.pcls, h.ocls, h.scls} \subseteq Int

\* What the header leaves in the structure, and what a parsed one keeps of it.
LEMMA HeaderFields ==
  ASSUME NEW h, NEW tcls, NEW e, e = NoBody(h, tcls)
  PROVE  /\ e.count = h.count /\ e.block = h.block /\ e.bytes = h.bytes
         /\ {"count", "block", "bytes", "blocks"} \subseteq DOMAIN e
  <1>1. e.count = h.count /\ e.block = h.block /\ e.bytes = h.bytes
    BY DEF NoBody, NoBlocks
  <1>2. DOMAIN NoBody(h, tcls) = DOMAIN NoBlocks
    BY Zenon DEF NoBody
  <1>3. {"count", "block", "bytes", "blocks"} \subseteq DOMAIN NoBlocks
    BY ONLY DEF NoBlocks
  <1> QED
    BY ONLY <1>1, <1>2, <1>3, e = NoBody(h, tcls)
LEMMA ParsedFields ==
  ASSUME NEW h, NEW tcls, NEW body, NEW c, c = Parsed(h, tcls, body)
  PROVE  /\ c.count = h.count /\ c.block = h.block /\ c.bytes = h.bytes
         /\ {"count", "block", "bytes", "blocks"} \subseteq DOMAIN c
  <1>1. \E e, x, y : e = NoBody(h, tcls) /\ Parsed(h, tcls, body) = [e EXCEPT !.blocks = x, !.data = y]
    BY Zenon DEF Parsed
  <1>2. PICK e, x, y : e = NoBody(h, tcls) /\ c = [e EXCEPT !.blocks = x, !.data = y]
    BY Zenon, <1>1
  <1>3. /\ e.count = h.count /\ e.block = h.block /\ e.bytes = h.bytes
        /\ {"count", "block", "bytes", "blocks"} \subseteq DOMAIN e
    BY ONLY <1>2, HeaderFields
  <1>4. DOMAIN c = DOMAIN e
    BY ONLY <1>2
  <1>5. c.count = e.count /\ c.block = e.block /\ c.bytes = e.bytes
    BY ONLY <1>2, <1>3
  <1> QED
    BY ONLY <1>3, <1>4, <1>5

\* Reading the payload by elements changes nothing else.
LEMMA ElementsFields ==
  ASSUME NEW c, {"count", "block", "bytes", "blocks"} \subseteq DOMAIN c
  PROVE  /\ Elements(c).count = c.count /\ Elements(c).block = c.block
         /\ Elements(c).bytes = c.bytes /\ Elements(c).blocks = c.blocks
  <1>1. PICK y : Elements(c) = [c EXCEPT !.data = y]
    BY DEF Elements
  <1> QED
    BY ONLY <1>1, {"count", "block", "bytes", "blocks"} \subseteq DOMAIN c

\* What has passed the checks of the loader can be read, whatever the header was.
LEMMA AcceptedReadable ==
  ASSUME NEW d, NEW h, h = d.image.head, Numbered(h), CountRounds(h),
         NEW rest, rest = d.image.rest, rest \in Seq(Byte),
         NEW ok, NEW r, r = Load(d, ok), r.ret
  PROVE  Readable(r.blk)
  <1> DEFINE tcls == TclsOf(d.image)
             nb == h.nblocks
             cut == SubSeq(rest, Len(rest) - BodyLen(h, tcls) + 1, Len(rest))
  <1>1. ~RefusedFile.ret
    BY DEF RefusedFile
  <1>2. CountGood(h) /\ ClassesGood(h) /\ tcls \in Classes
    BY <1>1 DEF Load
  <1>3. \/ nb = 0 /\ r = [blk |-> NoBody(h, tcls), ret |-> TRUE]
        \/ nb # 0 /\ r = LoadBody(d, h, tcls, ok) /\ BodyExact(d, h, tcls)
    BY <1>1 DEF Load
  <1>4. nb = CeilDiv(h.count, h.block) /\ h.block \in Nat \ {0} /\ h.count \in Nat
    <2>1. h.count + h.block <= Pow(K) /\ Pow(K) \in Nat /\ h.block # 0 /\ h.block \in Nat /\ h.count \in Nat
      BY <1>2, WrapFacts DEF CountRounds, CountGood, Numbered
    <2>2. h.count + h.block - 1 \in Word
      BY SMTT(60), <2>1 DEF Word
    <2>3. Wrap(h.count + h.block - 1) = h.count + h.block - 1
      BY <2>2, WrapFacts
    <2> QED
      BY <1>2, <2>1, <2>3 DEF CountGood, CeilDiv
  <1> HIDE DEF tcls
  <1>5. CASE nb = 0 /\ r = [blk |-> NoBody(h, tcls), ret |-> TRUE]
    <2>1. h.count = 0
      <3>1. nb = 0
        BY <1>5
      <3> DEFINE n == h.count
                 k == h.block
      <3>2. nb = CeilDiv(n, k) /\ n \in Nat /\ k \in Nat \ {0}
        BY <1>4
      <3> HIDE DEF n, k, nb
      <3>3. n > 0 => nb > 0
        BY ONLY <3>2, BlocksCover
      <3>4. n = 0
        BY <3>1, <3>2, <3>3
      <3> QED
        BY <3>4 DEF n
    <2>2. r.blk.count = h.count
      <3>1. r.blk = NoBody(h, tcls)
        BY <1>5
      <3>2. NoBody(h, tcls).count = h.count
        BY DEF NoBody, NoBlocks
      <3> QED
        BY <3>1, <3>2
    <2>3. \A i \in 1 .. r.blk.count : FALSE
      BY <2>1, <2>2
    <2> QED
      BY <2>3 DEF Readable
  <1>6. CASE nb # 0 /\ r = LoadBody(d, h, tcls, ok) /\ BodyExact(d, h, tcls)
    <2> DEFINE c == Parsed(h, tcls, cut)
               b == Elements(c)
    <2>1. BlocksGood(c) /\ r.blk = b
      <3>1. r = IF ok /\ CrcMatches(d.image, cut) THEN ParsedGood(c) ELSE RefusedFile
        BY <1>6 DEF LoadBody
      <3> HIDE DEF cut, c, b
      <3>2. r = ParsedGood(c)
        BY <1>1, <3>1
      <3>3. r = IF BlocksGood(c) THEN [blk |-> Elements(c), ret |-> TRUE] ELSE RefusedFile
        BY <3>2 DEF ParsedGood
      <3>4. BlocksGood(c)
        BY <1>1, <3>3
      <3>5. r.blk = Elements(c)
        BY <3>3, <3>4
      <3> QED
        BY <3>4, <3>5 DEF b
    <2>2. /\ b.count = h.count /\ b.block = h.block /\ b.bytes = h.bytes /\ b.blocks = c.blocks
          /\ c.count = h.count /\ c.block = h.block /\ c.bytes = h.bytes
      <3>1. /\ c.count = h.count /\ c.block = h.block /\ c.bytes = h.bytes
            /\ {"count", "block", "bytes", "blocks"} \subseteq DOMAIN c
        BY ONLY ParsedFields
      <3> HIDE DEF c
      <3>4. /\ b.count = c.count /\ b.block = c.block
            /\ b.bytes = c.bytes /\ b.blocks = c.blocks
        BY ONLY <3>1, ElementsFields
      <3> QED
        BY ONLY <3>1, <3>4
    <2>3. DOMAIN c.blocks = 1 .. nb
      BY DEF Parsed, NoBody, NoBlocks
    <2>4. ASSUME NEW bi \in 1 .. nb
          PROVE  BO(c, bi) \in Nat
      <3> DEFINE B1 == Bytes(h.bcls)
                 B2 == Bytes(h.pcls)
                 B3 == Bytes(h.ocls)
                 B4 == Bytes(h.scls)
                 B5 == IF HasTcls(h) THEN Bytes(tcls) ELSE 0
                 at == 2 * nb + nb * B1 + nb * B2 + (bi - 1) * B3
      <3>1. BO(c, bi) = NumberAt(cut, at, B3)
        BY <2>4 DEF BO, Parsed, NoBody, NoBlocks
      <3>2. B1 \in Nat /\ B2 \in Nat /\ B3 \in Nat /\ B4 \in Nat /\ B5 \in Nat
        BY <1>2, ClassBytes, ElementSizes DEF Numbered, ClassesGood
      <3>3. BodyLen(h, tcls) = nb * (2 + B1 + B2 + B3 + B4 + B5) + h.bytes
        BY DEF BodyLen, PerBlock
      <3>4. nb \in Nat /\ h.bytes \in Nat
        BY DEF Numbered
      <3>5. Skip(h) \in Nat /\ Len(rest) = Skip(h) + BodyLen(h, tcls)
        BY <1>6 DEF BodyExact, Skip
      <3>m. at = 2 * nb + nb * B1 + nb * B2 + (bi - 1) * B3
        OBVIOUS
      <3> HIDE DEF B1, B2, B3, B4, B5, at
      <3> DEFINE L == nb * (2 + B1 + B2 + B3 + B4 + B5) + h.bytes
      <3>6. at \in Nat /\ at + B3 <= L /\ L \in Nat
        BY ONLY <2>4, <3>2, <3>4, <3>m, OffsetWithin
      <3>L. BodyLen(h, tcls) = L
        BY <3>3
      <3> HIDE DEF L
      <3> DEFINE s == Skip(h)
      <3>7. cut = SubSeq(rest, s + 1, s + L)
        <4>1. Len(rest) = s + L /\ s \in Nat
          BY <3>5, <3>L
        <4>2. Len(rest) - BodyLen(h, tcls) + 1 = s + 1
          BY ONLY <4>1, <3>6, <3>L
        <4> QED
          BY <4>1, <4>2
      <3>8. s \in Nat /\ s + L <= Len(rest) /\ L \in Nat /\ rest \in Seq(Byte)
        BY <3>5, <3>6, <3>L
      <3> HIDE DEF s, cut
      <3>9. cut \in [1 .. L -> Byte]
        BY ONLY <3>7, <3>8, CutOut
      <3>10. cut \in Seq(Byte) /\ Len(cut) = L
        BY ONLY <3>6, <3>9
      <3>11. SubSeq(cut, at + 1, at + B3) \in [1 .. B3 -> Byte]
        BY ONLY <3>2, <3>6, <3>10, CutOut
      <3>12. WordOf(SubSeq(cut, at + 1, at + B3)) \in Nat
        BY <3>2, <3>11, WordBound
      <3> QED
        BY <3>1, <3>12 DEF NumberAt
    <2> HIDE DEF c, b
    <2> SUFFICES ASSUME NEW i \in 1 .. b.count
                 PROVE  LET bi == (i - 1) \div b.block + 1 IN
                        /\ bi \in DOMAIN b.blocks
                        /\ LET w == Bytes(b.blocks[bi].width) IN
                           w # 0 => BO(b, bi) + (((i - 1) % b.block) + 1) * w <= b.bytes
      BY <2>1 DEF Readable
    <2> DEFINE bi == (i - 1) \div b.block + 1
               j  == ((i - 1) % b.block) + 1
               wd == c.blocks[bi].width
               w  == Bytes(wd)
               l  == BlkLen(c, bi)
               o  == BO(c, bi)
    <2>5. /\ bi \in 1 .. nb /\ j \in 1 .. h.block
          /\ j <= UpTill(h.count, h.block, bi) - Before(h.block, bi)
      <3> DEFINE n == h.count
                 k == h.block
      <3>1. n \in Nat /\ k \in Nat \ {0} /\ i \in 1 .. n /\ nb = CeilDiv(n, k)
        BY <1>4, <2>2
      <3>2. bi = (i - 1) \div k + 1 /\ j = ((i - 1) % k) + 1
        BY <2>2
      <3> HIDE DEF n, k, bi, j
      <3>3. bi \in 1 .. CeilDiv(n, k) /\ j \in 1 .. k /\ j <= UpTill(n, k, bi) - Before(k, bi)
        BY ONLY <3>1, <3>2, PlaceOf
      <3> QED
        BY <3>1, <3>3 DEF n, k
    <2> HIDE DEF j, bi
    <2>6. l = UpTill(h.count, h.block, bi) - Before(h.block, bi)
      BY <1>4, <2>2, <2>5, BlockLength DEF BlkLen
    <2>7. o \in Nat /\ BO(b, bi) = o /\ b.blocks[bi].width = wd
      BY <2>2, <2>4, <2>5 DEF BO
    <2>8. wd \in 0 .. K /\ (wd # 0 => o <= h.bytes /\ l <= (h.bytes - o) \div w)
      BY <2>1, <2>2, <2>3, <2>5 DEF BlocksGood
    <2>9. ASSUME w # 0
          PROVE  o + j * w <= h.bytes
      <3>1. wd # 0
        BY <2>9 DEF Bytes
      <3>2. wd \in Classes
        BY <2>8, <3>1, ClassAssumption DEF Classes
      <3>3. w \in Nat \ {0}
        BY <3>2, ElementSizes
      <3> DEFINE m == h.bytes - o
                 q == m \div w
      <3>4. m \in Nat /\ l <= q
        BY SMTT(60), <2>7, <2>8, <3>1 DEF Numbered
      <3>5. j \in Nat /\ j <= l /\ l \in Int
        <4>1. UpTill(h.count, h.block, bi) \in Nat /\ Before(h.block, bi) \in Nat
          BY <1>4, <2>5, BlocksCover
        <4> HIDE DEF l
        <4> QED
          BY <1>4, <2>5, <2>6, <4>1
      <3> HIDE DEF w, m, l, o
      <3>6. q \in Nat /\ q * w <= m
        BY <3>3, <3>4, DivBound
      <3> HIDE DEF q
      <3>7. j <= q
        BY <3>4, <3>5, <3>6
      <3>8. j * w <= q * w /\ j * w \in Int /\ q * w \in Int
        BY <3>3, <3>5, <3>6, <3>7, TimesGrows
      <3>9. j * w <= m
        BY ONLY <3>4, <3>6, <3>8
      <3>10. m = h.bytes - o /\ o \in Nat /\ h.bytes \in Nat
        BY <2>7 DEF m, Numbered
      <3> QED
        BY ONLY <3>8, <3>9, <3>10
    <2>10. bi \in DOMAIN b.blocks
      BY <2>2, <2>3, <2>5
    <2>11. Bytes(b.blocks[bi].width) # 0 => BO(b, bi) + j * Bytes(b.blocks[bi].width) <= b.bytes
      BY <2>2, <2>7, <2>9 DEF w
    <2> QED
      BY <2>10, <2>11 DEF bi, j
  <1> QED
    BY <1>3, <1>5, <1>6

\* The numbers of a saved header, rewritten or not, and what follows it.
LEMMA HeaderNumbered ==
  ASSUME NEW b, NEW nb, Filed(b, nb), b.signed \in BOOLEAN, b.count \in Nat, b.block \in Nat,
         NEW h, h = Header(b)
  PROVE  Numbered(h)
  <1>1. h.nblocks = nb /\ h.bytes = b.bytes /\ h.count = b.count /\ h.block = b.block
        /\ h.pcls = b.pcls /\ h.ocls = b.ocls
    BY HeaderBack
  <1>2. {b.bcls, b.pcls, b.ocls, b.scls} \subseteq Int /\ nb \in Nat /\ b.bytes \in Nat
    <2>1. {b.bcls, b.pcls, b.ocls, b.scls} \subseteq Classes /\ nb \in Nat /\ b.bytes \in Nat
      BY DEF Filed
    <2>2. Classes \subseteq Int
      BY ClassAssumption DEF Classes
    <2> QED
      BY <2>1, <2>2
  <1>3. h.bcls \in Int /\ h.scls \in Int
    BY <1>2 DEF Header, ClassByte
  <1> QED
    BY <1>1, <1>2, <1>3 DEF Numbered

\* A header that differs in one thing else has numbers too.
LEMMA OtherNumbered ==
  ASSUME NEW b, NEW h, h = Header(b), Numbered(h), NEW g, OtherHead(h, g)
  PROVE  Numbered(g)
  <1>1. h = [magic |-> h.magic, class |-> h.class, signed |-> h.signed, fmt |-> h.fmt,
              rsvd |-> h.rsvd, count |-> h.count, block |-> h.block, nblocks |-> h.nblocks,
              bcls |-> h.bcls, pcls |-> h.pcls, ocls |-> h.ocls, scls |-> h.scls, bytes |-> h.bytes]
    BY HeadFields
  <1>2. CASE g = [h EXCEPT !.magic = "unknown"]
    BY <1>1, <1>2 DEF Numbered
  <1>3. CASE g = [h EXCEPT !.signed = ~@]
    BY <1>1, <1>3 DEF Numbered
  <1>4. ASSUME NEW x, g = [h EXCEPT !.fmt = x]
        PROVE  Numbered(g)
    BY <1>1, <1>4 DEF Numbered
  <1>5. ASSUME NEW c \in -K .. K,
               \/ g = [h EXCEPT !.bcls = c] \/ g = [h EXCEPT !.pcls = c]
               \/ g = [h EXCEPT !.ocls = c] \/ g = [h EXCEPT !.scls = c]
        PROVE  Numbered(g)
    <2>1. c \in Int
      BY ClassAssumption
    <2>2. CASE g = [h EXCEPT !.bcls = c]
      BY <1>1, <2>1, <2>2 DEF Numbered
    <2>3. CASE g = [h EXCEPT !.pcls = c]
      BY <1>1, <2>1, <2>3 DEF Numbered
    <2>4. CASE g = [h EXCEPT !.ocls = c]
      BY <1>1, <2>1, <2>4 DEF Numbered
    <2>5. CASE g = [h EXCEPT !.scls = c]
      BY <1>1, <2>1, <2>5 DEF Numbered
    <2> QED
      BY <1>5, <2>2, <2>3, <2>4, <2>5
  <1>6. \/ g = [h EXCEPT !.magic = "unknown"] \/ g = [h EXCEPT !.signed = ~@]
        \/ \E x \in 1 .. 4 : g = [h EXCEPT !.fmt = x]
        \/ \E c \in -K .. K : \/ g = [h EXCEPT !.bcls = c] \/ g = [h EXCEPT !.pcls = c]
                              \/ g = [h EXCEPT !.ocls = c] \/ g = [h EXCEPT !.scls = c]
    BY DEF OtherHead
  <1>7. CASE \E x \in 1 .. 4 : g = [h EXCEPT !.fmt = x]
    BY <1>4, <1>7
  <1>8. CASE \E c \in -K .. K : \/ g = [h EXCEPT !.bcls = c] \/ g = [h EXCEPT !.pcls = c]
                              \/ g = [h EXCEPT !.ocls = c] \/ g = [h EXCEPT !.scls = c]
    BY <1>5, <1>8
  <1> QED
    BY <1>2, <1>3, <1>6, <1>7, <1>8

-----------------------------------------------------------------------------
(* The planner: every candidate has a price, so the cheapest is taken.      *)

\* The candidates up to the k-th.
Doubling(f, k) ==
  /\ \A i \in 0 .. k : f[i] \in Nat \ {0}
  /\ f[0] = Grain /\ \A i \in 1 .. k : f[i] = 2 * f[i - 1]

\* Each candidate doubles the one before.
LEMMA DoubledIs ==
  ASSUME NEW j \in Nat
  PROVE  \E f : Doubling(f, j) /\ Doubled(j) = f[j]
  <1> DEFINE P(f) == f = [i \in 0 .. j |-> IF i = 0 THEN Grain ELSE 2 * f[i - 1]]
             D == Nat \ {0}
             st == [i \in 1 .. j |-> [x \in D |-> 2 * x]]
             s == CHOOSE f : P(f)
  <1>2. st \in [1 .. j -> [D -> D]] /\ Grain \in D
    BY PlanAssumption
  <1>3. PICK f : Stepping(f, j, D, Grain, st)
    <2> HIDE DEF st, D
    <2> QED
      BY <1>2, StepsExist
  <1>a. f = [i \in 0 .. j |-> f[i]]
    BY <1>3 DEF Stepping
  <1>4. f[0] = Grain /\ \A i \in 1 .. j : f[i] = 2 * f[i - 1]
    <2>1. f \in [0 .. j -> D] /\ f[0] = Grain /\ \A i \in 1 .. j : f[i] = st[i][f[i - 1]]
      BY <1>3 DEF Stepping
    <2>2. ASSUME NEW i \in 1 .. j  PROVE f[i] = 2 * f[i - 1]
      <3>1. f[i - 1] \in D
        BY <2>1
      <3>2. st[i] = [x \in D |-> 2 * x]
        OBVIOUS
      <3>3. st[i][f[i - 1]] = 2 * f[i - 1]
        BY <3>1, <3>2
      <3> QED
        BY <2>1, <3>3
    <2> QED
      BY <2>1, <2>2
  <1> HIDE DEF st
  <1>5. P(f)
    <2>1. \A i \in 0 .. j : f[i] = IF i = 0 THEN Grain ELSE 2 * f[i - 1]
      BY <1>4
    <2> QED
      BY <1>a, <2>1
  <1>6. P(s)
    BY <1>5
  <1>7. Doubled(j) = s[j]
    BY DEF Doubled
  <1> HIDE DEF s
  <1>8. s[0] = Grain /\ \A i \in 1 .. j : s[i] = 2 * s[i - 1]
    BY <1>6
  <1> DEFINE S == {i \in 0 .. j : s[i] \in Nat \ {0}}
  <1>9. S = 0 .. j
    <2>1. 0 \in S
      BY <1>8, PlanAssumption
    <2>2. ASSUME NEW m \in 1 .. j, m - 1 \in S  PROVE m \in S
      BY <1>8, <2>2
    <2> HIDE DEF S
    <2>3. S \in SUBSET (0 .. j)
      BY DEF S
    <2> QED
      BY <2>1, <2>2, <2>3, UpTo
  <1>10. Doubling(s, j)
    BY <1>8, <1>9 DEF Doubling
  <1> QED
    BY <1>7, <1>10

\* Each candidate is twice the one before.
LEMMA DoubledFacts ==
  \A n \in Nat : Doubled(n) \in Nat \ {0} /\ Doubled(n + 1) = 2 * Doubled(n)
  <1>2. ASSUME NEW n \in Nat
        PROVE  Doubled(n) \in Nat \ {0} /\ Doubled(n + 1) = 2 * Doubled(n)
    <2>1. PICK f : Doubling(f, n) /\ Doubled(n) = f[n]
      BY DoubledIs
    <2>2. PICK g : Doubling(g, n + 1) /\ Doubled(n + 1) = g[n + 1]
      BY DoubledIs
    <2> DEFINE S == {i \in 0 .. n : f[i] = g[i]}
    <2>3. S = 0 .. n
      <3>1. 0 \in S
        BY <2>1, <2>2 DEF Doubling
      <3>2. ASSUME NEW m \in 1 .. n, m - 1 \in S  PROVE m \in S
        <4>1. m \in 1 .. n + 1 /\ f[m - 1] = g[m - 1]
          BY <3>2
        <4>2. f[m] = 2 * f[m - 1] /\ g[m] = 2 * g[m - 1]
          BY <2>1, <2>2, <4>1 DEF Doubling
        <4> QED
          BY <4>1, <4>2
      <3> HIDE DEF S
      <3>3. S \in SUBSET (0 .. n)
        BY DEF S
      <3> QED
        BY <3>1, <3>2, <3>3, UpTo
    <2>4. n \in S
      BY <2>3
    <2>5. g[n + 1] = 2 * g[n]
      <3>1. n + 1 \in 1 .. n + 1 /\ (n + 1) - 1 = n
        OBVIOUS
      <3>2. g[n + 1] = 2 * g[(n + 1) - 1]
        BY <2>2, <3>1 DEF Doubling
      <3> QED
        BY <3>1, <3>2
    <2>6. f[n] \in Nat \ {0}
      BY <2>1 DEF Doubling
    <2> QED
      BY <2>1, <2>2, <2>4, <2>5, <2>6
  <1> QED
    BY <1>2

\* A later candidate is larger.
LEMMA DoubledGrows ==
  ASSUME NEW n \in Nat, NEW k \in 0 .. n
  PROVE  Doubled(k) <= Doubled(n)
  <1> DEFINE S == {m \in 0 .. n : k <= m => Doubled(k) <= Doubled(m)}
  <1>1. 0 \in S
    BY DoubledFacts
  <1>2. ASSUME NEW m \in 1 .. n, m - 1 \in S PROVE m \in S
    <2>1. Doubled(m - 1) \in Nat /\ Doubled(k) \in Nat
      BY DoubledFacts
    <2>2. Doubled((m - 1) + 1) = 2 * Doubled(m - 1) /\ (m - 1) + 1 = m
      BY DoubledFacts
    <2>3. Doubled(m - 1) <= Doubled(m) /\ Doubled(m) \in Nat
      BY <2>1, <2>2
    <2>4. m \in 0 .. n
      OBVIOUS
    <2>5. CASE k = m
      BY <2>3, <2>4, <2>5
    <2>6. CASE k <= m - 1
      <3>1. Doubled(k) <= Doubled(m - 1)
        BY <1>2, <2>6
      <3> QED
        BY <2>1, <2>3, <2>4, <3>1
    <2>7. CASE m < k
      BY <2>4, <2>7
    <2> QED
      BY <2>5, <2>6, <2>7
  <1> HIDE DEF S
  <1>3. S \in SUBSET (0 .. n)
    BY DEF S
  <1>4. n \in S
    BY <1>1, <1>2, <1>3, UpTo
  <1> QED
    BY <1>4 DEF S

\* Merged cells.
CellSet == [mn : Word, mx : Word, g : Word \ {0}, sum : Word]

\* A common divisor of a number that is not 0 is no 0 and no larger.
LEMMA GcdPositive ==
  ASSUME NEW a \in Word \ {0}, NEW b \in Nat
  PROVE  Gcd(a, b) \in Word \ {0}
  <1> DEFINE g == Gcd(a, b)
  <1>1. a \in Nat /\ Pow(K) \in Nat /\ a < Pow(K)
    BY WrapFacts DEF Word
  <1>2. g \in Nat /\ Multiple(a, g)
    BY <1>1, GcdDivides
  <1> HIDE DEF g
  <1>3. PICK k \in Nat : a = k * g
    BY <1>2 DEF Multiple
  <1>4. g # 0
    <2> SUFFICES ASSUME g = 0 PROVE FALSE
      OBVIOUS
    <2>1. k * 0 = 0
      OBVIOUS
    <2> QED
      BY <1>3, <2>1
  <1>5. k # 0
    <2> SUFFICES ASSUME k = 0 PROVE FALSE
      OBVIOUS
    <2>1. 0 * g = 0
      BY <1>2
    <2> QED
      BY <1>3, <2>1
  <1>6. 1 * g <= k * g
    BY <1>2, <1>5, TimesGrows
  <1>7. g <= a
    BY <1>2, <1>3, <1>6
  <1>8. g \in Word \ {0}
    BY <1>1, <1>2, <1>4, <1>7 DEF Word
  <1> QED
    BY <1>8 DEF g

\* Two cells merged are a cell.
LEMMA MergeType ==
  ASSUME NEW a \in CellSet, NEW b \in CellSet
  PROVE  Merge(a, b) \in CellSet
  <1>1. /\ a.mn \in Word /\ b.mn \in Word /\ a.mx \in Word /\ b.mx \in Word
        /\ a.g \in Word \ {0} /\ b.g \in Word \ {0} /\ a.sum \in Word /\ b.sum \in Word
    BY DEF CellSet
  <1>2. Word \subseteq Nat
    BY Conversions
  <1> DEFINE m == MinOf(a.mn, b.mn)
             g1 == Gcd(a.g, b.g)
             g2 == Gcd(g1, a.mn - m)
             g3 == Gcd(g2, b.mn - m)
             x == MaxOf(a.mx, b.mx)
             s == Wrap(a.sum + b.sum)
  <1>a. a.mn \in Nat /\ b.mn \in Nat /\ a.sum \in Nat /\ b.sum \in Nat
    BY <1>1, <1>2
  <1>3. m \in Word /\ a.mn - m \in Nat /\ b.mn - m \in Nat
    <2>1. m \in {a.mn, b.mn} /\ m <= a.mn /\ m <= b.mn
      BY <1>a DEF MinOf
    <2> HIDE DEF m
    <2>2. m \in Word /\ m \in Nat
      BY <1>1, <1>a, <2>1
    <2> QED
      BY <1>a, <2>1, <2>2
  <1>4. x \in Word
    BY <1>1 DEF MaxOf
  <1>5. s \in Word
    <2>1. a.sum + b.sum \in Int
      BY <1>a
    <2> QED
      BY <2>1, Conversions DEF Wrap, U64
  <1> HIDE DEF m, x, s
  <1>6. g1 \in Word \ {0}
    BY <1>1, <1>2, GcdPositive
  <1> HIDE DEF g1
  <1>7. g2 \in Word \ {0}
    BY <1>3, <1>6, GcdPositive
  <1> HIDE DEF g2
  <1>8. g3 \in Word \ {0}
    BY <1>3, <1>7, GcdPositive
  <1>9. Merge(a, b) = [mn |-> m, mx |-> x, g |-> g3, sum |-> s]
    BY DEF Merge, m, x, s, g1, g2
  <1> HIDE DEF g3
  <1> QED
    BY <1>3, <1>4, <1>5, <1>8, <1>9 DEF CellSet

\* Cells merged one after another.
LEMMA MergedCellsType ==
  ASSUME NEW cells, NEW n \in Nat \ {0}, Len(cells) = n, \A c \in 1 .. n : cells[c] \in CellSet
  PROVE  MergedCells(cells) \in CellSet
  <1> DEFINE P(f) == f = [i \in 1 .. n |-> IF i = 1 THEN cells[1] ELSE Merge(f[i - 1], cells[i])]
             m == n - 1
             st == [i \in 1 .. m |-> [x \in CellSet |-> Merge(x, cells[i + 1])]]
             s == CHOOSE f : P(f)
  <1>1. m \in Nat /\ m + 1 = n
    OBVIOUS
  <1> HIDE DEF m
  <1>2. st \in [1 .. m -> [CellSet -> CellSet]] /\ cells[1] \in CellSet
    <2>1. ASSUME NEW i \in 1 .. m, NEW x \in CellSet PROVE Merge(x, cells[i + 1]) \in CellSet
      <3>1. i + 1 \in 1 .. n
        BY <1>1
      <3>2. cells[i + 1] \in CellSet
        BY <3>1
      <3> QED
        BY <3>2, MergeType
    <2>2. 1 \in 1 .. n
      OBVIOUS
    <2>3. cells[1] \in CellSet
      BY <2>2
    <2> HIDE DEF CellSet
    <2>4. \A i \in 1 .. m : [x \in CellSet |-> Merge(x, cells[i + 1])] \in [CellSet -> CellSet]
      BY <2>1
    <2> QED
      BY <2>3, <2>4
  <1>3. PICK t : Stepping(t, m, CellSet, cells[1], st)
    <2> HIDE DEF st, CellSet
    <2> QED
      BY <1>1, <1>2, StepsExist
  <1>4. /\ t \in [0 .. m -> CellSet] /\ t[0] = cells[1]
        /\ \A i \in 1 .. m : t[i] = st[i][t[i - 1]]
    BY <1>3 DEF Stepping
  <1>5. ASSUME NEW i \in 1 .. m PROVE t[i] = Merge(t[i - 1], cells[i + 1])
    <2>1. i - 1 \in 0 .. m
      BY <1>1
    <2>2. t[i - 1] \in CellSet
      BY <1>4, <2>1
    <2>3. st[i] = [x \in CellSet |-> Merge(x, cells[i + 1])]
      OBVIOUS
    <2>4. t[i] = st[i][t[i - 1]]
      BY <1>4
    <2> HIDE DEF st
    <2> QED
      BY <2>2, <2>3, <2>4
  <1> HIDE DEF st
  <1> DEFINE f == [i \in 1 .. n |-> t[i - 1]]
  <1>6. P(f)
    <2>1. ASSUME NEW i \in 1 .. n
          PROVE  f[i] = IF i = 1 THEN cells[1] ELSE Merge(f[i - 1], cells[i])
      <3>1. CASE i = 1
        BY <1>4, <3>1
      <3>2. CASE i # 1
        <4>1. i - 1 \in 1 .. m /\ (i - 1) + 1 = i /\ i - 1 \in 1 .. n
          BY <1>1, <3>2
        <4>2. t[i - 1] = Merge(t[(i - 1) - 1], cells[i])
          BY <1>5, <4>1
        <4> QED
          BY <3>2, <4>1, <4>2
      <3> QED
        BY <3>1, <3>2
    <2>2. f = [i \in 1 .. n |-> f[i]]
      OBVIOUS
    <2> HIDE DEF f
    <2> QED
      BY <2>1, <2>2
  <1>7. P(s)
    <2> HIDE DEF f
    <2> QED
      BY <1>6
  <1>8. MergedCells(cells) = s[n]
    BY DEF MergedCells
  <1> HIDE DEF s, f
  <1>9. s[1] = cells[1] /\ \A i \in 2 .. n : s[i] = Merge(s[i - 1], cells[i])
    BY <1>7
  <1> HIDE DEF P
  <1> DEFINE S == {i \in 0 .. m : s[i + 1] \in CellSet}
  <1>10. 0 \in S
    <2> HIDE DEF CellSet
    <2> QED
      BY <1>1, <1>2, <1>9
  <1>11. ASSUME NEW i \in 1 .. m, i - 1 \in S PROVE i \in S
    <2>1. i + 1 \in 2 .. n /\ (i + 1) - 1 = i /\ (i - 1) + 1 = i /\ i \in 0 .. m
      BY <1>1
    <2>2. s[i] \in CellSet
      BY <1>11, <2>1
    <2>3. s[i + 1] = Merge(s[i], cells[i + 1])
      BY <1>9, <2>1
    <2>4. cells[i + 1] \in CellSet
      BY <2>1
    <2>5. s[i + 1] \in CellSet
      BY <2>2, <2>3, <2>4, MergeType
    <2> QED
      BY <2>1, <2>5
  <1> HIDE DEF S
  <1>12. S \in SUBSET (0 .. m)
    BY DEF S
  <1>13. m \in S
    BY <1>1, <1>10, <1>11, <1>12, UpTo
  <1> QED
    BY <1>1, <1>8, <1>13 DEF S

\* A block of an array in memory lies in memory.
LEMMA PieceInMemory ==
  ASSUME NEW sg \in BOOLEAN, NEW vs, InMemory(vs, sg), NEW block \in Nat \ {0},
         NEW bi \in 1 .. CeilDiv(Len(vs), block), NEW p, p = Piece(vs, block, bi)
  PROVE  /\ InMemory(p, sg) /\ Len(p) > 0
         /\ Len(p) = UpTill(Len(vs), block, bi) - Before(block, bi)
  <1> DEFINE m == Len(p)
             n == Len(vs)
             B == Bytes(K)
  <1>1. /\ p \in Seq(Int) /\ Len(p) = UpTill(Len(vs), block, bi) - Before(block, bi)
        /\ Len(p) > 0 /\ DOMAIN p = 1 .. Len(p)
        /\ \A j \in 1 .. Len(p) : p[j] \in (IF sg THEN Int64 ELSE Word)
    BY PieceDescribed
  <1>2. n \in Nat /\ n * B < Pow(K)
    BY DEF InMemory
  <1>3. Before(block, bi) \in Nat /\ UpTill(n, block, bi) \in Nat /\ UpTill(n, block, bi) <= n
    BY <1>2, BlocksCover
  <1>4. m \in Nat /\ m <= n
    BY <1>1, <1>3, <1>2
  <1>5. B \in Nat /\ Pow(K) \in Nat
    BY Conversions, ElementSizes, WrapFacts
  <1>6. m * B < Pow(K)
    <2> HIDE DEF m, n, B
    <2>1. m * B <= n * B /\ m * B \in Int /\ n * B \in Int
      BY <1>2, <1>4, <1>5, TimesGrows
    <2> DEFINE x == m * B
               y == n * B
    <2>2. x <= y /\ y < Pow(K) /\ x \in Int /\ y \in Int
      BY <1>2, <2>1
    <2> HIDE DEF x, y
    <2>3. x < Pow(K)
      BY <1>5, <2>2
    <2> QED
      BY <2>3 DEF x
  <1>7. \A j \in DOMAIN p : p[j] \in (IF sg THEN Int64 ELSE Word)
    BY <1>1
  <1>8. Len(p) * Bytes(K) < Pow(K)
    BY <1>6
  <1> HIDE DEF m, n, B
  <1>9. InMemory(p, sg)
    BY <1>1, <1>7, <1>8 DEF InMemory
  <1> QED
    BY <1>1, <1>9

\* A cell of an array.
LEMMA CellType ==
  ASSUME NEW sg \in BOOLEAN, NEW vs, InMemory(vs, sg), NEW c \in 1 .. CeilDiv(Len(vs), Grain),
         NEW q, q = Piece(vs, Grain, c)
  PROVE  Cell(q) \in CellSet
  <1> DEFINE f == Blocks(vs, Grain)[c]
             mn == Wrap(Least(q))
             mx == Wrap(Greatest(q))
  <1>0. Grain \in Nat \ {0}
    BY PlanAssumption
  <1>1. f = Frame(q) /\ Describes(f, q)
    BY <1>0, FramesAre
  <1>2. f.stride \in Word /\ f.sum \in Word
    BY <1>0, FrameNumbers
  <1>3. f.stride \in Word \ {0} /\ f.sum = SumWrapped(q)
    BY <1>1, <1>2 DEF Describes
  <1>4. f.stride = StrideOf(Offsets(q))
    <2>1. Frame(q).stride = StrideOf([i \in DOMAIN q |-> q[i] - Least(q)])
      BY DEF Frame
    <2> QED
      BY <1>1, <2>1 DEF Offsets
  <1>5. q \in Seq(Int) /\ Len(q) > 0
    BY <1>0, PieceDescribed
  <1>6. Greatest(q) \in Int /\ Least(q) \in Int
    BY <1>5, Extremes
  <1>7. mn \in Word /\ mx \in Word
    BY <1>6, WrapFacts
  <1>8. Cell(q) = [mn |-> mn, mx |-> mx, g |-> f.stride, sum |-> f.sum]
    BY <1>3, <1>4 DEF Cell
  <1> HIDE DEF f, mn, mx
  <1> QED
    BY <1>2, <1>3, <1>7, <1>8 DEF CellSet

\* What the planner merges for one block.
Merged(p) == MergedCells([c \in 1 .. CeilDiv(Len(p), Grain) |-> Cell(Piece(p, Grain, c))])

\* The cells of a block merged are a cell.
LEMMA MergedType ==
  ASSUME NEW sg \in BOOLEAN, NEW p, InMemory(p, sg), Len(p) > 0
  PROVE  Merged(p) \in CellSet
  <1> DEFINE n == CeilDiv(Len(p), Grain)
             cells == [c \in 1 .. n |-> Cell(Piece(p, Grain, c))]
  <1>0. Grain \in Nat \ {0} /\ Len(p) \in Nat
    BY PlanAssumption DEF InMemory
  <1>1. n \in Nat \ {0}
    BY SMTT(60), <1>0, BlocksCover
  <1>2. ASSUME NEW c \in 1 .. n PROVE Cell(Piece(p, Grain, c)) \in CellSet
    BY CellType
  <1>3. Merged(p) = MergedCells(cells)
    BY DEF Merged
  <1> HIDE DEF n
  <1>4. Len(cells) = n /\ \A c \in 1 .. n : cells[c] \in CellSet
    BY <1>1, <1>2
  <1> HIDE DEF cells
  <1> QED
    BY <1>1, <1>3, <1>4, MergedCellsType

\* The price of a candidate is a number of bytes.
LEMMA PriceType ==
  ASSUME NEW sg \in BOOLEAN, NEW vs, InMemory(vs, sg), NEW block \in Nat \ {0}
  PROVE  Price(vs, sg, block).block = block /\ Price(vs, sg, block).bytes \in Int
  <1> DEFINE nb     == CeilDiv(Len(vs), block)
             acc    == [bi \in 1 .. nb |-> Merged(Piece(vs, block, bi))]
             span   == [bi \in 1 .. nb |-> Wrap(acc[bi].mx - acc[bi].mn) \div acc[bi].g]
             frames == [bi \in 1 .. nb |->
                          [width |-> DeltaClass(span[bi]), index |-> Piece(vs, block, bi)]]
             total  == PayloadEnd(frames)[nb]
             stride == \E bi \in 1 .. nb : acc[bi].g > 1
             c1 == ClassOf(sg, {IF sg THEN I64(acc[bi].mn) ELSE acc[bi].mn : bi \in 1 .. nb})
             c2 == Classify({span[bi] : bi \in 1 .. nb})
             c3 == Classify({total})
             c4 == ClassOf(sg, {IF sg THEN I64(acc[bi].sum) ELSE acc[bi].sum : bi \in 1 .. nb})
             c5 == Classify({acc[bi].g : bi \in 1 .. nb})
             bytes == total + nb * (2 + Bytes(c1) + Bytes(c2) + Bytes(c3) + Bytes(c4)
                                      + IF stride THEN Bytes(c5) ELSE 0)
  <1>1. nb \in Nat /\ Len(vs) \in Nat /\ Len(vs) * Bytes(K) < Pow(K)
    BY BlocksCover DEF InMemory
  <1>2. Price(vs, sg, block).block = block /\ Price(vs, sg, block).bytes = bytes
    BY DEF Price, Merged
  <1>3. ASSUME NEW bi \in 1 .. nb PROVE acc[bi] \in CellSet
    <2> DEFINE p == Piece(vs, block, bi)
    <2>1. InMemory(p, sg) /\ Len(p) > 0
      BY PieceInMemory
    <2>2. acc[bi] = Merged(p)
      OBVIOUS
    <2> HIDE DEF p, acc
    <2> QED
      BY <2>1, <2>2, MergedType
  <1> HIDE DEF acc
  <1>4. \A bi \in 1 .. nb : /\ acc[bi].mn \in Word /\ acc[bi].mx \in Word
                            /\ acc[bi].g \in Word \ {0} /\ acc[bi].sum \in Word
    BY <1>3 DEF CellSet
  <1>5. ASSUME NEW bi \in 1 .. nb PROVE span[bi] \in Word
    <2> DEFINE w == Wrap(acc[bi].mx - acc[bi].mn)
               g == acc[bi].g
               q == w \div g
    <2>1. acc[bi].mx \in Nat /\ acc[bi].mn \in Nat /\ g \in Nat \ {0}
      BY <1>4, Conversions
    <2>2. w \in Word /\ w \in Nat /\ w < Pow(K) /\ Pow(K) \in Nat
      <3>1. acc[bi].mx - acc[bi].mn \in Int
        BY <2>1
      <3>2. w \in Word
        BY <3>1, WrapFacts
      <3> HIDE DEF w
      <3> QED
        BY <3>2, WrapFacts
    <2>3. span[bi] = q
      OBVIOUS
    <2> HIDE DEF w, g, span
    <2>4. q \in Nat /\ q * g <= w
      BY <2>1, <2>2, DivBound
    <2> HIDE DEF q
    <2>5. 1 * q <= g * q /\ g * q = q * g /\ q * g \in Int
      BY <2>1, <2>4, TimesGrows
    <2> DEFINE x == q * g
    <2>6. q <= x /\ x <= w /\ x \in Int
      BY <2>4, <2>5
    <2> HIDE DEF x
    <2>7. q < Pow(K)
      BY <2>2, <2>4, <2>6
    <2> QED
      BY <2>2, <2>3, <2>4, <2>7 DEF Word
  <1> HIDE DEF span
  <1>6. total \in Word
    <2>1. ASSUME NEW bi \in 1 .. nb
          PROVE  /\ DeltaClass(span[bi]) \in 0 .. K
                 /\ Len(Piece(vs, block, bi)) = UpTill(Len(vs), block, bi) - Before(block, bi)
                 /\ Len(Piece(vs, block, bi)) \in Nat
      <3>1. span[bi] \in Nat /\ span[bi] < Pow(K)
        BY <1>5, WrapFacts
      <3>2. DeltaClass(span[bi]) \in 0 .. K
        BY <3>1, DeltaClassHolds
      <3> DEFINE p == Piece(vs, block, bi)
      <3>3. InMemory(p, sg) /\ Len(p) = UpTill(Len(vs), block, bi) - Before(block, bi)
        BY PieceInMemory
      <3> HIDE DEF p
      <3>4. Len(p) \in Nat
        BY <3>3 DEF InMemory
      <3> QED
        BY <3>2, <3>3, <3>4 DEF p
    <2>2. \A bi \in 1 .. nb : /\ frames[bi].width \in 0 .. K
                              /\ Len(frames[bi].index) \in Nat
                              /\ Len(frames[bi].index)
                                   = UpTill(Len(vs), block, bi) - Before(block, bi)
      BY <2>1
    <2>3. Len(frames) = nb /\ DOMAIN frames = 1 .. nb
      BY <1>1
    <2> DEFINE n == nb
    <2>4. n = CeilDiv(Len(vs), block)
      OBVIOUS
    <2> HIDE DEF frames, n
    <2>5. Measured(frames, n, Len(vs), block)
      BY <2>2, <2>3 DEF Measured, Shaped, n
    <2>6. PayloadEnd(frames)[n] \in Word
      BY <1>1, <2>4, <2>5, TotalBound
    <2> QED
      BY <2>6 DEF n
  <1> HIDE DEF total, frames
  <1>7. c1 \in Classes /\ c4 \in Classes
    <2>1. \A u \in Word : (IF sg THEN I64(u) ELSE u) \in (IF sg THEN Int64 ELSE Word)
      BY Conversions
    <2>2. /\ \A bi \in 1 .. nb : (IF sg THEN I64(acc[bi].mn) ELSE acc[bi].mn) \in (IF sg THEN Int64 ELSE Word)
          /\ \A bi \in 1 .. nb : (IF sg THEN I64(acc[bi].sum) ELSE acc[bi].sum) \in (IF sg THEN Int64 ELSE Word)
      BY <1>4, <2>1
    <2> DEFINE N1 == {IF sg THEN I64(acc[bi].mn) ELSE acc[bi].mn : bi \in 1 .. nb}
               N4 == {IF sg THEN I64(acc[bi].sum) ELSE acc[bi].sum : bi \in 1 .. nb}
    <2>3. (\A m \in N1 : m \in (IF sg THEN Int64 ELSE Word)) /\ \A m \in N4 : m \in (IF sg THEN Int64 ELSE Word)
      BY <2>2
    <2> HIDE DEF N1, N4
    <2>4. ClassOf(sg, N1) \in Classes /\ ClassOf(sg, N4) \in Classes
      BY <2>3, ClassChosen
    <2> QED
      BY <2>4 DEF N1, N4
  <1>8. c2 \in Classes /\ c3 \in Classes /\ c5 \in Classes
    <2>0. \A ns : (\A m \in ns : m \in Word) => Classify(ns) \in Classes
      <3> SUFFICES ASSUME NEW ns, \A m \in ns : m \in Word PROVE Classify(ns) \in Classes
        OBVIOUS
      <3>1. UFits(K, ns) /\ K \in Classes
        BY Conversions, WrapFacts DEF UFits
      <3> QED
        BY <3>1, ClassifyFits
    <2> DEFINE N2 == {span[bi] : bi \in 1 .. nb}
               N3 == {total}
               N5 == {acc[bi].g : bi \in 1 .. nb}
    <2>1. (\A m \in N2 : m \in Word) /\ (\A m \in N3 : m \in Word) /\ (\A m \in N5 : m \in Word)
      BY <1>4, <1>5, <1>6
    <2> HIDE DEF N2, N3, N5
    <2>2. Classify(N2) \in Classes /\ Classify(N3) \in Classes /\ Classify(N5) \in Classes
      BY <2>0, <2>1
    <2> QED
      BY <2>2 DEF N2, N3, N5
  <1> HIDE DEF c1, c2, c3, c4, c5, stride
  <1> DEFINE x == 2 + Bytes(c1) + Bytes(c2) + Bytes(c3) + Bytes(c4) + IF stride THEN Bytes(c5) ELSE 0
  <1>9. x \in Nat
    <2>1. Bytes(c1) \in Nat /\ Bytes(c2) \in Nat /\ Bytes(c3) \in Nat /\ Bytes(c4) \in Nat /\ Bytes(c5) \in Nat
      BY <1>7, <1>8, ElementSizes
    <2> QED
      BY <2>1
  <1>10. bytes = total + nb * x
    OBVIOUS
  <1> HIDE DEF x, bytes, nb
  <1>11. nb * x \in Nat /\ total \in Nat
    BY <1>1, <1>6, <1>9, WrapFacts
  <1>12. bytes \in Int
    BY <1>10, <1>11
  <1> QED
    BY <1>2, <1>12

\* Among finitely many prices there is a least one, and a last of the least ones.
LEMMA BestExists ==
  ASSUME NEW n \in Nat \ {0}, NEW by, \A k \in 1 .. n : by[k] \in Int
  PROVE  \E k \in 1 .. n : \A j \in 1 .. n : by[k] <= by[j] /\ (by[k] = by[j] => j <= k)
  <1> DEFINE Good(m) == \E k \in 1 .. m : \A j \in 1 .. m : by[k] <= by[j] /\ (by[k] = by[j] => j <= k)
             S == {m \in 0 .. n : m > 0 => Good(m)}
  <1>1. 0 \in S
    OBVIOUS
  <1>2. ASSUME NEW m \in 1 .. n, m - 1 \in S PROVE m \in S
    <2>1. m \in 1 .. m /\ m \in Nat /\ by[m] \in Int /\ m \in 0 .. n
      OBVIOUS
    <2>2. CASE m = 1
      <3>1. \A j \in 1 .. m : j = m
        BY <2>2
      <3>2. \A j \in 1 .. m : by[m] <= by[j] /\ (by[m] = by[j] => j <= m)
        BY <2>1, <3>1
      <3> QED
        BY <2>1, <3>2
    <2>3. CASE m > 1
      <3>1. PICK k \in 1 .. m - 1 : \A j \in 1 .. m - 1 : by[k] <= by[j] /\ (by[k] = by[j] => j <= k)
        BY <1>2, <2>3
      <3>2. by[k] \in Int /\ k \in 1 .. m /\ k \in Nat
        BY <2>1
      <3>3. \A j \in 1 .. m : (j \in 1 .. m - 1 \/ j = m) /\ by[j] \in Int
        OBVIOUS
      <3>4. CASE by[m] <= by[k]
        <4>1. ASSUME NEW j \in 1 .. m PROVE by[m] <= by[j] /\ (by[m] = by[j] => j <= m)
          <5>1. CASE j = m
            BY <2>1, <5>1
          <5>2. CASE j \in 1 .. m - 1
            <6>1. by[k] <= by[j] /\ by[j] \in Int
              BY <3>1, <3>3, <5>2
            <6> QED
              BY <2>1, <3>2, <3>4, <6>1
          <5> QED
            BY <3>3, <5>1, <5>2
        <4> QED
          BY <2>1, <4>1
      <3>5. CASE by[k] < by[m]
        <4>1. ASSUME NEW j \in 1 .. m PROVE by[k] <= by[j] /\ (by[k] = by[j] => j <= k)
          <5>1. CASE j = m
            BY <2>1, <3>2, <3>5, <5>1
          <5>2. CASE j \in 1 .. m - 1
            BY <3>1, <5>2
          <5> QED
            BY <3>3, <5>1, <5>2
        <4> QED
          BY <2>1, <3>2, <4>1
      <3> QED
        BY <2>1, <3>2, <3>4, <3>5
    <2> QED
      BY <2>1, <2>2, <2>3
  <1> HIDE DEF S
  <1>3. S \in SUBSET (0 .. n)
    BY DEF S
  <1>4. n \in S
    BY <1>1, <1>2, <1>3, UpTo
  <1> QED
    BY <1>4 DEF S

\* The block size chosen is the default or a candidate.
LEMMA BlockChosen ==
  ASSUME NEW sg \in BOOLEAN, NEW vs, InMemory(vs, sg), NEW ok \in BOOLEAN
  PROVE  \/ ChooseBlock(vs, sg, ok) = BlockDefault
         \/ \E k \in 0 .. PlanMax - 1 : ChooseBlock(vs, sg, ok) = Doubled(k)
  <1> DEFINE C == Candidates(Len(vs))
             n == Cardinality(C)
             plan == Plan(vs, sg)
  <1>1. n \in Nat /\ n <= PlanMax
    <2>1. C \subseteq 0 .. PlanMax - 1 /\ PlanMax \in Nat \ {0}
      BY PlanAssumption DEF Candidates
    <2>2. IsFiniteSet(0 .. PlanMax - 1) /\ Cardinality(0 .. PlanMax - 1) = PlanMax
      BY <2>1, FS_Interval
    <2> HIDE DEF C
    <2>3. IsFiniteSet(C) /\ Cardinality(C) <= Cardinality(0 .. PlanMax - 1)
      BY <2>1, <2>2, FS_Subset
    <2>4. Cardinality(C) \in Nat
      BY <2>3, FS_CardinalityType
    <2> QED
      BY <2>2, <2>3, <2>4
  <1>2. CASE ~ok \/ plan = <<>>
    BY <1>2 DEF ChooseBlock, Best
  <1>3. CASE ok /\ plan # <<>>
    <2>1. vs # <<>> /\ plan = [k \in 1 .. n |-> Price(vs, sg, Doubled(k - 1))]
      BY <1>3 DEF Plan
    <2>2. n # 0
      <3> SUFFICES ASSUME n = 0 PROVE FALSE
        OBVIOUS
      <3> HIDE DEF n, plan
      <3>1. 1 .. n = {}
        OBVIOUS
      <3>2. plan = <<>>
        BY <2>1, <3>1
      <3> QED
        BY <1>3, <3>2
    <2> HIDE DEF n, plan
    <2>3. DOMAIN plan = 1 .. n
      BY <2>1
    <2>4. ASSUME NEW k \in 1 .. n
          PROVE  plan[k].bytes \in Int /\ plan[k].block = Doubled(k - 1) /\ k - 1 \in 0 .. PlanMax - 1
      <3>1. k - 1 \in Nat /\ k - 1 \in 0 .. PlanMax - 1
        BY <1>1, PlanAssumption
      <3>2. Doubled(k - 1) \in Nat \ {0}
        BY <3>1, DoubledFacts
      <3>3. plan[k] = Price(vs, sg, Doubled(k - 1))
        BY <2>1
      <3> QED
        BY <3>1, <3>2, <3>3, PriceType
    <2> DEFINE by == [k \in 1 .. n |-> plan[k].bytes]
    <2>5. \A k \in 1 .. n : by[k] \in Int
      BY <2>4
    <2>6. \E k \in 1 .. n : \A j \in 1 .. n : by[k] <= by[j] /\ (by[k] = by[j] => j <= k)
      <3> HIDE DEF by
      <3> QED
        BY <1>1, <2>2, <2>5, BestExists
    <2>7. \E k \in DOMAIN plan : TakesIt(plan, k)
      BY <2>3, <2>6 DEF TakesIt
    <2> DEFINE k == CHOOSE x \in DOMAIN plan : TakesIt(plan, x)
    <2>8. k \in DOMAIN plan
      BY <2>7
    <2>9. ChooseBlock(vs, sg, ok) = plan[k].block
      BY <1>3 DEF ChooseBlock, Best, plan
    <2> HIDE DEF k
    <2> QED
      BY <2>3, <2>4, <2>8, <2>9
  <1> QED
    BY <1>2, <1>3

-----------------------------------------------------------------------------
(* The program: what the structure it holds and the file stand for.         *)

\* A column as s2r_blocked_build left it, and the file it was saved to.
BuiltFrom(b) ==
  \E block \in Nat : /\ b = BlockedOf(arr, signed, block)
                     /\ b.block + Len(arr) <= Pow(K)
SavedFrom(d) ==
  \E b, pad : /\ BuiltFrom(b) /\ pad \in Byte /\ d.image = Image(b, pad)
              /\ d.len \in 0 .. Whole(d.image)
\* The file while nothing happened to it, and after something did.
WhollySaved(d) == SavedFrom(d) /\ d.len = Whole(d.image)
FileInv ==
  \/ ~file.there
  \/ hurt = "no" /\ SavedFrom(file)
  \/ /\ hurt = "elsewhere"
     /\ \E d : /\ WhollySaved(d)
              /\ \/ \E img \in Altered(d.image) : file = Stored(img, d.len)
                 \/ file = Stored(d.image, d.len + 1)
  \/ /\ hurt = "header"
     /\ \E d : WhollySaved(d) /\ \E img \in Renumbered(d.image) : file = Stored(img, d.len)

\* The affine column is the one of the array.
AffineInv ==
  built = "affine" =>
    \E ok \in BOOLEAN : AffineOf(arr, signed, ok).ret /\ aff = AffineOf(arr, signed, ok).aff

\* The inductive invariant.
FrameInv ==
  /\ signed \in BOOLEAN /\ arr \in (IF signed THEN SignedArrays ELSE UnsignedArrays)
  /\ built = "blocked" => Represents(blk, arr, signed)
  /\ ~file.there /\ built = "blocked" => BuiltFrom(blk)
  /\ FileInv /\ AffineInv

\* The arrays of the program lie in memory.
LEMMA ArraysInMemory ==
  ASSUME NEW sg \in BOOLEAN, NEW vs, vs \in (IF sg THEN SignedArrays ELSE UnsignedArrays)
  PROVE  InMemory(vs, sg)
  <1>1. /\ vs \in Seq(IF sg THEN Int64 ELSE Word) /\ Len(vs) * (6 * Bytes(K) + 2) < Pow(K)
    BY ArrayAssumption, RoomAssumption
  <1>2. \A v \in (IF sg THEN Int64 ELSE Word) : v \in Int
    <2>1. Word \subseteq Int /\ Int64 \subseteq Int
      BY Conversions DEF Int64
    <2> QED
      BY <2>1
  <1>3. vs \in Seq(Int) /\ \A i \in DOMAIN vs : vs[i] \in (IF sg THEN Int64 ELSE Word)
    BY <1>1, <1>2
  <1>4. Len(vs) * Bytes(K) <= Len(vs) * (6 * Bytes(K) + 2)
    <2> DEFINE n == Len(vs)
               e == Bytes(K)
    <2>1. n \in Nat /\ e \in Nat
      BY <1>3, ElementSizes, Conversions
    <2> HIDE DEF n, e
    <2>2. n * (6 * e + 2) = 6 * (n * e) + 2 * n /\ n * e \in Nat
      BY <2>1
    <2>3. n * e <= 6 * (n * e) + 2 * n
      BY <2>1, <2>2
    <2> QED
      BY <2>2, <2>3 DEF n, e
  <1>5. Len(vs) * Bytes(K) < Pow(K)
    <2> DEFINE x == Len(vs) * Bytes(K)
               y == Len(vs) * (6 * Bytes(K) + 2)
    <2>1. x \in Nat /\ y \in Nat /\ Pow(K) \in Nat
      BY <1>3, ElementSizes, Conversions, WrapFacts
    <2>2. x <= y /\ y < Pow(K)
      BY <1>1, <1>4
    <2> HIDE DEF x, y
    <2>3. x < Pow(K)
      BY <2>1, <2>2
    <2> QED
      BY <2>3 DEF x
  <1> QED
    BY <1>3, <1>5 DEF InMemory

\* A block size the program can ask for, and the planner's, leave room for counting.
LEMMA ChosenFits ==
  ASSUME NEW sg \in BOOLEAN, NEW vs, vs \in (IF sg THEN SignedArrays ELSE UnsignedArrays),
         NEW ok \in BOOLEAN, NEW block, block = ChooseBlock(vs, sg, ok)
  PROVE  block \in Nat \ {0} /\ block + Len(vs) <= Pow(K)
  <1>1. InMemory(vs, sg)
    BY ArraysInMemory
  <1>2. Len(vs) \in Nat /\ Pow(K) \in Nat
    BY <1>1, WrapFacts DEF InMemory
  <1>3. /\ BlockDefault + Len(vs) <= Pow(K) /\ BlockDefault \in Nat \ {0}
        /\ Doubled(PlanMax - 1) + Len(vs) <= Pow(K)
    BY RoomAssumption, BlockAssumption
  <1>4. CASE block = BlockDefault
    BY <1>3, <1>4
  <1>5. CASE \E k \in 0 .. PlanMax - 1 : block = Doubled(k)
    <2>1. PICK k \in 0 .. PlanMax - 1 : block = Doubled(k)
      BY <1>5
    <2>2. PlanMax - 1 \in Nat /\ k \in Nat
      BY PlanAssumption
    <2>3. block <= Doubled(PlanMax - 1)
      BY <2>1, <2>2, DoubledGrows
    <2>4. block \in Nat \ {0} /\ Doubled(PlanMax - 1) \in Nat
      BY <2>1, <2>2, DoubledFacts
    <2> QED
      BY <1>2, <1>3, <2>3, <2>4
  <1> QED
    BY <1>1, <1>4, <1>5, BlockChosen

\* A column built from the array of the program stands for it.
LEMMA BuiltIsRepresented ==
  ASSUME FrameInv, NEW b, BuiltFrom(b)
  PROVE  Represents(b, arr, signed)
  <1>1. signed \in BOOLEAN /\ InMemory(arr, signed)
    BY ArraysInMemory DEF FrameInv
  <1>2. PICK block \in Nat : b = BlockedOf(arr, signed, block) /\ b.block + Len(arr) <= Pow(K)
    BY DEF BuiltFrom
  <1> QED
    BY <1>1, <1>2, BuiltRepresents

\* What is loaded from the file of a column, too.
LEMMA LoadedIsRepresented ==
  ASSUME FrameInv, SavedFrom(file), NEW ok, NEW r, r = Load(file, ok), r.ret
  PROVE  Represents(r.blk, arr, signed)
  <1>1. signed \in BOOLEAN /\ InMemory(arr, signed)
    BY ArraysInMemory DEF FrameInv
  <1>2. PICK b, pad : BuiltFrom(b) /\ pad \in Byte /\ file.image = Image(b, pad)
    BY DEF SavedFrom
  <1>3. PICK block \in Nat : b = BlockedOf(arr, signed, block) /\ b.block + Len(arr) <= Pow(K)
    BY <1>2 DEF BuiltFrom
  <1> QED
    BY <1>1, <1>2, <1>3, LoadsBack

\* A sequence with one item replaced.
LEMMA OneReplaced ==
  ASSUME NEW s \in Seq(Byte), NEW i \in DOMAIN s, NEW v \in Byte, NEW t, t = [s EXCEPT ![i] = v]
  PROVE  t \in Seq(Byte) /\ Len(t) = Len(s)
  OBVIOUS

\* What an image altered outside its numbers still has of the one that was saved.
Resembles(x, img) ==
  LET g == x.head
      h == img.head
  IN  /\ x.rest \in Seq(Byte) /\ Len(x.rest) = Len(img.rest)
      /\ g = h \/ (OtherHead(h, g) /\ x.rest = img.rest)
      /\ x.crc = img.crc \/ x.crc = Crc(Append(x.rest, 0))

\* Every altered image does.
LEMMA AlteredResembles ==
  ASSUME NEW b, NEW pad, NEW img, img = Image(b, pad), img.rest \in Seq(Byte),
         NEW x \in Altered(img)
  PROVE  Resembles(x, img)
  <1>1. img = [head |-> img.head, rest |-> img.rest, crc |-> img.crc]
    BY DEF Image
  <1>2. \/ x \in {[img EXCEPT !.head.magic = "unknown"], [img EXCEPT !.head.signed = ~@]}
        \/ x \in {[img EXCEPT !.head.fmt = f] : f \in 1 .. 4}
        \/ x \in {[img EXCEPT !.head.bcls = c] : c \in -K .. K}
        \/ x \in {[img EXCEPT !.head.pcls = c] : c \in -K .. K}
        \/ x \in {[img EXCEPT !.head.ocls = c] : c \in -K .. K}
        \/ x \in {[img EXCEPT !.head.scls = c] : c \in -K .. K}
        \/ x \in {[img EXCEPT !.rest[i] = v] : i \in DOMAIN img.rest, v \in Byte}
        \/ x = [img EXCEPT !.crc = Crc(Append(img.rest, 0))]
    BY DEF Altered
  <1> DEFINE h == img.head
             g == x.head
  <1>3. ASSUME OtherHead(h, g), x.rest = img.rest, x.crc = img.crc
        PROVE  Resembles(x, img)
    BY <1>3 DEF Resembles
  <1>4. CASE x \in {[img EXCEPT !.head.magic = "unknown"], [img EXCEPT !.head.signed = ~@]}
    <2>1. CASE x = [img EXCEPT !.head.magic = "unknown"]
      <3>1. g = [h EXCEPT !.magic = "unknown"] /\ x.rest = img.rest /\ x.crc = img.crc
        BY <1>1, <2>1
      <3> QED
        BY <1>3, <3>1 DEF OtherHead
    <2>2. CASE x = [img EXCEPT !.head.signed = ~@]
      <3>1. g = [h EXCEPT !.signed = ~@] /\ x.rest = img.rest /\ x.crc = img.crc
        BY <1>1, <2>2
      <3> QED
        BY <1>3, <3>1 DEF OtherHead
    <2> QED
      BY <1>4, <2>1, <2>2
  <1>5. CASE x \in {[img EXCEPT !.head.fmt = f] : f \in 1 .. 4}
    <2>1. PICK f \in 1 .. 4 : x = [img EXCEPT !.head.fmt = f]
      BY <1>5
    <2>2. g = [h EXCEPT !.fmt = f] /\ x.rest = img.rest /\ x.crc = img.crc
      BY <1>1, <2>1
    <2> QED
      BY <1>3, <2>2 DEF OtherHead
  <1>6. CASE x \in {[img EXCEPT !.head.bcls = c] : c \in -K .. K}
    <2>1. PICK c \in -K .. K : x = [img EXCEPT !.head.bcls = c]
      BY <1>6
    <2>2. g = [h EXCEPT !.bcls = c] /\ x.rest = img.rest /\ x.crc = img.crc
      BY <1>1, <2>1
    <2> QED
      BY <1>3, <2>2 DEF OtherHead
  <1>7. CASE x \in {[img EXCEPT !.head.pcls = c] : c \in -K .. K}
    <2>1. PICK c \in -K .. K : x = [img EXCEPT !.head.pcls = c]
      BY <1>7
    <2>2. g = [h EXCEPT !.pcls = c] /\ x.rest = img.rest /\ x.crc = img.crc
      BY <1>1, <2>1
    <2> QED
      BY <1>3, <2>2 DEF OtherHead
  <1>8. CASE x \in {[img EXCEPT !.head.ocls = c] : c \in -K .. K}
    <2>1. PICK c \in -K .. K : x = [img EXCEPT !.head.ocls = c]
      BY <1>8
    <2>2. g = [h EXCEPT !.ocls = c] /\ x.rest = img.rest /\ x.crc = img.crc
      BY <1>1, <2>1
    <2> QED
      BY <1>3, <2>2 DEF OtherHead
  <1>9. CASE x \in {[img EXCEPT !.head.scls = c] : c \in -K .. K}
    <2>1. PICK c \in -K .. K : x = [img EXCEPT !.head.scls = c]
      BY <1>9
    <2>2. g = [h EXCEPT !.scls = c] /\ x.rest = img.rest /\ x.crc = img.crc
      BY <1>1, <2>1
    <2> QED
      BY <1>3, <2>2 DEF OtherHead
  <1>10. CASE x \in {[img EXCEPT !.rest[i] = v] : i \in DOMAIN img.rest, v \in Byte}
    <2>1. PICK i \in DOMAIN img.rest, v \in Byte : x = [img EXCEPT !.rest[i] = v]
      BY <1>10
    <2>2. x.rest = [img.rest EXCEPT ![i] = v]
      BY <1>1, <2>1
    <2>4. g = h /\ x.crc = img.crc
      BY <1>1, <2>1
    <2>3. x.rest \in Seq(Byte) /\ Len(x.rest) = Len(img.rest)
      BY <2>2, OneReplaced
    <2> QED
      BY <2>3, <2>4 DEF Resembles
  <1>11. CASE x = [img EXCEPT !.crc = Crc(Append(img.rest, 0))]
    <2>1. g = h /\ x.rest = img.rest /\ x.crc = Crc(Append(img.rest, 0))
      BY <1>1, <1>11
    <2> QED
      BY <2>1 DEF Resembles
  <1> QED
    BY <1>2, <1>4, <1>5, <1>6, <1>7, <1>8, <1>9, <1>10, <1>11

\* An image with other numbers in its header has the same bytes behind it.
LEMMA RenumberedIs ==
  ASSUME NEW b, NEW pad, NEW img, img = Image(b, pad), Numbered(img.head), NEW x \in Renumbered(img)
  PROVE  Numbered(x.head) /\ x.rest = img.rest
  <1> DEFINE h == img.head
             A == Rewrites \cup {h.count}
             B == Rewrites \cup {h.block}
             C == Rewrites \cup {h.nblocks}
             D == Rewrites \cup {h.bytes}
  <1>1. x \in {Rewritten(img, n, k, nb, pb) : n \in A, k \in B, nb \in C, pb \in D}
    BY DEF Renumbered
  <1> HIDE DEF A, B, C, D
  <1>2. PICK n \in A, k \in B, nb \in C, pb \in D : x = Rewritten(img, n, k, nb, pb)
    BY <1>1
  <1>4. x = [img EXCEPT !.head.count = n, !.head.block = k, !.head.nblocks = nb, !.head.bytes = pb]
    BY <1>2 DEF Rewritten
  <1>5. Rewrites \subseteq Nat
    <2>1. Word \subseteq Nat
      BY Conversions
    <2> QED
      BY <2>1, ArrayAssumption
  <1>6. n \in Nat /\ k \in Nat /\ nb \in Nat /\ pb \in Nat
    BY <1>5 DEF Numbered, A, B, C, D
  <1>7. h = [magic |-> h.magic, class |-> h.class, signed |-> h.signed, fmt |-> h.fmt,
              rsvd |-> h.rsvd, count |-> h.count, block |-> h.block, nblocks |-> h.nblocks,
              bcls |-> h.bcls, pcls |-> h.pcls, ocls |-> h.ocls, scls |-> h.scls, bytes |-> h.bytes]
    <2>1. h = Header(b)
      BY DEF Image
    <2> HIDE DEF h
    <2> QED
      BY <2>1, HeadFields
  <1>8. img = [head |-> h, rest |-> img.rest, crc |-> img.crc]
    BY DEF Image
  <1>9. x.head = [h EXCEPT !.count = n, !.block = k, !.nblocks = nb, !.bytes = pb] /\ x.rest = img.rest
    BY <1>4, <1>8
  <1> DEFINE g == x.head
  <1>10. /\ g.count = n /\ g.block = k /\ g.nblocks = nb /\ g.bytes = pb
         /\ g.bcls = h.bcls /\ g.pcls = h.pcls /\ g.ocls = h.ocls /\ g.scls = h.scls
    BY <1>7, <1>9
  <1>11. Numbered(g)
    <2> HIDE DEF g
    <2> QED
      BY <1>6, <1>10 DEF Numbered
  <1> QED
    BY <1>9, <1>11

\* What is loaded from a file whose numbers nobody touched is the column that was saved.
LEMMA UnforgedIsRepresented ==
  ASSUME FrameInv, file.there, hurt # "header", NEW ok, NEW r, r = Load(file, ok), r.ret
  PROVE  Represents(r.blk, arr, signed)
  <1>1. signed \in BOOLEAN /\ InMemory(arr, signed)
    BY ArraysInMemory DEF FrameInv
  <1>2. \E d : SavedFrom(d) /\ (file.image = d.image \/ file.image \in Altered(d.image))
    <2>1. CASE hurt = "no" /\ SavedFrom(file)
      BY <2>1
    <2>2. CASE \E d : /\ WhollySaved(d)
                     /\ \/ \E img \in Altered(d.image) : file = Stored(img, d.len)
                        \/ file = Stored(d.image, d.len + 1)
      BY <2>2 DEF WhollySaved, Stored
    <2> QED
      BY <2>1, <2>2 DEF FrameInv, FileInv
  <1>3. PICK d : SavedFrom(d) /\ (file.image = d.image \/ file.image \in Altered(d.image))
    BY <1>2
  <1>4. PICK b, pad : BuiltFrom(b) /\ pad \in Byte /\ d.image = Image(b, pad)
    BY <1>3 DEF SavedFrom
  <1>5. PICK block \in Nat : b = BlockedOf(arr, signed, block) /\ b.block + Len(arr) <= Pow(K)
    BY <1>4 DEF BuiltFrom
  <1> DEFINE img == d.image
             x == file.image
             nb == CeilDiv(Len(arr), b.block)
  <1>6. Filed(b, nb) /\ Laid(b)
    BY <1>1, <1>5, BuiltStored
  <1> HIDE DEF nb
  <1>7. img.rest \in Seq(Byte)
    <2> DEFINE body == Body(b, pad)
               rest == img.rest
    <2>1. body = Body(b, pad) /\ rest = Image(b, pad).rest /\ pad \in Byte
      BY <1>4
    <2> HIDE DEF body, rest
    <2>2. Led(rest, body, b)
      BY ONLY <1>6, <2>1, RestIs
    <2> QED
      BY <2>2 DEF Led, rest
  <1>8. Resembles(x, img)
    <2>1. CASE x = img
      BY <1>7, <2>1 DEF Resembles
    <2>2. CASE x \in Altered(img)
      BY <1>4, <1>7, <2>2, AlteredResembles
    <2> QED
      BY <1>3, <2>1, <2>2
  <1>9. img.head = Header(b) /\ img.crc = Crc(Body(b, pad)) /\ img.rest = Image(b, pad).rest
    BY <1>4 DEF Image
  <1> DEFINE rest == x.rest
             g == x.head
             h == Header(b)
             whole == img.rest
  <1>10. /\ rest \in Seq(Byte) /\ Len(rest) = Len(whole)
         /\ g = h \/ (OtherHead(h, g) /\ rest = whole)
         /\ x.crc = Crc(Body(b, pad)) \/ x.crc = Crc(Append(rest, 0))
    BY <1>8, <1>9 DEF Resembles
  <1>11. rest = file.image.rest /\ g = file.image.head /\ h = Header(b) /\ whole = Image(b, pad).rest
         /\ x = file.image
    BY <1>9
  <1> HIDE DEF rest, g, h, whole, x
  <1> QED
    BY <1>1, <1>4, <1>5, <1>10, <1>11, LoadsLike

\* What stands for the array gives it back.
LEMMA RepresentedGives ==
  ASSUME NEW b, signed \in BOOLEAN, InMemory(arr, signed), Represents(b, arr, signed)
  PROVE  Gives(b)
  <1>1. b.count = Len(arr) /\ b.signed = signed /\ DOMAIN arr = 1 .. Len(arr)
    BY DEF Represents, InMemory
  <1>2. \A i \in 1 .. Len(arr) : BlockedGet(b, i) = WordAt(i)
    BY ElementsKept DEF WordAt
  <1> QED
    BY <1>1, <1>2 DEF Gives

\* Of any file of the program the loader can say what it says of numbers and bytes.
LEMMA FileNumbered ==
  ASSUME FrameInv, file.there
  PROVE  Numbered(file.image.head) /\ file.image.rest \in Seq(Byte)
  <1>1. signed \in BOOLEAN /\ InMemory(arr, signed)
    BY ArraysInMemory DEF FrameInv
  <1>2. \E d : /\ SavedFrom(d)
              /\ \/ file.image = d.image
                 \/ file.image \in Altered(d.image) \/ file.image \in Renumbered(d.image)
    <2>1. CASE hurt = "no" /\ SavedFrom(file)
      BY <2>1
    <2>2. CASE \E d : /\ WhollySaved(d)
                     /\ \/ \E img \in Altered(d.image) : file = Stored(img, d.len)
                        \/ file = Stored(d.image, d.len + 1)
      BY <2>2 DEF WhollySaved, Stored
    <2>3. CASE \E d : WhollySaved(d) /\ \E img \in Renumbered(d.image) : file = Stored(img, d.len)
      BY <2>3 DEF WhollySaved, Stored
    <2> QED
      BY <2>1, <2>2, <2>3 DEF FrameInv, FileInv
  <1>3. PICK d : /\ SavedFrom(d)
                 /\ \/ file.image = d.image
                    \/ file.image \in Altered(d.image) \/ file.image \in Renumbered(d.image)
    BY <1>2
  <1>4. PICK b, pad : BuiltFrom(b) /\ pad \in Byte /\ d.image = Image(b, pad)
    BY <1>3 DEF SavedFrom
  <1>5. PICK block \in Nat : b = BlockedOf(arr, signed, block) /\ b.block + Len(arr) <= Pow(K)
    BY <1>4 DEF BuiltFrom
  <1> DEFINE img == d.image
             x == file.image
             nb == CeilDiv(Len(arr), b.block)
  <1>6. Filed(b, nb) /\ Laid(b) /\ Represents(b, arr, signed) /\ b.signed = signed
    BY <1>1, <1>5, BuiltStored
  <1> HIDE DEF nb
  <1>7. img.rest \in Seq(Byte)
    <2> DEFINE body == Body(b, pad)
               rest == img.rest
    <2>1. body = Body(b, pad) /\ rest = Image(b, pad).rest /\ pad \in Byte
      BY <1>4
    <2> HIDE DEF body, rest
    <2>2. Led(rest, body, b)
      BY ONLY <1>6, <2>1, RestIs
    <2> QED
      BY <2>2 DEF Led, rest
  <1>8. img.head = Header(b)
    BY <1>4 DEF Image
  <1>9. Numbered(img.head)
    <2>1. b.count \in Nat /\ b.block \in Nat
      BY <1>1, <1>6 DEF Represents, InMemory
    <2> HIDE DEF img
    <2> QED
      BY <1>1, <1>6, <1>8, <2>1, HeaderNumbered
  <1>10. CASE x = img
    BY <1>7, <1>9, <1>10
  <1>11. CASE x \in Altered(img)
    <2>1. Resembles(x, img)
      BY <1>4, <1>7, <1>11, AlteredResembles
    <2>2. x.rest \in Seq(Byte) /\ (x.head = img.head \/ OtherHead(img.head, x.head))
      BY <2>1 DEF Resembles
    <2> HIDE DEF x, img
    <2>3. Numbered(x.head)
      BY <1>8, <1>9, <2>2, OtherNumbered
    <2> QED
      BY <2>2, <2>3 DEF x
  <1>12. CASE x \in Renumbered(img)
    BY <1>4, <1>7, <1>9, <1>12, RenumberedIs
  <1> QED
    BY <1>3, <1>10, <1>11, <1>12

\* A build of the whole array, at a block size the program asks for.
LEMMA BuildGives ==
  ASSUME FrameInv, NEW block \in Nat,
         (IF block = 0 THEN BlockDefault ELSE block) + Len(arr) <= Pow(K)
  PROVE  BuiltFrom(BlockedOf(arr, signed, block))
  <1> DEFINE b == BlockedOf(arr, signed, block)
  <1>1. b.block = IF block = 0 THEN BlockDefault ELSE block
    BY DEF BlockedOf
  <1>2. b.block + Len(arr) <= Pow(K)
    BY <1>1
  <1> HIDE DEF b
  <1>3. BuiltFrom(b)
    BY <1>2 DEF BuiltFrom, b
  <1> QED
    BY <1>3 DEF b

\* What stays as long as the array, or the file, or the affine column is not touched.
LEMMA ArrayKept ==
  ASSUME FrameInv, UNCHANGED <<arr, signed>>
  PROVE  /\ (signed \in BOOLEAN /\ arr \in (IF signed THEN SignedArrays ELSE UnsignedArrays))'
         /\ \A b : BuiltFrom(b)' <=> BuiltFrom(b)
         /\ \A d : WhollySaved(d)' <=> WhollySaved(d)
         /\ \A d : SavedFrom(d)' <=> SavedFrom(d)
  BY DEF FrameInv, BuiltFrom, SavedFrom, WhollySaved

\* The file is what it was while neither it nor the array is touched.
LEMMA FileKept ==
  ASSUME FrameInv, UNCHANGED <<arr, signed, onDisk>>
  PROVE  FileInv'
  <1>1. file' = file /\ hurt' = hurt
    BY DEF onDisk
  <1>2. UNCHANGED <<arr, signed>>
    OBVIOUS
  <1>3. FileInv
    BY DEF FrameInv
  <1> HIDE DEF FrameInv
  <1> QED
    BY <1>1, <1>2, <1>3, ArrayKept DEF FileInv

\* The affine column is, while it is not rebuilt.
LEMMA AffineKept ==
  ASSUME FrameInv, UNCHANGED <<arr, signed, aff>>, built' = "affine" => built = "affine"
  PROVE  AffineInv'
  BY DEF FrameInv, AffineInv

\* The initial states.
LEMMA FrameStarts == Init => FrameInv
  <1> SUFFICES ASSUME Init PROVE FrameInv
    OBVIOUS
  <1>1. signed \in BOOLEAN /\ arr \in (IF signed THEN SignedArrays ELSE UnsignedArrays)
    BY DEF Init
  <1>2. built = "none" /\ ~file.there
    BY DEF Init, NoFile
  <1> QED
    BY <1>1, <1>2 DEF FrameInv, FileInv, AffineInv

\* A build gives a column of the array, or none.
LEMMA BuildKeeps ==
  ASSUME FrameInv, NEW block \in Nat, NEW ok \in BOOLEAN, BuildBlocked(block, ok),
         (IF block = 0 THEN BlockDefault ELSE block) + Len(arr) <= Pow(K)
  PROVE  FrameInv'
  <1>1. UNCHANGED <<arr, signed, onDisk>> /\ built' \in {"blocked", "none"} /\ ~file.there
    BY DEF BuildBlocked, Unbuilt
  <1>2. UNCHANGED <<arr, signed>>
    BY <1>1
  <1>3. built' = "blocked" => blk' = BlockedOf(arr, signed, block)
    BY DEF BuildBlocked
  <1>4. built' = "blocked" => BuiltFrom(blk')
    BY <1>3, BuildGives
  <1>5. built' = "blocked" => Represents(blk', arr, signed)
    BY <1>4, BuiltIsRepresented
  <1>6. built' = "blocked" => BuiltFrom(blk)'
    BY <1>2, <1>4 DEF BuiltFrom
  <1>7. FileInv'
    BY <1>1, FileKept
  <1>8. AffineInv'
    BY <1>1 DEF AffineInv
  <1>9. (signed \in BOOLEAN /\ arr \in (IF signed THEN SignedArrays ELSE UnsignedArrays))'
    BY <1>2, ArrayKept
  <1>10. (built = "blocked" => Represents(blk, arr, signed))'
    BY <1>2, <1>5
  <1> QED
    BY <1>6, <1>7, <1>8, <1>9, <1>10 DEF FrameInv

\* At a block size of the program, or the default.
LEMMA BlockedBuildKeeps ==
  ASSUME Careful, FrameInv, s2r_blocked_build
  PROVE  FrameInv'
  <1>1. PICK block \in BlockSizes, ok \in BOOLEAN :
          BuildBlocked(block, ok) /\ block + Len(arr) <= Pow(K)
    BY DEF s2r_blocked_build
  <1>2. arr \in UnsignedArrays \cup SignedArrays
    BY DEF FrameInv
  <1>3. block \in Nat /\ BlockDefault + Len(arr) <= Pow(K) /\ block + Len(arr) <= Pow(K)
    BY <1>1, <1>2, ArrayAssumption, RoomAssumption DEF Word
  <1> QED
    BY <1>1, <1>3, BuildKeeps

\* At the block size of the planner.
LEMMA AutoBuildKeeps ==
  ASSUME FrameInv, s2r_blocked_build_auto
  PROVE  FrameInv'
  <1>1. PICK planned \in BOOLEAN, ok \in BOOLEAN : BuildBlocked(ChooseBlock(arr, signed, planned), ok)
    BY DEF s2r_blocked_build_auto
  <1> DEFINE block == ChooseBlock(arr, signed, planned)
  <1>2. block \in Nat \ {0} /\ block + Len(arr) <= Pow(K)
    <2>1. signed \in BOOLEAN /\ arr \in (IF signed THEN SignedArrays ELSE UnsignedArrays)
      BY DEF FrameInv
    <2> QED
      BY <2>1, ChosenFits
  <1>3. BuildBlocked(block, ok)
    BY <1>1
  <1> HIDE DEF block
  <1> QED
    BY <1>2, <1>3, BuildKeeps

\* Freeing leaves nothing to stand for the array.
LEMMA FreeKeeps ==
  ASSUME FrameInv, s2r_blocked_free \/ s2r_affine_free
  PROVE  FrameInv'
  <1>1. UNCHANGED <<arr, signed, onDisk>> /\ built' = "none"
    BY DEF s2r_blocked_free, s2r_affine_free
  <1>2. UNCHANGED <<arr, signed>>
    BY <1>1
  <1>3. FileInv'
    BY <1>1, FileKept
  <1>4. (signed \in BOOLEAN /\ arr \in (IF signed THEN SignedArrays ELSE UnsignedArrays))'
    BY <1>2, ArrayKept
  <1> QED
    BY <1>1, <1>3, <1>4 DEF FrameInv, AffineInv

\* An affine build records what it was built from.
LEMMA AffineBuildKeeps ==
  ASSUME FrameInv, s2r_affine_build
  PROVE  FrameInv'
  <1>1. UNCHANGED <<arr, signed, onDisk>> /\ built' \in {"affine", "none"}
    BY DEF s2r_affine_build
  <1>2. UNCHANGED <<arr, signed>>
    BY <1>1
  <1>3. FileInv'
    BY <1>1, FileKept
  <1>4. (signed \in BOOLEAN /\ arr \in (IF signed THEN SignedArrays ELSE UnsignedArrays))'
    BY <1>2, ArrayKept
  <1>5. PICK ok \in BOOLEAN :
          /\ aff' = AffineOf(arr, signed, ok).aff
          /\ built' = IF AffineOf(arr, signed, ok).ret THEN "affine" ELSE "none"
    BY DEF s2r_affine_build
  <1>6. built' = "affine" => AffineOf(arr, signed, ok).ret
    BY <1>5
  <1>7. AffineInv'
    BY <1>2, <1>5, <1>6 DEF AffineInv
  <1> QED
    BY <1>1, <1>3, <1>4, <1>7 DEF FrameInv

\* A save leaves a file of the column, however much of it.
LEMMA SaveKeeps ==
  ASSUME FrameInv, s2r_blocked_save
  PROVE  FrameInv'
  <1>1. /\ UNCHANGED <<arr, signed, blk, aff, built>> /\ built = "blocked" /\ ~file.there
        /\ hurt' = "no"
    BY DEF s2r_blocked_save
  <1>2. UNCHANGED <<arr, signed>>
    BY <1>1
  <1>3. BuiltFrom(blk) /\ Represents(blk, arr, signed)
    BY <1>1 DEF FrameInv
  <1>p. PICK pad \in {0, Pow(1) - 1} :
          \E n \in 0 .. Whole(Image(blk, pad)) : file' = Stored(Image(blk, pad), n)
    BY DEF s2r_blocked_save
  <1>4. PICK n \in 0 .. Whole(Image(blk, pad)) : file' = Stored(Image(blk, pad), n)
    BY <1>p
  <1>5. pad \in Byte
    BY PowFacts, ClassAssumption DEF Byte, Classes
  <1>6. SavedFrom(file')
    <2>1. file'.image = Image(blk, pad) /\ file'.len = n
      BY <1>4 DEF Stored
    <2> QED
      BY <1>3, <1>4, <1>5, <2>1 DEF SavedFrom
  <1>7. SavedFrom(file)'
    BY <1>2, <1>6 DEF SavedFrom, BuiltFrom
  <1>8. FileInv'
    BY <1>1, <1>7 DEF FileInv
  <1>9. file'.there
    BY <1>4 DEF Stored
  <1>10. (signed \in BOOLEAN /\ arr \in (IF signed THEN SignedArrays ELSE UnsignedArrays))'
    BY <1>2, ArrayKept
  <1>11. AffineInv'
    BY <1>1, AffineKept
  <1>12. (built = "blocked" => Represents(blk, arr, signed))'
    BY <1>1, <1>3
  <1> QED
    BY <1>8, <1>9, <1>10, <1>11, <1>12 DEF FrameInv

\* A load gives a column of the array from an undamaged file, or none.
LEMMA LoadKeeps ==
  ASSUME FrameInv, s2r_blocked_load
  PROVE  FrameInv'
  <1>1. PICK ok \in BOOLEAN :
          /\ blk' = LoadBlocked(file, ok).blk
          /\ built' = IF ~LoadBlocked(file, ok).ret THEN "none"
                      ELSE IF hurt = "no" THEN "blocked" ELSE "foreign"
    BY DEF s2r_blocked_load
  <1>2. UNCHANGED <<arr, signed, onDisk>>
    BY DEF s2r_blocked_load
  <1>3. UNCHANGED <<arr, signed>> /\ file' = file
    BY <1>2 DEF onDisk
  <1>4. FileInv'
    BY <1>2, FileKept
  <1>5. (signed \in BOOLEAN /\ arr \in (IF signed THEN SignedArrays ELSE UnsignedArrays))'
    BY <1>3, ArrayKept
  <1>6. AffineInv'
    BY <1>1 DEF AffineInv
  <1>7. built' = "blocked" => file.there /\ hurt = "no" /\ LoadBlocked(file, ok).ret
    BY <1>1 DEF LoadBlocked, RefusedFile
  <1>8. built' = "blocked" => Represents(blk', arr, signed)
    <2> SUFFICES ASSUME built' = "blocked" PROVE Represents(blk', arr, signed)
      OBVIOUS
    <2>1. SavedFrom(file)
      BY <1>7 DEF FrameInv, FileInv
    <2> DEFINE r == Load(file, ok)
    <2>2. r.ret /\ blk' = r.blk
      BY <1>1, <1>7 DEF LoadBlocked
    <2>3. r = Load(file, ok)
      OBVIOUS
    <2> HIDE DEF r
    <2>4. Represents(r.blk, arr, signed)
      BY <2>1, <2>2, <2>3, LoadedIsRepresented
    <2> QED
      BY <2>2, <2>4
  <1>9. (built = "blocked" => Represents(blk, arr, signed))'
    BY <1>3, <1>8
  <1>10. (~file.there /\ built = "blocked" => BuiltFrom(blk))'
    BY <1>3, <1>7
  <1> QED
    BY <1>4, <1>5, <1>6, <1>9, <1>10 DEF FrameInv

\* Damage to a whole file is on record.
LEMMA DamageKeeps ==
  ASSUME FrameInv, Damage
  PROVE  FrameInv'
  <1>1. /\ UNCHANGED <<arr, signed, blk, aff, built>> /\ built = "none" /\ file.there /\ hurt = "no"
        /\ file.len = Whole(file.image)
    BY DEF Damage
  <1>2. UNCHANGED <<arr, signed>>
    BY <1>1
  <1>3. WhollySaved(file)
    BY <1>1 DEF FrameInv, FileInv, WhollySaved
  <1>4. \A d : WhollySaved(d)' <=> WhollySaved(d)
    BY <1>2, ArrayKept
  <1>5. FileInv'
    <2>1. CASE hurt' = "header" /\ \E img \in Renumbered(file.image) : file' = Stored(img, file.len)
      <3>1. \E d : WhollySaved(d)' /\ \E img \in Renumbered(d.image) : file' = Stored(img, d.len)
        BY <1>3, <1>4, <2>1
      <3> QED
        BY <2>1, <3>1 DEF FileInv
    <2>2. CASE /\ hurt' = "elsewhere"
               /\ \/ \E img \in Altered(file.image) : file' = Stored(img, file.len)
                  \/ file' = Stored(file.image, file.len + 1)
      <3>1. \E d : /\ WhollySaved(d)'
                   /\ \/ \E img \in Altered(d.image) : file' = Stored(img, d.len)
                      \/ file' = Stored(d.image, d.len + 1)
        BY <1>3, <1>4, <2>2
      <3> QED
        BY <2>2, <3>1 DEF FileInv
    <2> QED
      BY <2>1, <2>2 DEF Damage
  <1>6. (signed \in BOOLEAN /\ arr \in (IF signed THEN SignedArrays ELSE UnsignedArrays))'
    BY <1>2, ArrayKept
  <1> QED
    BY <1>1, <1>5, <1>6 DEF FrameInv, AffineInv

\* Every step keeps the invariant.
LEMMA FrameSteps ==
  ASSUME Careful
  PROVE  FrameInv /\ [Next]_vars => FrameInv'
  <1> SUFFICES ASSUME FrameInv, [Next]_vars PROVE FrameInv'
    OBVIOUS
  <1>1. CASE s2r_blocked_save
    BY <1>1, SaveKeeps
  <1>2. CASE s2r_blocked_load
    BY <1>2, LoadKeeps
  <1>3. CASE Damage
    BY <1>3, DamageKeeps
  <1>4. CASE s2r_blocked_build
    BY <1>4, BlockedBuildKeeps
  <1>5. CASE s2r_blocked_build_auto
    BY <1>5, AutoBuildKeeps
  <1>6. CASE s2r_blocked_free
    BY <1>6, FreeKeeps
  <1>7. CASE s2r_affine_build
    BY <1>7, AffineBuildKeeps
  <1>8. CASE s2r_affine_free
    BY <1>8, FreeKeeps
  <1>9. CASE UNCHANGED vars
    BY <1>9 DEF vars, onDisk, FrameInv, FileInv, AffineInv, BuiltFrom, SavedFrom, WhollySaved
  <1> QED
    BY <1>1, <1>2, <1>3, <1>4, <1>5, <1>6, <1>7, <1>8, <1>9 DEF Next

\* Along every behaviour a column that was built, or loaded from a file no one damaged,
\* is the array cut into blocks, and a file is what was saved of such a column, or that
\* with what happened to it.
THEOREM FrameInvHolds == ASSUME Careful PROVE Spec => []FrameInv
  <1>1. Init => FrameInv
    BY FrameStarts
  <1>2. FrameInv /\ [Next]_vars => FrameInv'
    BY FrameSteps
  <1> QED
    BY <1>1, <1>2, PTL DEF Spec

\* What the invariant says of the values of a built column.
LEMMA FrameArray ==
  ASSUME FrameInv, built = "blocked"
  PROVE  signed \in BOOLEAN /\ InMemory(arr, signed) /\ Represents(blk, arr, signed)
  BY ArraysInMemory DEF FrameInv

\* s2r_blocked_get gives back every element of the array, also from a loaded file.
THEOREM BlockedKeepsValuesHolds == ASSUME Careful PROVE Spec => []BlockedKeepsValues
  <1>1. FrameInv => BlockedKeepsValues
    <2> SUFFICES ASSUME FrameInv, built = "blocked",
                        NEW i \in DOMAIN arr
                 PROVE  BlockedGet(blk, i) = WordAt(i) /\ (signed => BlockedGetSigned(blk, i) = arr[i])
      BY DEF BlockedKeepsValues
    <2>1. signed \in BOOLEAN /\ InMemory(arr, signed) /\ Represents(blk, arr, signed)
      BY FrameArray
    <2> QED
      BY <2>1, ElementsKept DEF WordAt
  <1> QED
    BY <1>1, FrameInvHolds, PTL

\* The deltas of the blocks of such a column lie apart in its payload.
THEOREM PayloadApartHolds == ASSUME Careful PROVE Spec => []PayloadApart
  <1>1. FrameInv => PayloadApart
    <2> SUFFICES ASSUME FrameInv, built = "blocked" PROVE PayloadApart
      BY DEF PayloadApart
    <2> DEFINE stored == {bi \in DOMAIN blk.blocks : blk.blocks[bi].width # 0}
               w(bi)  == Bytes(blk.blocks[bi].width)
               end(bi) == BO(blk, bi) + BlkLen(blk, bi) * w(bi)
    <2>1. signed \in BOOLEAN /\ InMemory(arr, signed) /\ Represents(blk, arr, signed)
      BY FrameArray
    <2>2. ASSUME NEW bi \in stored
          PROVE  /\ BO(blk, bi) % w(bi) = 0 /\ end(bi) <= blk.bytes
                 /\ \A bj \in stored : bi < bj => end(bi) <= BO(blk, bj)
      <3> DEFINE e == w(bi)
      <3>1. bi \in DOMAIN blk.blocks /\ blk.blocks[bi].width # 0 /\ e = Bytes(blk.blocks[bi].width)
        OBVIOUS
      <3> HIDE DEF e
      <3>2. /\ BO(blk, bi) % e = 0 /\ BO(blk, bi) + BlkLen(blk, bi) * e <= blk.bytes
            /\ \A bj \in DOMAIN blk.blocks : blk.blocks[bj].width # 0 /\ bi < bj =>
                 BO(blk, bi) + BlkLen(blk, bi) * e <= BO(blk, bj)
        BY <2>1, <3>1, StoredApart
      <3> QED
        BY <3>2 DEF e
    <2> HIDE DEF end, stored
    <2>3. \A bi, bj \in stored : bi < bj => end(bi) <= BO(blk, bj) \/ end(bj) <= BO(blk, bi)
      BY <2>2
    <2> QED
      BY <2>2, <2>3 DEF PayloadApart, stored, end
  <1> QED
    BY <1>1, FrameInvHolds, PTL

\* And what the zone statistics say of it is what the array says.
THEOREM ZoneMapTrueHolds == ASSUME Careful PROVE Spec => []ZoneMapTrue
  <1>1. FrameInv => ZoneMapTrue
    <2> SUFFICES ASSUME FrameInv, built = "blocked" PROVE ZoneMapTrue
      BY DEF ZoneMapTrue
    <2>1. signed \in BOOLEAN /\ InMemory(arr, signed) /\ Represents(blk, arr, signed)
      BY FrameArray
    <2>2. BlockedSum(blk) = SumWrapped(arr) /\ BlockedSumFast(blk) = SumWrapped(arr)
      BY <2>1, ZonesAddUp
    <2>3. ~signed /\ arr # <<>> => BlockedMax(blk) = Greatest(arr) /\ BlockedMin(blk) = Least(arr)
      <3> SUFFICES ASSUME ~signed, arr # <<>>
                   PROVE  BlockedMax(blk) = Greatest(arr) /\ BlockedMin(blk) = Least(arr)
        OBVIOUS
      <3>1. signed = FALSE
        BY <2>1
      <3>2. InMemory(arr, FALSE) /\ Represents(blk, arr, FALSE)
        BY <2>1, <3>1
      <3> QED
        BY <3>2, ZoneExtremes
    <2> QED
      BY <2>2, <2>3 DEF ZoneMapTrue
  <1> QED
    BY <1>1, FrameInvHolds, PTL

\* A block-wise file whose header numbers nobody touched gives the column that was saved,
\* or nothing; one that is whole and sound is not refused (s2r_blocked_load).
THEOREM BlockFileFaithfulHolds == ASSUME Careful PROVE Spec => []BlockFileFaithful
  <1>1. FrameInv => BlockFileFaithful
    <2> SUFFICES ASSUME FrameInv, file.there, hurt # "header" PROVE BlockFileFaithful
      BY DEF BlockFileFaithful
    <2> DEFINE r == Load(file, TRUE)
    <2>1. LoadBlocked(file, TRUE) = r
      BY DEF LoadBlocked
    <2>2. signed \in BOOLEAN /\ InMemory(arr, signed)
      BY ArraysInMemory DEF FrameInv
    <2>3. r.ret => Gives(r.blk)
      <3> SUFFICES ASSUME r.ret PROVE Gives(r.blk)
        OBVIOUS
      <3>1. r = Load(file, TRUE)
        OBVIOUS
      <3> HIDE DEF r
      <3>2. Represents(r.blk, arr, signed)
        BY <3>1, UnforgedIsRepresented
      <3> QED
        BY <2>2, <3>2, RepresentedGives
    <2>4. ASSUME hurt = "no", file.len = Whole(file.image)
          PROVE  r.ret
      <3>1. SavedFrom(file)
        BY <2>4 DEF FrameInv, FileInv
      <3>2. PICK b, pad : BuiltFrom(b) /\ pad \in Byte /\ file.image = Image(b, pad)
        BY <3>1 DEF SavedFrom
      <3>3. PICK block \in Nat : b = BlockedOf(arr, signed, block) /\ b.block + Len(arr) <= Pow(K)
        BY <3>2 DEF BuiltFrom
      <3>4. Len(arr) * (6 * Bytes(K) + 2) < Pow(K)
        BY <2>2, RoomAssumption DEF FrameInv
      <3> QED
        BY <2>2, <2>4, <3>2, <3>3, <3>4, WholeAccepted
    <2> HIDE DEF r
    <2> QED
      BY <2>1, <2>3, <2>4 DEF BlockFileFaithful
  <1> QED
    BY <1>1, FrameInvHolds, PTL

\* What the loader accepts can be read, whatever the four numbers of the header were turned
\* into, as long as counting the blocks did not wrap.
THEOREM BlockFileReadableHolds ==
  ASSUME Careful
  PROVE  Spec => []BlockFileReadable
  <1>1. FrameInv => BlockFileReadable
    <2> SUFFICES ASSUME FrameInv, file.there, CountRounds(file.image.head),
                        LoadBlocked(file, TRUE).ret
                 PROVE  Readable(LoadBlocked(file, TRUE).blk)
      BY DEF BlockFileReadable
    <2> DEFINE r == LoadBlocked(file, TRUE)
               h == file.image.head
               rest == file.image.rest
    <2>1. r = Load(file, TRUE) /\ r.ret
      BY DEF LoadBlocked
    <2>2. Numbered(h) /\ rest \in Seq(Byte) /\ CountRounds(h)
      BY FileNumbered
    <2>3. h = file.image.head /\ rest = file.image.rest
      OBVIOUS
    <2> HIDE DEF h, rest, r
    <2>4. Readable(r.blk)
      BY <2>1, <2>2, <2>3, AcceptedReadable
    <2> QED
      BY <2>4 DEF r
  <1> QED
    BY <1>1, FrameInvHolds, PTL

\* The predicates of an unsigned block-wise column, by zone, by bisection or by kernel,
\* answer what a scan answers (s2r_blocked_count_gt and its kin).
THEOREM BlockedPredicatesHolds == ASSUME Careful PROVE Spec => []BlockedPredicates
  <1>1. FrameInv => BlockedPredicates
    <2> SUFFICES ASSUME FrameInv, built = "blocked", ~signed PROVE BlockedPredicates
      BY DEF BlockedPredicates
    <2>0. signed \in BOOLEAN /\ InMemory(arr, signed) /\ Represents(blk, arr, signed)
      BY FrameArray
    <2>1. signed = FALSE /\ InMemory(arr, FALSE) /\ Represents(blk, arr, FALSE)
      <3>1. signed = FALSE
        BY <2>0
      <3> QED
        BY <2>0, <3>1
    <2>2. /\ Turned(arr, 0)
          /\ \A bi \in DOMAIN blk.blocks : RoundsUp(BB(blk, bi), BT(blk, bi), 0)
      BY <2>1, UnsignedStands
    <2>3. arr \in Seq(Int) /\ DOMAIN arr = 1 .. Len(arr) /\ \A i \in 1 .. Len(arr) : arr[i] \in Nat
      <3>1. arr \in Seq(Int) /\ DOMAIN arr = 1 .. Len(arr)
        BY <2>1 DEF InMemory
      <3>2. \A i \in 1 .. Len(arr) : arr[i] \in Nat
        BY <2>1, UnsignedStands
      <3> QED
        BY <3>1, <3>2
    <2>4. ASSUME NEW lo, NEW hi PROVE Inside(arr, 0, lo, hi) = Within(lo, hi)
      <3>1. \A i \in 1 .. Len(arr) : arr[i] + 0 = arr[i]
        BY <2>3
      <3> QED
        BY <2>3, <3>1 DEF Inside, Within
    <2>5. ASSUME NEW lo, NEW hi PROVE SumWrapped(Masked(arr, 0, lo, hi)) = ScanSum(lo, hi)
      <3>1. \A i \in DOMAIN arr : arr[i] + 0 = arr[i]
        BY <2>3
      <3>2. Masked(arr, 0, lo, hi) =
              [i \in DOMAIN arr |-> IF lo <= arr[i] /\ arr[i] <= hi THEN arr[i] ELSE 0]
        BY <3>1 DEF Masked
      <3> QED
        BY <3>2 DEF ScanSum
    <2>6. ASSUME NEW lo \in Word, NEW hi \in Word,
                 \A bi \in DOMAIN blk.blocks : RoundsUp(BB(blk, bi), BT(blk, bi), lo)
          PROVE  /\ BlockedCountRange(blk, lo, hi) = ScanCount(lo, hi)
                 /\ BlockedSumIf(blk, lo, hi) = ScanSum(lo, hi)
      <3>1. /\ BlockedCountRange(blk, lo, hi) = Cardinality(Inside(arr, 0, lo, hi))
            /\ BlockedSumIf(blk, lo, hi) = SumWrapped(Masked(arr, 0, lo, hi))
        BY ONLY <2>0, <2>2, <2>6, lo \in Word, hi \in Word, WindowsExact
      <3> QED
        BY <2>4, <2>5, <3>1 DEF ScanCount
    <2>7. ASSUME NEW t \in Bounds
          PROVE  /\ BlockedCountGt(blk, t) = ScanCount(t + 1, Pow(K))
                 /\ BlockedCountLt(blk, t) = ScanCount(0, t - 1)
      <3>1. t \in Word /\ t \in Nat /\ t < Pow(K) /\ Pow(K) \in Nat
        <4>1. t \in Word
          BY ArrayAssumption
        <4> QED
          BY <4>1, WrapFacts DEF Word
      <3>2. BlockedCountGt(blk, t) = ScanCount(t + 1, Pow(K))
        <4> DEFINE above == t + 1
        <4>1. above = t + 1
          OBVIOUS
        <4> HIDE DEF above
        <4>2. BlockedCountGt(blk, t) = Cardinality(Inside(arr, 0, above, Pow(K)))
          BY ONLY <2>0, <2>2, <3>1, <4>1, GtExact
        <4> QED
          BY <2>4, <4>1, <4>2 DEF ScanCount
      <3>3. CASE t = 0
        <4>1. Within(0, t - 1) = {}
          <5>1. \A i \in DOMAIN arr : ~(0 <= arr[i] /\ arr[i] <= t - 1)
            BY <2>3, <3>3
          <5> QED
            BY <5>1 DEF Within
        <4>2. ScanCount(0, t - 1) = 0
          BY <4>1, FS_EmptySet DEF ScanCount
        <4> QED
          BY <3>2, <3>3, <4>2 DEF BlockedCountLt
      <3>4. CASE t # 0
        <4> DEFINE below == t - 1
        <4>1. 0 \in Word /\ below \in Word
          BY <3>1, <3>4 DEF Word
        <4> HIDE DEF below
        <4>2. BlockedCountRange(blk, 0, below) = ScanCount(0, below)
          BY <2>2, <2>6, <4>1
        <4> QED
          BY <3>2, <3>4, <4>2 DEF BlockedCountLt, below
      <3> QED
        BY <3>3, <3>4
    <2>8. ASSUME NEW lo \in Bounds, NEW hi \in Bounds, BlocksRoundUp(lo)
          PROVE  /\ BlockedCountRange(blk, lo, hi) = ScanCount(lo, hi)
                 /\ BlockedSumIf(blk, lo, hi) = ScanSum(lo, hi)
                 /\ lo = hi => BlockedCountEq(blk, lo) = ScanCount(lo, lo)
      <3>1. lo \in Word /\ hi \in Word
        BY ArrayAssumption
      <3>2. \A bi \in DOMAIN blk.blocks : RoundsUp(BB(blk, bi), BT(blk, bi), lo)
        BY <2>8 DEF BlocksRoundUp
      <3>3. BlockedCountRange(blk, lo, hi) = ScanCount(lo, hi) /\ BlockedSumIf(blk, lo, hi) = ScanSum(lo, hi)
        BY <2>6, <3>1, <3>2
      <3>4. BlockedCountRange(blk, lo, lo) = ScanCount(lo, lo)
        BY <2>6, <3>1, <3>2
      <3> QED
        BY <3>3, <3>4 DEF BlockedCountEq
    <2> QED
      BY <2>7, <2>8 DEF BlockedPredicates
  <1> QED
    BY <1>1, FrameInvHolds, PTL

\* A sum over a window of a signed block-wise column is that of a scan while neither the
\* column nor the window has values on both sides of zero (s2r_blocked_sum_if_signed).
THEOREM SignedWindowSumsHolds == ASSUME Careful PROVE Spec => []SignedWindowSums
  <1>1. FrameInv => SignedWindowSums
    <2> SUFFICES ASSUME FrameInv, built = "blocked", signed,
                        NEW lo \in SignedBounds, NEW hi \in SignedBounds,
                        OneSign({arr[i] : i \in DOMAIN arr} \cup {lo, hi}), BlocksRoundUp(U64(lo))
                 PROVE  BlockedSumIfSigned(blk, lo, hi) = I64(ScanSum(lo, hi))
      BY DEF SignedWindowSums
    <2> DEFINE S == {arr[i] : i \in DOMAIN arr} \cup {lo, hi}
               scan == [i \in DOMAIN arr |-> IF lo <= arr[i] /\ arr[i] <= hi THEN arr[i] ELSE 0]
    <2>0. signed \in BOOLEAN /\ InMemory(arr, signed) /\ Represents(blk, arr, signed)
      BY FrameArray
    <2>1. signed = TRUE /\ InMemory(arr, TRUE) /\ Represents(blk, arr, TRUE)
      <3>1. signed = TRUE
        BY <2>0
      <3> QED
        BY <2>0, <3>1
    <2>2. arr \in Seq(Int) /\ \A i \in DOMAIN arr : arr[i] \in Int64
      BY <2>1 DEF InMemory
    <2>3. lo \in Int64 /\ hi \in Int64 /\ lo \in Int /\ hi \in Int
      <3>1. lo \in Int64 /\ hi \in Int64
        BY ArrayAssumption
      <3> QED
        BY <3>1 DEF Int64
    <2>4. S \in SUBSET Int64 /\ OneSign(S) /\ lo \in S /\ hi \in S /\ \A i \in DOMAIN arr : arr[i] \in S
      BY <2>2, <2>3
    <2>5. ScanSum(lo, hi) = SumWrapped(scan)
      BY DEF ScanSum
    <2> HIDE DEF S
    <2>6. PICK d \in {0, Pow(K)} : \A v \in S : U64(v) = v + d /\ v + d \in Word
      BY <2>4, OneTurn
    <2>7. Turned(arr, d) /\ d \in Int
      <3>1. \A i \in DOMAIN arr : arr[i] + d \in Word
        BY <2>4, <2>6
      <3> QED
        BY <3>1, WrapFacts DEF Turned
    <2>8. U64(lo) \in Word /\ U64(hi) \in Word /\ U64(lo) = lo + d /\ U64(hi) = hi + d
      BY <2>4, <2>6
    <2> DEFINE ulo == U64(lo)
               uhi == U64(hi)
    <2>9. BlockedSumIf(blk, ulo, uhi) = SumWrapped(Masked(arr, d, ulo, uhi))
      <3>1. \A bi \in DOMAIN blk.blocks : RoundsUp(BB(blk, bi), BT(blk, bi), ulo)
        BY DEF BlocksRoundUp
      <3>2. ulo \in Word /\ uhi \in Word
        BY <2>8
      <3> HIDE DEF ulo, uhi
      <3> QED
        BY ONLY <2>0, <2>7, <3>1, <3>2, WindowsExact
    <2>10. Masked(arr, d, ulo, uhi) = scan
      <3>1. ASSUME NEW i \in DOMAIN arr
            PROVE  (ulo <= arr[i] + d /\ arr[i] + d <= uhi) <=> (lo <= arr[i] /\ arr[i] <= hi)
        <4> DEFINE v == arr[i]
        <4>1. v \in Int /\ ulo = lo + d /\ uhi = hi + d
          BY <2>2, <2>8
        <4> HIDE DEF v, ulo, uhi
        <4>2. (ulo <= v + d /\ v + d <= uhi) <=> (lo <= v /\ v <= hi)
          BY <2>3, <2>7, <4>1
        <4> QED
          BY <4>2 DEF v
      <3> HIDE DEF ulo, uhi
      <3> QED
        BY <3>1 DEF Masked
    <2>11. CASE lo > hi
      <3>1. scan \in Seq(Int) /\ \A i \in DOMAIN scan : scan[i] = 0
        <4>1. \A i \in DOMAIN arr : ~(lo <= arr[i] /\ arr[i] <= hi)
          BY <2>2, <2>3, <2>11
        <4>2. scan = [i \in DOMAIN arr |-> 0] /\ DOMAIN scan = DOMAIN arr
          BY <4>1
        <4> HIDE DEF scan
        <4>3. DOMAIN arr = 1 .. Len(arr) /\ Len(arr) \in Nat
          BY <2>2
        <4> QED
          BY <4>2, <4>3
      <3> HIDE DEF scan
      <3>2. SumWrapped(scan) = 0
        BY <3>1, ZerosSum
      <3>3. I64(0) = 0
        BY Conversions DEF I64, AsSigned
      <3> QED
        BY <2>5, <2>11, <3>2, <3>3 DEF BlockedSumIfSigned
    <2>12. CASE ~(lo > hi)
      <3>1. BlockedSumIfSigned(blk, lo, hi) = I64(BlockedSumIf(blk, ulo, uhi))
        BY <2>12 DEF BlockedSumIfSigned
      <3> HIDE DEF scan, ulo, uhi
      <3> QED
        BY <2>5, <2>9, <2>10, <3>1
    <2> QED
      BY <2>11, <2>12
  <1> QED
    BY <1>1, FrameInvHolds, PTL
=============================================================================
