---------------------------- MODULE QueryProofs ----------------------------
(***************************************************************************)
(* PoolQueries, for every column a careful caller can reach: whatever      *)
(* shortcut a query takes (the summary, the recorded order, the bounds of  *)
(* the class, the wrapping kernel, a sorted copy) it answers what a scan   *)
(* answers.                                                                *)
(***************************************************************************)
EXTENDS PoolQueries, PoolProofs

-----------------------------------------------------------------------------
(* Binary search.                                                           *)

\* s2r__lower_u and its like, when the elements looked for are the first c.
LEMMA HalvedIs ==
  ASSUME NEW n \in Nat, NEW c \in 0 .. n
  PROVE  Halved(n, 1 .. c) = c
  <1> DEFINE s == CHOOSE f : Halving(f, n, 1 .. c)
  <1>1. Halving(s, n, 1 .. c)
    BY HalvingExists
  <1>2. Halved(n, 1 .. c) = s[<<0, n>>]
    BY DEF Halved, Halving
  <1> HIDE DEF s
  <1>3. s[<<0, n>>] = Cut(c, 0, n)
    BY <1>1, HalvingIs
  <1> QED
    BY <1>2, <1>3 DEF Cut

\* The search counts the elements looked for, when they come first.
LEMMA HalvedCounts ==
  ASSUME NEW n \in Nat, NEW G \in SUBSET (1 .. n), \A j \in G : \A i \in 1 .. j : i \in G
  PROVE  Halved(n, G) = Cardinality(G) /\ IsFiniteSet(G)
  <1>1. PICK c \in 0 .. n : G = 1 .. c
    BY DownClosed
  <1>2. Halved(n, 1 .. c) = c
    BY HalvedIs
  <1>3. Cardinality(1 .. c) = c /\ IsFiniteSet(1 .. c)
    <2>1. IsFiniteSet(1 .. c) /\ Cardinality(1 .. c) = IF 1 > c THEN 0 ELSE c - 1 + 1
      BY FS_Interval
    <2> QED
      BY <2>1
  <1> QED
    BY <1>1, <1>2, <1>3

-----------------------------------------------------------------------------
(* Counting the elements in a window.                                       *)

InRising(get) == \A i, j \in DOMAIN get : i < j => get[i] <= get[j]

\* In an ordered sequence the two searches count the elements below a bound and
\* at most a bound.
LEMMA BisectionCounts ==
  ASSUME NEW get \in Seq(Int), InRising(get), NEW v \in Int
  PROVE  /\ Lower(get, v) = Cardinality({i \in DOMAIN get : get[i] < v})
         /\ Upper(get, v) = Cardinality({i \in DOMAIN get : get[i] <= v})
  <1>0. Len(get) \in Nat /\ DOMAIN get = 1 .. Len(get) /\ \A i \in DOMAIN get : get[i] \in Int
    OBVIOUS
  <1> DEFINE A == {i \in DOMAIN get : get[i] < v}
             B == {i \in DOMAIN get : get[i] <= v}
  <1>1. \A j \in DOMAIN get : \A i \in 1 .. j : i \in DOMAIN get /\ get[i] <= get[j]
    BY <1>0 DEF InRising
  <1>2. A \in SUBSET (1 .. Len(get)) /\ B \in SUBSET (1 .. Len(get))
    BY <1>0
  <1>3. \A j \in A : \A i \in 1 .. j : i \in A
    BY <1>0, <1>1
  <1>4. \A j \in B : \A i \in 1 .. j : i \in B
    BY <1>0, <1>1
  <1> HIDE DEF A, B
  <1>5. Halved(Len(get), A) = Cardinality(A)
    BY <1>0, <1>2, <1>3, HalvedCounts
  <1>6. Halved(Len(get), B) = Cardinality(B)
    BY <1>0, <1>2, <1>4, HalvedCounts
  <1> QED
    BY <1>5, <1>6 DEF A, B, Lower, Upper

\* A set of positions is finite.
LEMMA WindowFinite ==
  ASSUME NEW get \in Seq(Int), NEW S \in SUBSET (DOMAIN get)
  PROVE  IsFiniteSet(S) /\ Cardinality(S) \in Nat
  <1>1. Len(get) \in Nat /\ DOMAIN get = 1 .. Len(get)
    OBVIOUS
  <1>2. IsFiniteSet(1 .. Len(get))
    BY <1>1, FS_Interval
  <1>3. IsFiniteSet(S)
    BY <1>1, <1>2, FS_Subset
  <1> QED
    BY <1>3, FS_CardinalityType

\* The two ends of a window in an ordered sequence.
LEMMA BisectionWindow ==
  ASSUME NEW get \in Seq(Int), InRising(get), NEW lo \in Int, NEW hi \in Int, lo <= hi
  PROVE  Upper(get, hi) - Lower(get, lo) = CountWithin(get, lo, hi)
  <1>0. \A i \in DOMAIN get : get[i] \in Int
    OBVIOUS
  <1> DEFINE A == {i \in DOMAIN get : get[i] < lo}
             B == {i \in DOMAIN get : get[i] <= hi}
  <1>1. A \subseteq B /\ Within(get, lo, hi) = B \ A /\ B \cap A = A
    BY <1>0 DEF Within
  <1>2. IsFiniteSet(B) /\ Cardinality(B) \in Nat /\ IsFiniteSet(A) /\ Cardinality(A) \in Nat
    BY WindowFinite
  <1>3. Upper(get, hi) = Cardinality(B) /\ Lower(get, lo) = Cardinality(A)
    BY BisectionCounts
  <1> HIDE DEF A, B
  <1>4. Cardinality(B \ A) = Cardinality(B) - Cardinality(B \cap A)
    BY <1>2, FS_Difference
  <1> QED
    BY <1>1, <1>3, <1>4 DEF CountWithin

\* The elements above a bound, which no element exceeds a limit.
LEMMA BisectionAbove ==
  ASSUME NEW get \in Seq(Int), InRising(get), NEW v \in Int, NEW top \in Int,
         \A i \in DOMAIN get : get[i] <= top
  PROVE  Len(get) - Upper(get, v) = CountWithin(get, v + 1, top)
  <1>0. Len(get) \in Nat /\ DOMAIN get = 1 .. Len(get) /\ \A i \in DOMAIN get : get[i] \in Int
    OBVIOUS
  <1> DEFINE A == {i \in DOMAIN get : get[i] <= v}
             D == DOMAIN get
  <1>1. A \subseteq D /\ Within(get, v + 1, top) = D \ A /\ D \cap A = A
    BY <1>0 DEF Within
  <1>2. IsFiniteSet(D) /\ Cardinality(D) = Len(get)
    <2>1. IsFiniteSet(1 .. Len(get)) /\ Cardinality(1 .. Len(get)) = IF 1 > Len(get) THEN 0 ELSE Len(get) - 1 + 1
      BY <1>0, FS_Interval
    <2> QED
      BY <2>1, <1>0
  <1>3. Upper(get, v) = Cardinality(A)
    BY BisectionCounts
  <1> HIDE DEF A, D
  <1>4. Cardinality(D \ A) = Cardinality(D) - Cardinality(D \cap A)
    BY <1>2, FS_Difference
  <1> QED
    BY <1>1, <1>2, <1>3, <1>4 DEF CountWithin

-----------------------------------------------------------------------------
(* The kernel: a wrapping subtraction and an unsigned comparison.           *)

InWindow(l, n, v, a, b) ==
  n \in Nat \ {0} /\ l \in Int /\ v \in Int /\ a \in Int /\ b \in Int
  /\ l <= v /\ v < l + n /\ l <= a /\ a <= b /\ b < l + n

\* One wrapping subtraction and one comparison decide a window, wherever it lies.
LEMMA WindowMod ==
  ASSUME NEW n, NEW l, NEW v, NEW a, NEW b, InWindow(l, n, v, a, b)
  PROVE  /\ (((v - a) % n) <= b - a) <=> (a <= v /\ v <= b)
         /\ a <= v => ((v - a) % n) = v - a
  <1> USE DEF InWindow
  <1>1. CASE a <= v
    <2>1. v - a \in 0 .. n - 1 /\ v - a = 0 * n + (v - a) /\ v - a \in Int
      BY <1>1
    <2>2. (v - a) % n = v - a
      BY <2>1, ModUnique
    <2> QED
      BY <1>1, <2>2
  <1>2. CASE v < a
    <2>1. v - a + n \in 0 .. n - 1 /\ v - a = (-1) * n + (v - a + n) /\ v - a \in Int /\ -1 \in Int
      BY <1>2
    <2>2. (v - a) % n = v - a + n
      BY <2>1, ModUnique
    <2> QED
      BY <1>2, <2>2
  <1> QED
    BY <1>1, <1>2

\* The kernel of p on a window [a, b] of what get reads, the values being those
\* from l on and as many as the class has.
Kernel(p, get, l, a, b, u, span) ==
  /\ DOMAIN get = DOMAIN p.data
  /\ \A i \in DOMAIN get : InWindow(l, Pow(Abs(p.size)), get[i], a, b)
  /\ \A i \in DOMAIN get : Offset(p, u, i) = (get[i] - a) % Pow(Abs(p.size))
  /\ Raw(Abs(p.size), span) = b - a

\* The lanes the kernel counts are those of the window.
LEMMA KernelHits ==
  ASSUME NEW p, NEW get, NEW l, NEW a, NEW b, NEW u, NEW span, Kernel(p, get, l, a, b, u, span)
  PROVE  /\ Hits(p, u, span) = Within(get, a, b)
         /\ \A i \in Within(get, a, b) : Offset(p, u, i) = get[i] - a
  <1> DEFINE n == Pow(Abs(p.size))
  <1>1. ASSUME NEW i \in DOMAIN get
        PROVE  /\ (Offset(p, u, i) <= Raw(Abs(p.size), span)) <=> (a <= get[i] /\ get[i] <= b)
               /\ a <= get[i] => Offset(p, u, i) = get[i] - a
    <2> DEFINE v == get[i]
    <2>1. InWindow(l, n, v, a, b)
      BY DEF Kernel
    <2>3. Offset(p, u, i) = (v - a) % n /\ Raw(Abs(p.size), span) = b - a
      BY DEF Kernel
    <2> HIDE DEF v, n
    <2>2. /\ (((v - a) % n) <= b - a) <=> (a <= v /\ v <= b)
          /\ a <= v => ((v - a) % n) = v - a
      BY <2>1, WindowMod
    <2> QED
      BY <2>2, <2>3 DEF v
  <1> QED
    BY <1>1 DEF Hits, Within, Kernel

\* The elements as a function of their positions.
LEMMA UnsignedReads ==
  ASSUME NEW p, InUse(p)
  PROVE  LET get == Unsigned(p) IN
         /\ get \in Seq(Int) /\ Len(get) = Count(p) /\ DOMAIN get = DOMAIN p.data
         /\ DOMAIN get = 1 .. Count(p) /\ Count(p) \in Nat
         /\ \A i \in DOMAIN get : get[i] = p.data[i] /\ get[i] \in Nat /\ get[i] < Pow(Abs(p.size))
  <1>1. p.data \in Seq(Word) /\ Count(p) \in Nat /\ DOMAIN p.data = 1 .. Count(p)
    BY Fields DEF InUse
  <1>2. \A i \in DOMAIN p.data : p.data[i] \in Nat /\ p.data[i] < Pow(Abs(p.size)) /\ p.data[i] \in Int
    BY Reading
  <1>3. Unsigned(p) = [i \in 1 .. Count(p) |-> p.data[i]]
    BY <1>1 DEF Unsigned, Get
  <1>4. Unsigned(p) \in [1 .. Count(p) -> Int]
    BY <1>1, <1>2, <1>3
  <1>5. Unsigned(p) \in Seq(Int) /\ Len(Unsigned(p)) = Count(p)
    BY <1>1, <1>4
  <1> QED
    BY <1>1, <1>2, <1>3, <1>5

\* The elements of a signed pool, read as signed.
LEMMA SignedReads ==
  ASSUME NEW p, InUse(p), p.size < 0
  PROVE  LET get == Signed(p)
             c == Abs(p.size) IN
         /\ get \in Seq(Int) /\ Len(get) = Count(p) /\ DOMAIN get = DOMAIN p.data
         /\ DOMAIN get = 1 .. Count(p) /\ Count(p) \in Nat
         /\ c \in Classes /\ c = -p.size
         /\ \A i \in DOMAIN get :
              /\ get[i] = Value(p, i) /\ get[i] = AsSigned(c, p.data[i]) /\ get[i] \in Int
              /\ -Half[c] <= get[i] /\ get[i] < Half[c]
              /\ p.data[i] \in Nat /\ p.data[i] < Pow(c)
  <1> DEFINE c == Abs(p.size)
  <1>1. p.data \in Seq(Word) /\ Count(p) \in Nat /\ DOMAIN p.data = 1 .. Count(p) /\ p.size \in -K .. K
    BY Fields DEF InUse
  <1>2. c \in Classes /\ c = -p.size
    <2>1. p.size \in Sizes
      BY <1>1 DEF Sizes
    <2> QED
      BY <2>1, <1>1, SizeFacts, Conversions DEF Abs
  <1>3. ASSUME NEW i \in DOMAIN p.data
        PROVE  /\ p.data[i] \in Nat /\ p.data[i] < Pow(c)
               /\ Value(p, i) = AsSigned(c, p.data[i])
               /\ -Half[c] <= Value(p, i) /\ Value(p, i) < Half[c]
               /\ Value(p, i) = GetSigned(p, i) /\ Value(p, i) \in Int
    <2>1. Value(p, i) = GetSigned(p, i)
      BY DEF Value, IsSigned
    <2> QED
      BY <2>1, Reading, ValueRange
  <1>4. Signed(p) = [i \in 1 .. Count(p) |-> Value(p, i)]
    BY <1>1, <1>3 DEF Signed
  <1>5. Signed(p) \in [1 .. Count(p) -> Int]
    BY <1>1, <1>3, <1>4
  <1>6. Signed(p) \in Seq(Int) /\ Len(Signed(p)) = Count(p)
    BY <1>1, <1>5
  <1> QED
    BY <1>1, <1>2, <1>3, <1>4, <1>6

\* The kernel on the stored words, for a window clipped to the class.
LEMMA UnsignedKernel ==
  ASSUME NEW p, InUse(p), NEW lo \in Nat, NEW hi \in Nat, lo <= hi, hi < Pow(Abs(p.size))
  PROVE  LET get == Unsigned(p) IN
         /\ Hits(p, lo, hi - lo) = Within(get, lo, hi)
         /\ \A i \in Within(get, lo, hi) : Offset(p, lo, i) = get[i] - lo
  <1> DEFINE c == Abs(p.size)
             n == Pow(c)
             get == Unsigned(p)
             span == hi - lo
  <1>0. p.size \in Sizes
    BY Fields DEF InUse, Sound, Sizes
  <1>1. c \in Classes /\ n \in Nat \ {0}
    BY <1>0, SizeFacts, PowFacts
  <1>2. DOMAIN get = DOMAIN p.data
        /\ \A i \in DOMAIN get : get[i] = p.data[i] /\ get[i] \in Nat /\ get[i] < n
    BY UnsignedReads
  <1>3. \A i \in DOMAIN get : Offset(p, lo, i) = (get[i] - lo) % n
    BY <1>2 DEF Offset
  <1>4. span \in Nat /\ span < n
    BY <1>1
  <1>5. Raw(c, span) = span
    BY <1>1, <1>4, RawSmall
  <1> HIDE DEF n, get
  <1> DEFINE l == 0
  <1>6. \A i \in DOMAIN get : InWindow(l, n, get[i], lo, hi)
    BY <1>1, <1>2 DEF InWindow, n
  <1> HIDE DEF l
  <1>7. Kernel(p, get, l, lo, hi, lo, span)
    BY <1>2, <1>3, <1>5, <1>6 DEF Kernel, n
  <1> HIDE DEF span
  <1>10. /\ Hits(p, lo, span) = Within(get, lo, hi)
         /\ \A i \in Within(get, lo, hi) : Offset(p, lo, i) = get[i] - lo
    BY <1>7, KernelHits
  <1> QED
    BY <1>10 DEF get, span

\* The kernel on two's complement words, for a window across zero too.
LEMMA SignedKernel ==
  ASSUME NEW p, InUse(p), p.size < 0, NEW a \in Int, NEW b \in Int, a <= b,
         -Half[Abs(p.size)] <= a, b < Half[Abs(p.size)]
  PROVE  LET get == Signed(p)
             span == Raw(K, U64(b) - U64(a))
         IN  /\ Hits(p, U64(a), span) = Within(get, a, b)
             /\ \A i \in Within(get, a, b) : Offset(p, U64(a), i) = get[i] - a
  <1> DEFINE c == Abs(p.size)
             n == Pow(c)
             get == Signed(p)
             span == Raw(K, U64(b) - U64(a))
             l == -Half[c]
             x == U64(a)
             y == U64(b)
             big == Pow(K)
  <1>1. c \in Classes /\ n \in Nat \ {0} /\ Half[c] \in Nat /\ n = Half[c] + Half[c]
    <2>1. c \in Classes
      BY SignedReads
    <2> QED
      BY <2>1, PowFacts DEF Pow
  <1>2. DOMAIN get = DOMAIN p.data
        /\ \A i \in DOMAIN get :
              /\ get[i] = AsSigned(c, p.data[i]) /\ get[i] \in Int
              /\ -Half[c] <= get[i] /\ get[i] < Half[c]
              /\ p.data[i] \in Nat /\ p.data[i] < Pow(c)
    BY SignedReads
  <1>3. PICK m \in Nat \ {0} : big = m * n
    <2>1. K \in Classes /\ c <= K
      BY <1>1, Conversions DEF Classes
    <2> QED
      BY <1>1, <2>1, PowDivides
  <1>4. big \in Nat \ {0}
    BY Conversions, PowFacts
  <1> DEFINE j == a \div big
             k == b \div big
  <1>5. j \in Int /\ a = j * big + x /\ x \in Int /\ k \in Int /\ b = k * big + y /\ y \in Int
    <2>1. j \in Int /\ a = j * big + (a % big) /\ (a % big) \in 0 .. big - 1
      BY <1>4, DivMod
    <2>2. k \in Int /\ b = k * big + (b % big) /\ (b % big) \in 0 .. big - 1
      BY <1>4, DivMod
    <2>3. x = a % big /\ y = b % big
      BY DEF U64, Raw
    <2> QED
      BY <1>4, <2>1, <2>2, <2>3
  <1> HIDE DEF big, j, k, x, y, n
  <1>6. x = a - (j * m) * n /\ y = b - (k * m) * n /\ j * m \in Int /\ k * m \in Int
    BY <1>1, <1>3, <1>5
  <1>7. ASSUME NEW i \in DOMAIN get
        PROVE  Offset(p, x, i) = (get[i] - a) % n
    <2> DEFINE d == p.data[i]
               v == get[i]
               q == IF d < Half[c] THEN 0 ELSE 1
    <2>1. d \in Nat /\ v \in Int /\ v = AsSigned(c, d)
      BY <1>2
    <2> HIDE DEF d, v
    <2>2. d = v + q * n /\ q \in Int
      BY <1>1, <2>1 DEF AsSigned, n
    <2> HIDE DEF q
    <2>3. d - x = (v - a) + (q + j * m) * n /\ q + j * m \in Int /\ v - a \in Int
      BY <1>1, <1>6, <2>1, <2>2
    <2>4. (d - x) % n = (v - a) % n
      BY <1>1, <2>3, ModPlus
    <2>5. Offset(p, x, i) = (d - x) % n
      BY DEF Offset, d, n
    <2> QED
      BY <2>4, <2>5 DEF v
  <1>8. Raw(c, span) = b - a
    <2>1. y - x = (b - a) + (j * m - k * m) * n /\ j * m - k * m \in Int /\ b - a \in Int /\ y - x \in Int
      BY <1>1, <1>6
    <2>2. (y - x) % n = (b - a) % n
      BY <1>1, <2>1, ModPlus
    <2>3. b - a \in Nat /\ b - a < n
      BY <1>1
    <2>4. Raw(c, b - a) = b - a
      BY <1>1, <2>3, RawSmall DEF n
    <2>5. Raw(c, Raw(K, y - x)) = Raw(c, y - x)
      BY <1>1, <2>1, RawRaw, Conversions DEF Classes
    <2>6. Raw(c, y - x) = (y - x) % n /\ Raw(c, b - a) = (b - a) % n
      BY DEF Raw, n
    <2>7. span = Raw(K, y - x)
      BY DEF x, y
    <2> QED
      BY <2>2, <2>4, <2>5, <2>6, <2>7
  <1>9. \A i \in DOMAIN get : InWindow(l, n, get[i], a, b)
    BY <1>1, <1>2 DEF InWindow
  <1> HIDE DEF l, get, span
  <1>11. Kernel(p, get, l, a, b, x, span)
    BY <1>2, <1>7, <1>8, <1>9 DEF Kernel, n
  <1>10. /\ Hits(p, x, span) = Within(get, a, b)
         /\ \A i \in Within(get, a, b) : Offset(p, x, i) = get[i] - a
    BY <1>11, KernelHits
  <1> QED
    BY <1>10 DEF get, x, span

-----------------------------------------------------------------------------
(* Sums over a set of positions.                                            *)

\* t[i] is the sum over the positions up to i.
Adding(t, f, is, n) ==
  t = [i \in 0 .. n |-> IF i = 0 THEN 0 ELSE t[i - 1] + (IF i \in is THEN f[i] ELSE 0)]

\* There are such partial sums.
LEMMA AddingExists ==
  ASSUME NEW f \in Seq(Int), NEW is
  PROVE  \E t : Adding(t, f, is, Len(f))
  <1> DEFINE n == Len(f)
             st == [i \in 1 .. n |-> [x \in Int |-> x + (IF i \in is THEN f[i] ELSE 0)]]
  <1>1. n \in Nat /\ \A i \in 1 .. n : f[i] \in Int
    OBVIOUS
  <1> HIDE DEF n
  <1>2. st \in [1 .. n -> [Int -> Int]] /\ 0 \in Int
    BY <1>1
  <1> HIDE DEF st
  <1>3. PICK t : Stepping(t, n, Int, 0, st)
    BY <1>1, <1>2, StepsExist
  <1>4. \A i \in 1 .. n : t[i] = t[i - 1] + (IF i \in is THEN f[i] ELSE 0)
    <2> SUFFICES ASSUME NEW i \in 1 .. n
                 PROVE  t[i] = t[i - 1] + (IF i \in is THEN f[i] ELSE 0)
      OBVIOUS
    <2>1. t[i] = st[i][t[i - 1]] /\ t[i - 1] \in Int
      BY <1>1, <1>3 DEF Stepping
    <2> QED
      BY <2>1 DEF st
  <1>5. t = [i \in 0 .. n |-> IF i = 0 THEN 0 ELSE t[i - 1] + (IF i \in is THEN f[i] ELSE 0)]
    <2>1. t \in [0 .. n -> Int] /\ t[0] = 0
      BY <1>3 DEF Stepping
    <2>2. \A i \in 0 .. n : t[i] = IF i = 0 THEN 0 ELSE t[i - 1] + (IF i \in is THEN f[i] ELSE 0)
      BY <1>1, <1>4, <2>1
    <2> QED
      BY <2>1, <2>2
  <1>6. Adding(t, f, is, n)
    BY <1>5 DEF Adding
  <1> QED
    BY <1>6 DEF n

\* SumAt is the last of them.
LEMMA SumAtIs ==
  ASSUME NEW f \in Seq(Int), NEW is
  PROVE  \E t : /\ SumAt(f, is) = t[Len(f)] /\ t[0] = 0
                /\ \A i \in 0 .. Len(f) : t[i] \in Int
                /\ \A i \in 1 .. Len(f) : t[i] = t[i - 1] + (IF i \in is THEN f[i] ELSE 0)
  <1> DEFINE n == Len(f)
             t == CHOOSE g : Adding(g, f, is, n)
  <1>1. Adding(t, f, is, n)
    BY AddingExists
  <1>2. SumAt(f, is) = t[n]
    BY DEF SumAt, Adding
  <1>3. n \in Nat /\ \A i \in 1 .. n : f[i] \in Int
    OBVIOUS
  <1> HIDE DEF t, n
  <1>4. t[0] = 0 /\ \A i \in 1 .. n : t[i] = t[i - 1] + (IF i \in is THEN f[i] ELSE 0)
    BY <1>1, <1>3 DEF Adding
  <1>5. \A i \in 0 .. n : t[i] \in Int
    <2> DEFINE S == {i \in 0 .. n : t[i] \in Int}
    <2>1. 0 \in S
      BY <1>3, <1>4
    <2>2. \A i \in 1 .. n : i - 1 \in S => i \in S
      BY <1>3, <1>4
    <2>3. S \in SUBSET (0 .. n)
      OBVIOUS
    <2>4. S = 0 .. n
      <3> HIDE DEF S
      <3> QED
        BY <1>3, <2>1, <2>2, <2>3, UpTo
    <2> QED
      BY <2>4
  <1> QED
    BY <1>2, <1>4, <1>5 DEF n

\* A product with one more.
LEMMA Distribute ==
  ASSUME NEW a \in Int, NEW k \in Int
  PROVE  a * (k + 1) = a * k + a /\ a * k \in Int
  OBVIOUS

\* A sum of values that are all larger by a than others.
LEMMA SumShifted ==
  ASSUME NEW f \in Seq(Int), NEW g \in Seq(Int), Len(f) = Len(g), NEW a \in Int,
         NEW is \in SUBSET (1 .. Len(g)), \A i \in is : g[i] = f[i] + a
  PROVE  SumAt(g, is) = SumAt(f, is) + a * Cardinality(is)
         /\ SumAt(g, is) \in Int /\ SumAt(f, is) \in Int /\ Cardinality(is) \in Nat
  <1> DEFINE n == Len(g)
             upto(m) == {i \in is : i <= m}
             cnt(m) == Cardinality(upto(m))
  <1>1. n \in Nat /\ \A i \in 1 .. n : f[i] \in Int /\ g[i] \in Int
    OBVIOUS
  <1>0. \A i \in is : i \in Nat /\ 1 <= i /\ i <= n
    OBVIOUS
  <1>2. PICK t : /\ SumAt(f, is) = t[n] /\ t[0] = 0
                 /\ \A i \in 0 .. n : t[i] \in Int
                 /\ \A i \in 1 .. n : t[i] = t[i - 1] + (IF i \in is THEN f[i] ELSE 0)
    BY SumAtIs
  <1>3. PICK w : /\ SumAt(g, is) = w[n] /\ w[0] = 0
                 /\ \A i \in 0 .. n : w[i] \in Int
                 /\ \A i \in 1 .. n : w[i] = w[i - 1] + (IF i \in is THEN g[i] ELSE 0)
    BY SumAtIs
  <1>4. \A m \in 0 .. n : IsFiniteSet(upto(m)) /\ cnt(m) \in Nat
    <2> SUFFICES ASSUME NEW m \in 0 .. n PROVE IsFiniteSet(upto(m)) /\ cnt(m) \in Nat
      OBVIOUS
    <2>1. IsFiniteSet(1 .. n)
      BY <1>1, FS_Interval
    <2>2. upto(m) \in SUBSET (1 .. n)
      OBVIOUS
    <2>3. IsFiniteSet(upto(m))
      BY <2>1, <2>2, FS_Subset
    <2> QED
      BY <2>3, FS_CardinalityType
  <1>5. cnt(0) = 0
    <2>0. ASSUME NEW i \in upto(0) PROVE FALSE
      <3>1. i \in is /\ i <= 0
        OBVIOUS
      <3> QED
        BY <3>1, <1>0
    <2>1. upto(0) = {}
      BY <2>0
    <2> QED
      BY <2>1, FS_EmptySet
  <1>6. ASSUME NEW m \in 1 .. n
        PROVE  cnt(m) = IF m \in is THEN cnt(m - 1) + 1 ELSE cnt(m - 1)
    <2>1. CASE m \in is
      <3>a. ASSUME NEW i \in is PROVE (i <= m) <=> (i <= m - 1 \/ i = m)
        BY <1>0
      <3>b. upto(m) = upto(m - 1) \cup {m}
        BY <3>a, <2>1
      <3>c. ~(m <= m - 1)
        OBVIOUS
      <3>1. upto(m) = upto(m - 1) \cup {m} /\ m \notin upto(m - 1)
        BY <3>b, <3>c
      <3>2. m - 1 \in 0 .. n
        BY <1>1
      <3>3. IsFiniteSet(upto(m - 1))
        BY <1>4, <3>2
      <3> HIDE DEF upto
      <3>4. Cardinality(upto(m - 1) \cup {m}) = Cardinality(upto(m - 1)) + 1
        BY <3>1, <3>3, FS_AddElement
      <3> QED
        BY <2>1, <3>1, <3>4
    <2>2. CASE m \notin is
      <3>a. ASSUME NEW i \in is PROVE (i <= m) <=> (i <= m - 1)
        BY <1>0, <2>2
      <3>1. upto(m) = upto(m - 1)
        BY <3>a
      <3> QED
        BY <2>2, <3>1
    <2> QED
      BY <2>1, <2>2
  <1>13. upto(n) = is
    BY <1>0
  <1> HIDE DEF upto
  <1>12. cnt(n) = Cardinality(is) /\ n \in 0 .. n
    BY <1>1, <1>13
  <1> HIDE DEF cnt
  <1> DEFINE S == {m \in 0 .. n : w[m] = t[m] + a * cnt(m)}
  <1>7. 0 \in S
    <2>1. a * cnt(0) = 0
      BY <1>5
    <2> QED
      BY <1>1, <1>2, <1>3, <2>1
  <1>8. ASSUME NEW m \in 1 .. n, m - 1 \in S
        PROVE  m \in S
    <2>0. m - 1 \in 0 .. n /\ m \in 0 .. n
      BY <1>1
    <2> DEFINE k == cnt(m - 1)
               ak == a * k
    <2>a. k \in Int /\ t[m - 1] \in Int
      BY <1>2, <1>4, <2>0
    <2>b. w[m - 1] = t[m - 1] + ak
      BY <1>8
    <2>1. k \in Int /\ t[m - 1] \in Int /\ w[m - 1] = t[m - 1] + ak
      BY <2>a, <2>b
    <2>2. a * (k + 1) = ak + a /\ ak \in Int
      BY <2>1, Distribute
    <2>3. t[m] = t[m - 1] + (IF m \in is THEN f[m] ELSE 0)
      BY <1>2
    <2>4. w[m] = w[m - 1] + (IF m \in is THEN g[m] ELSE 0)
      BY <1>3
    <2>5. cnt(m) = IF m \in is THEN k + 1 ELSE k
      BY <1>6
    <2>6. f[m] \in Int
      BY <1>1
    <2> HIDE DEF k, ak
    <2>7. CASE m \in is
      <3>1. a * cnt(m) = ak + a
        BY <2>2, <2>5, <2>7
      <3>2. g[m] = f[m] + a
        BY <2>7
      <3>3. w[m] = t[m] + (ak + a)
        BY <2>1, <2>2, <2>3, <2>4, <2>6, <2>7, <3>2
      <3> QED
        BY <2>0, <3>1, <3>3
    <2>8. CASE m \notin is
      <3>1. a * cnt(m) = ak
        BY <2>5, <2>8 DEF ak
      <3>2. w[m] = t[m] + ak
        BY <2>1, <2>2, <2>3, <2>4, <2>8
      <3> QED
        BY <2>0, <3>1, <3>2
    <2> QED
      BY <2>7, <2>8
  <1>9. S \in SUBSET (0 .. n)
    OBVIOUS
  <1>10. n \in S
    <2> HIDE DEF S
    <2> QED
      BY <1>1, <1>7, <1>8, <1>9, UpTo
  <1> QED
    BY <1>2, <1>3, <1>4, <1>10, <1>12

\* A sum over no positions.
LEMMA SumNone ==
  ASSUME NEW f \in Seq(Int), NEW is, \A i : i \notin is
  PROVE  SumAt(f, is) = 0
  <1>1. PICK t : /\ SumAt(f, is) = t[Len(f)] /\ t[0] = 0
                 /\ \A i \in 0 .. Len(f) : t[i] \in Int
                 /\ \A i \in 1 .. Len(f) : t[i] = t[i - 1] + (IF i \in is THEN f[i] ELSE 0)
    BY SumAtIs
  <1> DEFINE n == Len(f)
             S == {m \in 0 .. n : t[m] = 0}
  <1>2. n \in Nat
    OBVIOUS
  <1>3. 0 \in S /\ S \in SUBSET (0 .. n)
    BY <1>1, <1>2
  <1>4. ASSUME NEW m \in 1 .. n, m - 1 \in S
        PROVE  m \in S
    <2>1. t[m] = t[m - 1] + (IF m \in is THEN f[m] ELSE 0) /\ m - 1 \in 0 .. n /\ m \in 0 .. n
      BY <1>1, <1>2
    <2>2. t[m - 1] = 0
      BY <1>4
    <2> QED
      BY <2>1, <2>2
  <1>5. S = 0 .. n
    <2> HIDE DEF S, n
    <2> QED
      BY <1>2, <1>3, <1>4, UpTo
  <1>6. t[n] = 0
    BY <1>2, <1>5
  <1> QED
    BY <1>1, <1>6

\* A window with no element.
LEMMA WithinNone ==
  ASSUME NEW get, NEW lo, NEW hi, \A i \in DOMAIN get : ~(lo <= get[i] /\ get[i] <= hi)
  PROVE  Within(get, lo, hi) = {} /\ CountWithin(get, lo, hi) = 0
  <1>1. Within(get, lo, hi) = {}
    BY DEF Within
  <1> QED
    BY <1>1, FS_EmptySet DEF CountWithin

\* A window with every element.
LEMMA WithinAll ==
  ASSUME NEW get, NEW n \in Nat, DOMAIN get = 1 .. n, NEW lo, NEW hi,
         \A i \in DOMAIN get : lo <= get[i] /\ get[i] <= hi
  PROVE  CountWithin(get, lo, hi) = n
  <1>1. Within(get, lo, hi) = 1 .. n
    BY DEF Within
  <1>2. Cardinality(1 .. n) = IF 1 > n THEN 0 ELSE n - 1 + 1
    BY FS_Interval
  <1>3. Cardinality(1 .. n) = n
    BY <1>2
  <1> QED
    BY <1>1, <1>3 DEF CountWithin

\* Two windows with the same elements.
LEMMA WithinSame ==
  ASSUME NEW get, NEW lo, NEW hi, NEW a, NEW b,
         \A i \in DOMAIN get : (lo <= get[i] /\ get[i] <= hi) <=> (a <= get[i] /\ get[i] <= b)
  PROVE  Within(get, lo, hi) = Within(get, a, b) /\ CountWithin(get, lo, hi) = CountWithin(get, a, b)
  BY DEF Within, CountWithin

-----------------------------------------------------------------------------
(* The unsigned queries.                                                    *)

\* The fields of an honest pool.
LEMMA HonestFields ==
  ASSUME NEW p, Honest(p)
  PROVE  /\ InUse(p) /\ p.size \in Sizes /\ p.smin \in Word /\ p.smax \in Word
         /\ p.smin \in Int /\ p.smax \in Int
  <1>1. InUse(p) /\ p \in PoolType /\ p.size # 0
    BY DEF Honest, InUse, Sound
  <1>2. p.size \in -K .. K /\ p.smin \in Word /\ p.smax \in Word
    BY <1>1, Fields
  <1>3. \A w \in Word : w \in Int
    BY Conversions
  <1> QED
    BY <1>1, <1>2, <1>3 DEF Sizes

\* What a pool that was told of an order or of extremes makes of them.
LEMMA UnsignedFacts ==
  ASSUME NEW p, Honest(p), ~IsSigned(p)
  PROVE  /\ BSearchWorth(p) => InRising(Unsigned(p))
         /\ Summarized(p) /\ Count(p) # 0 =>
              \A i \in DOMAIN Unsigned(p) : p.smin <= Unsigned(p)[i] /\ Unsigned(p)[i] <= p.smax
  <1> DEFINE get == Unsigned(p)
  <1>1. InUse(p) /\ Count(p) \in Nat
    BY Fields DEF Honest, InUse
  <1>2. DOMAIN get = DOMAIN p.data
        /\ \A i \in DOMAIN get : get[i] = p.data[i] /\ get[i] \in Nat /\ get[i] < Pow(Abs(p.size))
    BY <1>1, UnsignedReads
  <1>3. \A i \in DOMAIN get : Value(p, i) = get[i]
    BY <1>2 DEF Value, Get
  <1>4. BSearchWorth(p) => InRising(get)
    BY <1>2, <1>3 DEF BSearchWorth, Honest, OrderKnown, InOrder, InRising
  <1>5. ASSUME Summarized(p), Count(p) # 0, NEW i \in DOMAIN get
        PROVE  p.smin <= get[i] /\ get[i] <= p.smax
    <2>1. IsMinimum(p, p.smin) /\ IsMaximum(p, p.smax)
      BY <1>1, <1>5 DEF Summarized, Honest, Summarised
    <2>2. PICK j \in DOMAIN p.data : p.smin = U64(Value(p, j)) /\ \A k \in DOMAIN p.data : Value(p, j) <= Value(p, k)
      BY <2>1 DEF IsMinimum
    <2>3. PICK h \in DOMAIN p.data : p.smax = U64(Value(p, h)) /\ \A k \in DOMAIN p.data : Value(p, k) <= Value(p, h)
      BY <2>1 DEF IsMaximum
    <2>4. U64(Value(p, j)) = Value(p, j) /\ U64(Value(p, h)) = Value(p, h)
      <3>1. \A k \in DOMAIN p.data : Meaning(p, U64(Value(p, k))) = Value(p, k)
        BY <1>1, ElementMeaning
      <3> QED
        BY <3>1 DEF Meaning
    <2> QED
      BY <1>2, <1>3, <2>2, <2>3, <2>4
  <1> QED
    BY <1>4, <1>5

\* s2r_count_range_fast: from the summary, by bisection, from the class, by kernel.
LEMMA CountRangeExact ==
  ASSUME NEW p, Honest(p), NEW lo \in Nat, NEW hi \in Nat
  PROVE  CountRangeFast(p, lo, hi) = CountWithin(Unsigned(p), lo, hi)
  <1> DEFINE get == Unsigned(p)
             top == MaxValue(p.size)
             known == ~IsSigned(p) /\ Summarized(p)
             h == IF hi > top THEN top ELSE hi
             want == CountWithin(get, lo, hi)
  <1>1. InUse(p) /\ p.size \in Sizes /\ p.smin \in Int /\ p.smax \in Int
    BY HonestFields
  <1>2. /\ get \in Seq(Int) /\ Len(get) = Count(p) /\ DOMAIN get = 1 .. Count(p) /\ Count(p) \in Nat
        /\ \A i \in DOMAIN get : get[i] \in Nat /\ get[i] < Pow(Abs(p.size))
    BY <1>1, UnsignedReads
  <1>3. top \in Nat /\ Pow(Abs(p.size)) = top + 1
    <2>1. top \in Word /\ top = Pow(Abs(p.size)) - 1
      BY <1>1, MaxValueRange
    <2>2. Pow(Abs(p.size)) \in Nat
      BY <1>1, SizeFacts, PowFacts
    <2> QED
      BY <2>1, <2>2, Conversions
  <1>4. \A i \in DOMAIN get : get[i] <= top
    BY <1>2, <1>3
  <1> HIDE DEF get, top
  <1>5. CASE Count(p) = 0 \/ lo > hi
    <2>1. want = 0
      BY <1>2, <1>5, WithinNone
    <2>2. CountRangeFast(p, lo, hi) = 0
      BY <1>5 DEF CountRangeFast
    <2> QED
      BY <2>1, <2>2 DEF get
  <1>6. ASSUME Count(p) # 0, known
        PROVE  \A i \in DOMAIN get : p.smin <= get[i] /\ get[i] <= p.smax
    BY <1>6, UnsignedFacts DEF get
  <1>7. CASE Count(p) # 0 /\ lo <= hi /\ known /\ (hi < p.smin \/ lo > p.smax)
    <2>1. want = 0
      BY <1>1, <1>2, <1>6, <1>7, WithinNone
    <2>2. CountRangeFast(p, lo, hi) = 0
      BY <1>7 DEF CountRangeFast
    <2> QED
      BY <2>1, <2>2 DEF get
  <1>8. CASE Count(p) # 0 /\ lo <= hi /\ known /\ ~(hi < p.smin \/ lo > p.smax)
             /\ lo <= p.smin /\ hi >= p.smax
    <2>1. \A i \in DOMAIN get : lo <= get[i] /\ get[i] <= hi
      BY <1>1, <1>2, <1>6, <1>8
    <2>2. want = Count(p)
      BY <1>2, <2>1, WithinAll
    <2>3. CountRangeFast(p, lo, hi) = Count(p)
      BY <1>8 DEF CountRangeFast
    <2> QED
      BY <2>2, <2>3 DEF get
  <1> DEFINE rest == /\ Count(p) # 0 /\ lo <= hi
                     /\ ~(known /\ (hi < p.smin \/ lo > p.smax))
                     /\ ~(known /\ lo <= p.smin /\ hi >= p.smax)
             searched == ~IsSigned(p) /\ BSearchWorth(p)
  <1>9. CASE rest /\ searched
    <2>1. InRising(get)
      BY <1>9, UnsignedFacts DEF get
    <2>2. want = Upper(get, hi) - Lower(get, lo)
      BY <1>2, <1>9, <2>1, BisectionWindow
    <2>3. CountRangeFast(p, lo, hi) = Upper(get, hi) - Lower(get, lo)
      BY <1>9 DEF CountRangeFast, get
    <2> QED
      BY <2>2, <2>3 DEF get
  <1>10. CASE rest /\ ~searched /\ lo > top
    <2>1. want = 0
      BY <1>2, <1>3, <1>4, <1>10, WithinNone
    <2>2. CountRangeFast(p, lo, hi) = 0
      BY <1>10 DEF CountRangeFast, top
    <2> QED
      BY <2>1, <2>2 DEF get
  <1>11. CASE rest /\ ~searched /\ lo <= top
    <2>0. ~(lo > top) /\ ~(lo > hi)
      BY <1>3, <1>11
    <2>1. CountRangeFast(p, lo, hi) = CntRng(p, lo, h - lo)
      BY <1>11, <2>0 DEF CountRangeFast, top
    <2>2. h \in Nat /\ lo <= h /\ h < Pow(Abs(p.size))
      BY <1>3, <1>11
    <2>3. \A i \in DOMAIN get : (lo <= get[i] /\ get[i] <= hi) <=> (lo <= get[i] /\ get[i] <= h)
      BY <1>2, <1>3, <1>4
    <2> HIDE DEF h
    <2>4. Hits(p, lo, h - lo) = Within(get, lo, h)
      BY <1>1, <2>2, UnsignedKernel DEF get
    <2>5. Within(get, lo, hi) = Within(get, lo, h)
      BY <2>3, WithinSame
    <2> QED
      BY <2>1, <2>4, <2>5 DEF CntRng, CountWithin, get
  <1>12. (lo > hi \/ lo <= hi) /\ (lo > top \/ lo <= top)
    BY <1>3
  <1> QED
    BY <1>5, <1>7, <1>8, <1>9, <1>10, <1>11, <1>12

\* s2r_count_gt_fast.
LEMMA CountGtExact ==
  ASSUME NEW p, Honest(p), NEW thr \in Word
  PROVE  CountGtFast(p, thr) = CountWithin(Unsigned(p), thr + 1, Pow(K))
  <1> DEFINE get == Unsigned(p)
             top == MaxValue(p.size)
             known == ~IsSigned(p) /\ Summarized(p)
             big == Pow(K)
             want == CountWithin(get, thr + 1, big)
  <1>0. thr \in Nat /\ big \in Nat
    BY Conversions, PowFacts
  <1>1. InUse(p) /\ p.size \in Sizes /\ p.smin \in Int /\ p.smax \in Int
    BY HonestFields
  <1>2. /\ get \in Seq(Int) /\ Len(get) = Count(p) /\ DOMAIN get = 1 .. Count(p) /\ Count(p) \in Nat
        /\ \A i \in DOMAIN get : get[i] \in Nat /\ get[i] < Pow(Abs(p.size))
    BY <1>1, UnsignedReads
  <1>3. top \in Nat /\ Pow(Abs(p.size)) = top + 1 /\ top < big
    <2>1. top \in Word /\ top = Pow(Abs(p.size)) - 1
      BY <1>1, MaxValueRange
    <2>2. Pow(Abs(p.size)) \in Nat /\ Pow(Abs(p.size)) <= big
      BY <1>1, SizeFacts, PowFacts
    <2> QED
      BY <1>0, <2>1, <2>2, Conversions
  <1>4. \A i \in DOMAIN get : get[i] <= top /\ get[i] <= big
    BY <1>0, <1>2, <1>3
  <1> HIDE DEF get, top, big
  <1>5. ASSUME Count(p) # 0, known
        PROVE  \A i \in DOMAIN get : p.smin <= get[i] /\ get[i] <= p.smax
    BY <1>5, UnsignedFacts DEF get
  <1>6. CASE Count(p) = 0 \/ (known /\ thr >= p.smax)
    <2>1. \A i \in DOMAIN get : ~(thr + 1 <= get[i] /\ get[i] <= big)
      BY <1>0, <1>1, <1>2, <1>5, <1>6
    <2>2. want = 0
      BY <2>1, WithinNone
    <2>3. CountGtFast(p, thr) = 0
      BY <1>6 DEF CountGtFast
    <2> QED
      BY <2>2, <2>3 DEF get, big
  <1> DEFINE out == Count(p) = 0 \/ (known /\ thr >= p.smax)
             searched == ~IsSigned(p) /\ BSearchWorth(p)
  <1>7. CASE ~out /\ known /\ thr < p.smin
    <2>1. \A i \in DOMAIN get : thr + 1 <= get[i] /\ get[i] <= big
      BY <1>0, <1>1, <1>2, <1>4, <1>5, <1>7
    <2>2. want = Count(p)
      BY <1>2, <2>1, WithinAll
    <2>3. CountGtFast(p, thr) = Count(p)
      BY <1>7 DEF CountGtFast
    <2> QED
      BY <2>2, <2>3 DEF get, big
  <1>8. CASE ~out /\ ~(known /\ thr < p.smin) /\ searched
    <2>1. InRising(get)
      BY <1>8, UnsignedFacts DEF get
    <2>a. get \in Seq(Int) /\ thr \in Int /\ big \in Int /\ \A i \in DOMAIN get : get[i] <= big
      BY <1>0, <1>2, <1>4
    <2>2. want = Len(get) - Upper(get, thr)
      BY <2>a, <2>1, BisectionAbove
    <2>3. CountGtFast(p, thr) = Count(p) - Upper(get, thr)
      BY <1>8 DEF CountGtFast, get
    <2> QED
      BY <1>2, <2>2, <2>3 DEF get, big
  <1>9. CASE ~out /\ ~(known /\ thr < p.smin) /\ ~searched /\ thr >= top
    <2>1. \A i \in DOMAIN get : ~(thr + 1 <= get[i] /\ get[i] <= big)
      BY <1>0, <1>2, <1>3, <1>4, <1>9
    <2>2. want = 0
      BY <2>1, WithinNone
    <2>3. CountGtFast(p, thr) = 0
      BY <1>9 DEF CountGtFast, top
    <2> QED
      BY <2>2, <2>3 DEF get, big
  <1>10. CASE ~out /\ ~(known /\ thr < p.smin) /\ ~searched /\ thr < top
    <2>0. ~(thr >= top) /\ thr + 1 \in Nat
      BY <1>0, <1>3, <1>10
    <2>1. CountGtFast(p, thr) = CountRangeFast(p, thr + 1, top)
      BY <1>10, <2>0 DEF CountGtFast, top
    <2>2. CountRangeFast(p, thr + 1, top) = CountWithin(get, thr + 1, top)
      BY <1>3, <2>0, CountRangeExact DEF get
    <2>3. \A i \in DOMAIN get : (thr + 1 <= get[i] /\ get[i] <= top) <=> (thr + 1 <= get[i] /\ get[i] <= big)
      BY <1>4
    <2>4. CountWithin(get, thr + 1, top) = want
      BY <2>3, WithinSame
    <2> QED
      BY <2>1, <2>2, <2>4 DEF get, big
  <1>11. thr >= top \/ thr < top
    BY <1>0, <1>3
  <1> QED
    BY <1>6, <1>7, <1>8, <1>9, <1>10, <1>11

\* s2r_count_lt_fast, which asks for a range from zero.
LEMMA CountLtExact ==
  ASSUME NEW p, Honest(p), NEW thr \in Word
  PROVE  CountLtFast(p, thr) = CountWithin(Unsigned(p), 0, thr - 1)
  <1> DEFINE get == Unsigned(p)
  <1>0. thr \in Nat /\ InUse(p)
    BY Conversions DEF Honest
  <1>1. DOMAIN get = 1 .. Count(p) /\ Count(p) \in Nat /\ \A i \in DOMAIN get : get[i] \in Nat
    BY <1>0, UnsignedReads
  <1> HIDE DEF get
  <1>2. CASE Count(p) = 0 \/ thr = 0
    <2>1. \A i \in DOMAIN get : ~(0 <= get[i] /\ get[i] <= thr - 1)
      BY <1>1, <1>2
    <2>2. CountWithin(get, 0, thr - 1) = 0
      <3> DEFINE zero == 0
      <3> HIDE DEF zero
      <3>1. \A i \in DOMAIN get : ~(zero <= get[i] /\ get[i] <= thr - 1)
        BY <2>1 DEF zero
      <3>2. CountWithin(get, zero, thr - 1) = 0
        BY <3>1, WithinNone
      <3> QED
        BY <3>2 DEF zero
    <2>3. CountLtFast(p, thr) = 0
      BY <1>2 DEF CountLtFast
    <2> QED
      BY <2>2, <2>3 DEF get
  <1>3. CASE ~(Count(p) = 0 \/ thr = 0)
    <2>1. CountLtFast(p, thr) = CountRangeFast(p, 0, thr - 1)
      BY <1>3 DEF CountLtFast
    <2>2. thr - 1 \in Nat /\ 0 \in Nat
      BY <1>0, <1>3
    <2> QED
      BY <2>1, <2>2, CountRangeExact DEF get
  <1> QED
    BY <1>2, <1>3

\* A sum whose start was taken modulo the word.
LEMMA Regroup ==
  ASSUME NEW s \in Int, NEW a \in Int, NEW k \in Int, NEW n \in Int, NEW big \in Int
  PROVE  s + (a + k * big) * n = (s + a * n) + (k * n) * big /\ k * n \in Int /\ s + a * n \in Int
  OBVIOUS

\* The sum the kernel returns, put right for the start of the window.
LEMMA KernelSum ==
  ASSUME NEW p, InUse(p), NEW get \in Seq(Int), DOMAIN get = DOMAIN p.data, Len(get) = Count(p),
         NEW a \in Int, NEW u \in Int, NEW k \in Int, u = a + k * Pow(K), NEW span, NEW w,
         Hits(p, u, span) = w, \A i \in w : Offset(p, u, i) = get[i] - a
  PROVE  LET r == SumRng(p, u, span) IN Raw(K, r.sum + u * r.cnt) = Raw(K, SumAt(get, w))
  <1> DEFINE off == [i \in DOMAIN p.data |-> Offset(p, u, i)]
             n == Len(get)
             r == SumRng(p, u, span)
             big == Pow(K)
             cnt == Cardinality(w)
             s == SumAt(off, w)
  <1>0. big \in Nat \ {0} /\ big \in Int
    BY Conversions, PowFacts
  <1>1. n \in Nat /\ DOMAIN get = 1 .. n /\ \A i \in 1 .. n : get[i] \in Int
    OBVIOUS
  <1>2. \A i \in 1 .. n : Offset(p, u, i) \in Int
    <2> SUFFICES ASSUME NEW i \in 1 .. n PROVE Offset(p, u, i) \in Int
      OBVIOUS
    <2>1. p.data[i] \in Nat /\ Abs(p.size) \in Classes
      BY <1>1, Reading
    <2>2. Pow(Abs(p.size)) \in Nat \ {0}
      BY <2>1, PowFacts
    <2>3. p.data[i] - u \in Int
      BY <2>1
    <2>4. (p.data[i] - u) % Pow(Abs(p.size)) \in 0 .. Pow(Abs(p.size)) - 1
      BY <2>2, <2>3, ModRange
    <2> QED
      BY <2>2, <2>4 DEF Offset
  <1>3. off \in Seq(Int) /\ Len(off) = n
    <2>1. off \in [1 .. n -> Int]
      BY <1>1, <1>2
    <2> QED
      BY <1>1, <2>1
  <1>4. w \in SUBSET (1 .. n)
    BY <1>1 DEF Hits
  <1>5. \A i \in w : get[i] = off[i] + a
    <2> SUFFICES ASSUME NEW i \in w PROVE get[i] = off[i] + a
      OBVIOUS
    <2>1. i \in 1 .. n /\ off[i] = Offset(p, u, i) /\ Offset(p, u, i) = get[i] - a
      BY <1>1, <1>4
    <2> QED
      BY <1>1, <2>1
  <1>6. r.sum = s /\ r.cnt = cnt
    BY DEF SumRng
  <1> HIDE DEF off, r, big, n
  <1>7. SumAt(get, w) = s + a * cnt /\ s \in Int /\ cnt \in Nat
    BY <1>1, <1>3, <1>4, <1>5, SumShifted DEF n
  <1> HIDE DEF s, cnt
  <1>8. u = a + k * big
    BY DEF big
  <1>9. s + u * cnt = (s + a * cnt) + (k * cnt) * big /\ k * cnt \in Int /\ s + a * cnt \in Int
    <2>1. cnt \in Int
      BY <1>7
    <2>2. s + (a + k * big) * cnt = (s + a * cnt) + (k * cnt) * big /\ k * cnt \in Int /\ s + a * cnt \in Int
      BY <1>0, <1>7, <2>1, Regroup
    <2> QED
      BY <1>8, <2>2
  <1>10. ((s + a * cnt) + (k * cnt) * big) % big = (s + a * cnt) % big
    BY <1>0, <1>9, ModPlus
  <1>11. Raw(K, s + u * cnt) = Raw(K, s + a * cnt)
    BY <1>9, <1>10 DEF Raw, big
  <1> QED
    BY <1>6, <1>7, <1>11 DEF r

\* Zero is zero in every reading.
LEMMA RawZero == Raw(K, 0) = 0 /\ I64(0) = 0
  <1>1. K \in Classes /\ Half[K] \in Nat \ {0} /\ Pow(K) \in Nat \ {0, 1} /\ 0 < Half[K] /\ 0 \in Nat
    BY Conversions, PowFacts
  <1>2. 0 < Pow(K)
    BY <1>1
  <1>3. Raw(K, 0) = 0
    <2> DEFINE z == 0
    <2> HIDE DEF z
    <2>1. z \in Nat /\ z < Pow(K)
      BY <1>2 DEF z
    <2>2. Raw(K, z) = z
      BY <1>1, <2>1, RawSmall
    <2> QED
      BY <2>2 DEF z
  <1> QED
    BY <1>1, <1>3 DEF I64, AsSigned

\* s2r_sum_if_fast, modulo the word.
LEMMA SumIfExact ==
  ASSUME NEW p, Honest(p), NEW lo \in Nat, NEW hi \in Nat
  PROVE  SumIfFast(p, lo, hi) = Raw(K, SumAt(Unsigned(p), Within(Unsigned(p), lo, hi)))
  <1> DEFINE get == Unsigned(p)
             top == MaxValue(p.size)
             h == IF hi > top THEN top ELSE hi
             w == Within(get, lo, hi)
             out == Count(p) = 0 \/ lo > hi \/ lo > top
  <1>1. InUse(p) /\ p.size \in Sizes
    BY HonestFields
  <1>2. /\ get \in Seq(Int) /\ Len(get) = Count(p) /\ DOMAIN get = 1 .. Count(p) /\ Count(p) \in Nat
        /\ DOMAIN get = DOMAIN p.data
        /\ \A i \in DOMAIN get : get[i] \in Nat /\ get[i] < Pow(Abs(p.size))
    BY <1>1, UnsignedReads
  <1>3. top \in Nat /\ Pow(Abs(p.size)) = top + 1
    <2>1. top \in Word /\ top = Pow(Abs(p.size)) - 1
      BY <1>1, MaxValueRange
    <2>2. Pow(Abs(p.size)) \in Nat
      BY <1>1, SizeFacts, PowFacts
    <2> QED
      BY <2>1, <2>2, Conversions
  <1>4. \A i \in DOMAIN get : get[i] <= top
    BY <1>2, <1>3
  <1> HIDE DEF get, top
  <1>5. CASE out
    <2>1. \A i \in DOMAIN get : ~(lo <= get[i] /\ get[i] <= hi)
      BY <1>2, <1>3, <1>4, <1>5
    <2>2. w = {}
      BY <2>1, WithinNone
    <2>3. \A i : i \notin w
      BY <2>2
    <2> HIDE DEF w
    <2>4. SumAt(get, w) = 0
      BY <1>2, <2>3, SumNone
    <2>5. SumIfFast(p, lo, hi) = 0
      BY <1>5 DEF SumIfFast, top
    <2> QED
      BY <2>4, <2>5, RawZero DEF get, w
  <1>6. CASE ~out
    <2> DEFINE r == SumRng(p, lo, h - lo)
    <2>1. SumIfFast(p, lo, hi) = Raw(K, r.sum + lo * r.cnt)
      BY <1>6 DEF SumIfFast, top
    <2>2. h \in Nat /\ lo <= h /\ h < Pow(Abs(p.size))
      BY <1>3, <1>6
    <2>3. \A i \in DOMAIN get : (lo <= get[i] /\ get[i] <= hi) <=> (lo <= get[i] /\ get[i] <= h)
      BY <1>2, <1>3, <1>4
    <2> HIDE DEF h, r
    <2>4. w = Within(get, lo, h)
      BY <2>3, WithinSame
    <2>5. Hits(p, lo, h - lo) = Within(get, lo, h) /\ \A i \in Within(get, lo, h) : Offset(p, lo, i) = get[i] - lo
      BY <1>1, <2>2, UnsignedKernel DEF get
    <2> HIDE DEF w
    <2> DEFINE zero == 0
    <2>6. zero \in Int /\ lo = lo + zero * Pow(K) /\ lo \in Int
      BY Conversions, PowFacts
    <2> HIDE DEF zero
    <2>7. Hits(p, lo, h - lo) = w /\ \A i \in w : Offset(p, lo, i) = get[i] - lo
      BY <2>4, <2>5
    <2>8. Raw(K, r.sum + lo * r.cnt) = Raw(K, SumAt(get, w))
      BY <1>1, <1>2, <2>6, <2>7, KernelSum DEF r
    <2> QED
      BY <2>1, <2>8 DEF get, w
  <1> QED
    BY <1>5, <1>6

-----------------------------------------------------------------------------
(* The signed queries.                                                      *)

\* The class, the limits and the summary of a signed pool.
LEMMA SignedFields ==
  ASSUME NEW p, Honest(p), IsSigned(p)
  PROVE  LET c == Abs(p.size) IN
         /\ p.size < 0 /\ c \in Classes
         /\ MinSigned(p.size) = -Half[c] /\ MaxSigned(p.size) = Half[c] - 1
         /\ Half[c] \in Nat \ {0} /\ Half[K] \in Nat \ {0} /\ Half[c] <= Half[K]
         /\ I64(p.smin) \in Int /\ I64(p.smax) \in Int
  <1> DEFINE c == Abs(p.size)
  <1>1. p.size < 0
    BY DEF Honest, Agrees, IsSigned
  <1>2. c \in Classes /\ c = -p.size
    BY <1>1, HonestFields, SignedReads
  <1>3. MinSigned(p.size) = -Half[c] /\ MaxSigned(p.size) = Half[c] - 1
    BY <1>1, <1>2 DEF MinSigned, MaxSigned
  <1>4. I64(p.smin) \in Int64 /\ I64(p.smax) \in Int64
    BY HonestFields, Conversions
  <1>5. \A v \in Int64 : v \in Int
    BY SignedWord
  <1>6. Half[c] <= Half[K] /\ Half[c] \in Nat \ {0} /\ Half[K] \in Nat \ {0}
    BY <1>2, HalfMonotone
  <1> QED
    BY <1>1, <1>2, <1>3, <1>4, <1>5, <1>6

\* What a signed pool that was told of an order or of extremes makes of them.
LEMMA SignedFacts ==
  ASSUME NEW p, Honest(p), IsSigned(p)
  PROVE  /\ BSearchWorth(p) => InRising(Signed(p))
         /\ Summarized(p) /\ Count(p) # 0 =>
              \A i \in DOMAIN Signed(p) : I64(p.smin) <= Signed(p)[i] /\ Signed(p)[i] <= I64(p.smax)
  <1> DEFINE get == Signed(p)
  <1>1. InUse(p) /\ Count(p) \in Nat /\ p.size < 0
    BY Fields, SignedFields DEF Honest, InUse
  <1>2. DOMAIN get = DOMAIN p.data /\ \A i \in DOMAIN get : get[i] = Value(p, i) /\ get[i] \in Int
    BY <1>1, SignedReads
  <1>4. BSearchWorth(p) => InRising(get)
    BY <1>2 DEF BSearchWorth, Honest, OrderKnown, InOrder, InRising
  <1>5. ASSUME Summarized(p), Count(p) # 0, NEW i \in DOMAIN get
        PROVE  I64(p.smin) <= get[i] /\ get[i] <= I64(p.smax)
    <2>1. IsMinimum(p, p.smin) /\ IsMaximum(p, p.smax)
      BY <1>1, <1>5 DEF Summarized, Honest, Summarised
    <2>2. PICK j \in DOMAIN p.data : p.smin = U64(Value(p, j)) /\ \A k \in DOMAIN p.data : Value(p, j) <= Value(p, k)
      BY <2>1 DEF IsMinimum
    <2>3. PICK h \in DOMAIN p.data : p.smax = U64(Value(p, h)) /\ \A k \in DOMAIN p.data : Value(p, k) <= Value(p, h)
      BY <2>1 DEF IsMaximum
    <2>4. I64(p.smin) = Value(p, j) /\ I64(p.smax) = Value(p, h)
      <3>1. \A k \in DOMAIN p.data : Meaning(p, U64(Value(p, k))) = Value(p, k)
        BY <1>1, ElementMeaning
      <3> QED
        BY <2>2, <2>3, <3>1 DEF Meaning
    <2> QED
      BY <1>2, <2>2, <2>3, <2>4
  <1> QED
    BY <1>4, <1>5

\* s2r_count_range_signed_fast, for any window of integers.
LEMMA CountRangeSignedExact ==
  ASSUME NEW p, Honest(p), IsSigned(p), NEW lo \in Int, NEW hi \in Int
  PROVE  CountRangeSignedFast(p, lo, hi) = CountWithin(Signed(p), lo, hi)
  <1> DEFINE get == Signed(p)
             min == MinSigned(p.size)
             max == MaxSigned(p.size)
             a == IF lo < min THEN min ELSE lo
             b == IF hi > max THEN max ELSE hi
             least == I64(p.smin)
             most == I64(p.smax)
             half == Half[Abs(p.size)]
             want == CountWithin(get, lo, hi)
             known == Summarized(p)
  <1>1. InUse(p) /\ p.size < 0 /\ least \in Int /\ most \in Int
    BY HonestFields, SignedFields
  <1>2. /\ get \in Seq(Int) /\ Len(get) = Count(p) /\ DOMAIN get = 1 .. Count(p) /\ Count(p) \in Nat
        /\ \A i \in DOMAIN get : get[i] \in Int /\ -half <= get[i] /\ get[i] < half
    BY <1>1, SignedReads
  <1>3. min = -half /\ max = half - 1 /\ half \in Nat \ {0} /\ min \in Int /\ max \in Int
    BY SignedFields
  <1>4. \A i \in DOMAIN get : min <= get[i] /\ get[i] <= max
    BY <1>2, <1>3
  <1>6. ASSUME Count(p) # 0, known
        PROVE  \A i \in DOMAIN get : least <= get[i] /\ get[i] <= most
    BY <1>6, SignedFacts
  <1> HIDE DEF get, min, max, least, most, half
  <1>5. CASE Count(p) = 0 \/ lo > hi
    <2>1. want = 0
      BY <1>2, <1>5, WithinNone
    <2>2. CountRangeSignedFast(p, lo, hi) = 0
      BY <1>5 DEF CountRangeSignedFast
    <2> QED
      BY <2>1, <2>2 DEF get
  <1>7. CASE Count(p) # 0 /\ lo <= hi /\ known /\ (hi < least \/ lo > most)
    <2>1. want = 0
      BY <1>1, <1>2, <1>6, <1>7, WithinNone
    <2>2. CountRangeSignedFast(p, lo, hi) = 0
      BY <1>7 DEF CountRangeSignedFast, least, most
    <2> QED
      BY <2>1, <2>2 DEF get
  <1>8. CASE Count(p) # 0 /\ lo <= hi /\ known /\ ~(hi < least \/ lo > most)
             /\ lo <= least /\ hi >= most
    <2>1. \A i \in DOMAIN get : lo <= get[i] /\ get[i] <= hi
      BY <1>1, <1>2, <1>6, <1>8
    <2>2. want = Count(p)
      BY <1>2, <2>1, WithinAll
    <2>3. CountRangeSignedFast(p, lo, hi) = Count(p)
      BY <1>8 DEF CountRangeSignedFast, least, most
    <2> QED
      BY <2>2, <2>3 DEF get
  <1> DEFINE rest == /\ Count(p) # 0 /\ lo <= hi
                     /\ ~(known /\ (hi < least \/ lo > most))
                     /\ ~(known /\ lo <= least /\ hi >= most)
             searched == BSearchWorth(p)
             apart == lo > max \/ hi < min
  <1>9. CASE rest /\ searched
    <2>1. InRising(get)
      BY <1>9, SignedFacts DEF get
    <2>2. want = Upper(get, hi) - Lower(get, lo)
      BY <1>2, <1>9, <2>1, BisectionWindow
    <2>3. CountRangeSignedFast(p, lo, hi) = Upper(get, hi) - Lower(get, lo)
      BY <1>9 DEF CountRangeSignedFast, get, least, most
    <2> QED
      BY <2>2, <2>3 DEF get
  <1>10. CASE rest /\ ~searched /\ apart
    <2>0. \A i \in DOMAIN get : ~(lo <= get[i] /\ get[i] <= hi)
      BY <1>2, <1>3, <1>4, <1>10
    <2>1. want = 0
      BY <2>0, WithinNone
    <2>2. CountRangeSignedFast(p, lo, hi) = 0
      BY <1>10 DEF CountRangeSignedFast, max, min, least, most
    <2> QED
      BY <2>1, <2>2 DEF get
  <1>11. CASE rest /\ ~searched /\ ~apart
    <2>0. ~(lo > hi)
      BY <1>11
    <2>1. CountRangeSignedFast(p, lo, hi) = CntRng(p, U64(a), Raw(K, U64(b) - U64(a)))
      BY <1>11, <2>0 DEF CountRangeSignedFast, max, min, least, most
    <2>2. a \in Int /\ b \in Int /\ a <= b /\ -half <= a /\ b < half
      BY <1>3, <1>11
    <2>3. \A i \in DOMAIN get : (lo <= get[i] /\ get[i] <= hi) <=> (a <= get[i] /\ get[i] <= b)
      BY <1>2, <1>3, <1>4
    <2> HIDE DEF a, b
    <2>4. Hits(p, U64(a), Raw(K, U64(b) - U64(a))) = Within(get, a, b)
      BY <1>1, <2>2, SignedKernel DEF get, half
    <2>5. Within(get, lo, hi) = Within(get, a, b)
      BY <2>3, WithinSame
    <2> QED
      BY <2>1, <2>4, <2>5 DEF CntRng, CountWithin, get
  <1> QED
    BY <1>5, <1>7, <1>8, <1>9, <1>10, <1>11

\* s2r_count_gt_signed_fast.
LEMMA CountGtSignedExact ==
  ASSUME NEW p, Honest(p), IsSigned(p), NEW thr \in Int
  PROVE  CountGtSignedFast(p, thr) = CountWithin(Signed(p), thr + 1, Half[K])
  <1> DEFINE get == Signed(p)
             max == MaxSigned(p.size)
             least == I64(p.smin)
             most == I64(p.smax)
             half == Half[Abs(p.size)]
             big == Half[K]
             known == Summarized(p)
             want == CountWithin(get, thr + 1, big)
  <1>1. InUse(p) /\ p.size < 0 /\ least \in Int /\ most \in Int
    BY HonestFields, SignedFields
  <1>2. /\ get \in Seq(Int) /\ Len(get) = Count(p) /\ DOMAIN get = 1 .. Count(p) /\ Count(p) \in Nat
        /\ \A i \in DOMAIN get : get[i] \in Int /\ -half <= get[i] /\ get[i] < half
    BY <1>1, SignedReads
  <1>3. max = half - 1 /\ half \in Nat \ {0} /\ max \in Int /\ half <= big /\ big \in Int
    BY SignedFields
  <1>4. \A i \in DOMAIN get : get[i] <= max /\ get[i] <= big
    BY <1>2, <1>3
  <1>5. ASSUME Count(p) # 0, known
        PROVE  \A i \in DOMAIN get : least <= get[i] /\ get[i] <= most
    BY <1>5, SignedFacts
  <1> HIDE DEF get, max, least, most, half, big
  <1> DEFINE out == Count(p) = 0 \/ (known /\ thr >= most)
             searched == BSearchWorth(p)
  <1>6. CASE out
    <2>1. \A i \in DOMAIN get : ~(thr + 1 <= get[i] /\ get[i] <= big)
      BY <1>1, <1>2, <1>5, <1>6
    <2>2. want = 0
      BY <2>1, WithinNone
    <2>3. CountGtSignedFast(p, thr) = 0
      BY <1>6 DEF CountGtSignedFast, most
    <2> QED
      BY <2>2, <2>3 DEF get, big
  <1>7. CASE ~out /\ known /\ thr < least
    <2>1. \A i \in DOMAIN get : thr + 1 <= get[i] /\ get[i] <= big
      BY <1>1, <1>2, <1>4, <1>5, <1>7
    <2>2. want = Count(p)
      BY <1>2, <2>1, WithinAll
    <2>3. CountGtSignedFast(p, thr) = Count(p)
      BY <1>7 DEF CountGtSignedFast, least, most
    <2> QED
      BY <2>2, <2>3 DEF get, big
  <1>8. CASE ~out /\ ~(known /\ thr < least) /\ searched
    <2>1. InRising(get)
      BY <1>8, SignedFacts DEF get
    <2>a. get \in Seq(Int) /\ big \in Int /\ \A i \in DOMAIN get : get[i] <= big
      BY <1>2, <1>3, <1>4
    <2>2. want = Len(get) - Upper(get, thr)
      BY <2>a, <2>1, BisectionAbove
    <2>3. CountGtSignedFast(p, thr) = Count(p) - Upper(get, thr)
      BY <1>8 DEF CountGtSignedFast, get, least, most
    <2> QED
      BY <1>2, <2>2, <2>3 DEF get, big
  <1>9. CASE ~out /\ ~(known /\ thr < least) /\ ~searched /\ thr >= max
    <2>1. \A i \in DOMAIN get : ~(thr + 1 <= get[i] /\ get[i] <= big)
      BY <1>2, <1>3, <1>4, <1>9
    <2>2. want = 0
      BY <2>1, WithinNone
    <2>3. CountGtSignedFast(p, thr) = 0
      BY <1>9 DEF CountGtSignedFast, max, least, most
    <2> QED
      BY <2>2, <2>3 DEF get, big
  <1>10. CASE ~out /\ ~(known /\ thr < least) /\ ~searched /\ ~(thr >= max)
    <2>1. CountGtSignedFast(p, thr) = CountRangeSignedFast(p, thr + 1, max)
      BY <1>10 DEF CountGtSignedFast, max, least, most
    <2>2. CountRangeSignedFast(p, thr + 1, max) = CountWithin(get, thr + 1, max)
      BY <1>3, CountRangeSignedExact DEF get
    <2>3. \A i \in DOMAIN get : (thr + 1 <= get[i] /\ get[i] <= max) <=> (thr + 1 <= get[i] /\ get[i] <= big)
      BY <1>4
    <2>4. CountWithin(get, thr + 1, max) = want
      BY <2>3, WithinSame
    <2> QED
      BY <2>1, <2>2, <2>4 DEF get, big
  <1> QED
    BY <1>6, <1>7, <1>8, <1>9, <1>10

\* s2r_count_lt_signed_fast, which asks for a range from the least of the class.
LEMMA CountLtSignedExact ==
  ASSUME NEW p, Honest(p), IsSigned(p), NEW thr \in Int
  PROVE  CountLtSignedFast(p, thr) = CountWithin(Signed(p), -Half[K], thr - 1)
  <1> DEFINE get == Signed(p)
             min == MinSigned(p.size)
             half == Half[Abs(p.size)]
             low == -Half[K]
             want == CountWithin(get, low, thr - 1)
  <1>1. InUse(p) /\ p.size < 0
    BY HonestFields, SignedFields
  <1>2. /\ DOMAIN get = 1 .. Count(p) /\ Count(p) \in Nat
        /\ \A i \in DOMAIN get : get[i] \in Int /\ -half <= get[i]
    BY <1>1, SignedReads
  <1>3. min = -half /\ half \in Nat \ {0} /\ min \in Int /\ low <= min /\ low \in Int
    BY SignedFields
  <1>4. \A i \in DOMAIN get : min <= get[i] /\ low <= get[i]
    BY <1>2, <1>3
  <1> HIDE DEF get, min, half, low
  <1>5. CASE Count(p) = 0 \/ thr <= min
    <2>1. \A i \in DOMAIN get : ~(low <= get[i] /\ get[i] <= thr - 1)
      BY <1>2, <1>3, <1>4, <1>5
    <2>2. want = 0
      BY <2>1, WithinNone
    <2>3. CountLtSignedFast(p, thr) = 0
      BY <1>5 DEF CountLtSignedFast, min
    <2> QED
      BY <2>2, <2>3 DEF get, low
  <1>6. CASE ~(Count(p) = 0 \/ thr <= min)
    <2>1. CountLtSignedFast(p, thr) = CountRangeSignedFast(p, min, thr - 1)
      BY <1>6 DEF CountLtSignedFast, min
    <2>2. CountRangeSignedFast(p, min, thr - 1) = CountWithin(get, min, thr - 1)
      BY <1>3, CountRangeSignedExact DEF get
    <2>3. \A i \in DOMAIN get : (min <= get[i] /\ get[i] <= thr - 1) <=> (low <= get[i] /\ get[i] <= thr - 1)
      BY <1>4
    <2>4. CountWithin(get, min, thr - 1) = want
      BY <2>3, WithinSame
    <2> QED
      BY <2>1, <2>2, <2>4 DEF get, low
  <1> QED
    BY <1>5, <1>6

\* s2r_sum_if_signed_fast, modulo the word.
LEMMA SumIfSignedExact ==
  ASSUME NEW p, Honest(p), IsSigned(p), NEW lo \in Int, NEW hi \in Int
  PROVE  SumIfSignedFast(p, lo, hi) = I64(Raw(K, SumAt(Signed(p), Within(Signed(p), lo, hi))))
  <1> DEFINE get == Signed(p)
             min == MinSigned(p.size)
             max == MaxSigned(p.size)
             a == IF lo < min THEN min ELSE lo
             b == IF hi > max THEN max ELSE hi
             half == Half[Abs(p.size)]
             w == Within(get, lo, hi)
             out == Count(p) = 0 \/ lo > hi \/ lo > max \/ hi < min
  <1>1. InUse(p) /\ p.size < 0
    BY HonestFields, SignedFields
  <1>2. /\ get \in Seq(Int) /\ Len(get) = Count(p) /\ DOMAIN get = 1 .. Count(p) /\ Count(p) \in Nat
        /\ DOMAIN get = DOMAIN p.data
        /\ \A i \in DOMAIN get : get[i] \in Int /\ -half <= get[i] /\ get[i] < half
    BY <1>1, SignedReads
  <1>3. min = -half /\ max = half - 1 /\ half \in Nat \ {0} /\ min \in Int /\ max \in Int
    BY SignedFields
  <1>4. \A i \in DOMAIN get : min <= get[i] /\ get[i] <= max
    BY <1>2, <1>3
  <1> HIDE DEF get, min, max, half
  <1>5. CASE out
    <2>1. \A i \in DOMAIN get : ~(lo <= get[i] /\ get[i] <= hi)
      BY <1>2, <1>3, <1>4, <1>5
    <2>2. w = {}
      BY <2>1, WithinNone
    <2>3. \A i : i \notin w
      BY <2>2
    <2> HIDE DEF w
    <2>4. SumAt(get, w) = 0
      BY <1>2, <2>3, SumNone
    <2>5. SumIfSignedFast(p, lo, hi) = 0
      BY <1>5 DEF SumIfSignedFast, max, min
    <2> QED
      BY <2>4, <2>5, RawZero DEF get, w
  <1>6. CASE ~out
    <2> DEFINE u == U64(a)
               span == Raw(K, U64(b) - U64(a))
               r == SumRng(p, u, span)
               big == Pow(K)
               k == -(a \div big)
    <2>1. SumIfSignedFast(p, lo, hi) = I64(Raw(K, r.sum + u * r.cnt))
      BY <1>6 DEF SumIfSignedFast, max, min
    <2>2. a \in Int /\ b \in Int /\ a <= b /\ -half <= a /\ b < half
      BY <1>3, <1>6
    <2>3. \A i \in DOMAIN get : (lo <= get[i] /\ get[i] <= hi) <=> (a <= get[i] /\ get[i] <= b)
      BY <1>2, <1>3, <1>4
    <2> HIDE DEF a, b, r
    <2>4. w = Within(get, a, b)
      BY <2>3, WithinSame
    <2>5. Hits(p, u, span) = Within(get, a, b) /\ \A i \in Within(get, a, b) : Offset(p, u, i) = get[i] - a
      BY <1>1, <2>2, SignedKernel DEF get, half
    <2> HIDE DEF w
    <2>6. u \in Int /\ k \in Int /\ u = a + k * big
      <3>1. big \in Nat \ {0}
        BY Conversions, PowFacts
      <3> DEFINE q == a \div big
      <3>2. q \in Int /\ a = q * big + (a % big) /\ (a % big) \in 0 .. big - 1
        BY <2>2, <3>1, DivMod
      <3>3. u = a % big
        BY DEF U64, Raw
      <3> HIDE DEF u, q, big
      <3>4. u \in Int /\ -q \in Int /\ u = a + (-q) * big
        BY <2>2, <3>1, <3>2, <3>3
      <3> QED
        BY <3>4 DEF q
    <2>7. Hits(p, u, span) = w /\ \A i \in w : Offset(p, u, i) = get[i] - a
      BY <2>4, <2>5
    <2> HIDE DEF u, k, span
    <2>8. Raw(K, r.sum + u * r.cnt) = Raw(K, SumAt(get, w))
      BY <1>1, <1>2, <2>2, <2>6, <2>7, KernelSum DEF r
    <2> QED
      BY <2>1, <2>8 DEF get, w
  <1> QED
    BY <1>5, <1>6

-----------------------------------------------------------------------------
(* Every column has a sorted rearrangement.                                 *)

\* Some element is the greatest.
LEMMA GreatestExists ==
  ASSUME NEW n \in Nat \ {0}, NEW v \in [1 .. n -> Int]
  PROVE  \E k \in 1 .. n : \A j \in 1 .. n : v[j] <= v[k]
  <1> DEFINE S == {m \in 0 .. n : m > 0 => \E k \in 1 .. m : \A j \in 1 .. m : v[j] <= v[k]}
  <1>1. 0 \in S /\ S \in SUBSET (0 .. n)
    OBVIOUS
  <1>2. ASSUME NEW m \in 1 .. n, m - 1 \in S
        PROVE  m \in S
    <2>1. CASE m = 1
      <3>1. \A j \in 1 .. m : v[j] <= v[m]
        BY <2>1
      <3> QED
        BY <3>1
    <2>2. CASE m # 1
      <3>1. PICK k \in 1 .. m - 1 : \A j \in 1 .. m - 1 : v[j] <= v[k]
        BY <1>2, <2>2
      <3>2. \A j \in 1 .. m : j \in 1 .. m - 1 \/ j = m
        OBVIOUS
      <3>3. v[k] \in Int /\ v[m] \in Int /\ k \in 1 .. m /\ m \in 1 .. m /\ \A j \in 1 .. m : v[j] \in Int
        OBVIOUS
      <3>4. CASE v[k] <= v[m]
        <4>1. \A j \in 1 .. m : v[j] <= v[m]
          BY <3>1, <3>2, <3>3, <3>4
        <4> QED
          BY <3>3, <4>1
      <3>5. CASE v[m] <= v[k]
        <4>1. \A j \in 1 .. m : v[j] <= v[k]
          BY <3>1, <3>2, <3>3, <3>5
        <4> QED
          BY <3>3, <4>1
      <3> QED
        BY <3>3, <3>4, <3>5
    <2> QED
      BY <2>1, <2>2
  <1>3. n \in S
    <2> HIDE DEF S
    <2> QED
      BY <1>1, <1>2, UpTo
  <1> QED
    BY <1>3

Arranges(f, v, m) == f \in Rearrangements(m) /\ \A i, j \in 1 .. m : i < j => v[f[i]] <= v[f[j]]
Sortable(m) == \A v \in [1 .. m -> Int] : \E f : Arranges(f, v, m)

\* The greatest is put last and the others are sorted.
LEMMA SortableStep ==
  ASSUME NEW m \in Nat \ {0}, Sortable(m - 1)
  PROVE  Sortable(m)
  <1> SUFFICES ASSUME NEW v \in [1 .. m -> Int]
               PROVE  \E f : Arranges(f, v, m)
    BY DEF Sortable
  <1>1. PICK k \in 1 .. m : \A j \in 1 .. m : v[j] <= v[k]
    BY GreatestExists
  <1> DEFINE w == [i \in 1 .. m - 1 |-> IF i = k THEN v[m] ELSE v[i]]
  <1>2. w \in [1 .. m - 1 -> Int]
    OBVIOUS
  <1>3. PICK g : Arranges(g, w, m - 1)
    BY <1>2 DEF Sortable
  <1> DEFINE f == [i \in 1 .. m |-> IF i = m THEN k ELSE IF g[i] = k THEN m ELSE g[i]]
  <1>4. /\ \A i \in 1 .. m - 1 : g[i] \in 1 .. m - 1
        /\ \A i, j \in 1 .. m - 1 : i # j => g[i] # g[j]
        /\ \A i, j \in 1 .. m - 1 : i < j => w[g[i]] <= w[g[j]]
    BY <1>3 DEF Arranges, Rearrangements
  <1>5. \A i \in 1 .. m : i = m \/ i \in 1 .. m - 1
    OBVIOUS
  <1>6. /\ f[m] = k
        /\ \A i \in 1 .. m - 1 : f[i] = IF g[i] = k THEN m ELSE g[i]
    <2>1. m \in 1 .. m /\ \A i \in 1 .. m - 1 : i \in 1 .. m /\ i # m
      OBVIOUS
    <2> QED
      BY <2>1
  <1>7. ASSUME NEW i \in 1 .. m - 1
        PROVE  f[i] \in 1 .. m /\ f[i] # k /\ v[f[i]] = w[g[i]]
    <2>1. g[i] \in 1 .. m - 1 /\ g[i] # m
      BY <1>4
    <2>2. w[g[i]] = IF g[i] = k THEN v[m] ELSE v[g[i]]
      BY <2>1
    <2> QED
      BY <1>6, <2>1, <2>2
  <1> HIDE DEF f, w
  <1>8. f \in [1 .. m -> 1 .. m]
    <2>1. \A i \in 1 .. m : f[i] \in 1 .. m
      BY <1>5, <1>6, <1>7
    <2> QED
      BY <2>1 DEF f
  <1>9. ASSUME NEW i \in 1 .. m, NEW j \in 1 .. m, i # j
        PROVE  f[i] # f[j]
    <2>1. CASE i = m
      <3>1. j \in 1 .. m - 1
        BY <1>5, <1>9, <2>1
      <3> QED
        BY <1>6, <1>7, <2>1, <3>1
    <2>2. CASE j = m
      <3>1. i \in 1 .. m - 1
        BY <1>5, <1>9, <2>2
      <3> QED
        BY <1>6, <1>7, <2>2, <3>1
    <2>3. CASE i # m /\ j # m
      <3>1. i \in 1 .. m - 1 /\ j \in 1 .. m - 1
        BY <1>5, <2>3
      <3>2. g[i] # g[j] /\ g[i] \in 1 .. m - 1 /\ g[j] \in 1 .. m - 1
        BY <1>4, <1>9, <3>1
      <3>3. g[i] # m /\ g[j] # m
        BY <3>2
      <3>4. f[i] = (IF g[i] = k THEN m ELSE g[i]) /\ f[j] = (IF g[j] = k THEN m ELSE g[j])
        BY <1>6, <3>1
      <3> QED
        BY <3>2, <3>3, <3>4
    <2> QED
      BY <2>1, <2>2, <2>3
  <1>10. ASSUME NEW i \in 1 .. m, NEW j \in 1 .. m, i < j
         PROVE  v[f[i]] <= v[f[j]]
    <2>1. i \in 1 .. m - 1
      BY <1>10
    <2>2. CASE j = m
      <3>1. v[f[i]] <= v[k]
        BY <1>1, <1>8
      <3> QED
        BY <1>6, <2>2, <3>1
    <2>3. CASE j # m
      <3>1. j \in 1 .. m - 1
        BY <1>5, <2>3
      <3>2. w[g[i]] <= w[g[j]]
        BY <1>4, <1>10, <2>1, <3>1
      <3>3. v[f[i]] = w[g[i]] /\ v[f[j]] = w[g[j]]
        BY <1>7, <2>1, <3>1
      <3> QED
        BY <3>2, <3>3
    <2> QED
      BY <2>2, <2>3
  <1>11. Arranges(f, v, m)
    BY <1>8, <1>9, <1>10 DEF Arranges, Rearrangements
  <1> QED
    BY <1>11

\* Every sequence of integers has a sorted rearrangement.
LEMMA AllSortable ==
  ASSUME NEW n \in Nat
  PROVE  Sortable(n)
  <1> DEFINE S == {m \in 0 .. n : Sortable(m)}
  <1>1. 0 \in S
    <2> DEFINE z == 0
               f == [i \in 1 .. z |-> i]
    <2>1. \A v : Arranges(f, v, z)
      BY DEF Arranges, Rearrangements
    <2> HIDE DEF f
    <2>2. Sortable(z)
      BY <2>1 DEF Sortable
    <2> QED
      BY <2>2
  <1>2. ASSUME NEW m \in 1 .. n, m - 1 \in S
        PROVE  m \in S
    BY <1>2, SortableStep
  <1>3. S \in SUBSET (0 .. n)
    OBVIOUS
  <1>4. n \in S
    <2> HIDE DEF S
    <2> QED
      BY <1>1, <1>2, <1>3, UpTo
  <1> QED
    BY <1>4

\* s2r_sort has a result, whatever the column.
LEMMA SortPossible ==
  ASSUME NEW p, InUse(p)
  PROVE  \E q : q \in Sort(p)
  <1> DEFINE n == Count(p)
             v == [i \in 1 .. n |-> Value(p, i)]
  <1>1. n \in Nat /\ DOMAIN p.data = 1 .. n
    BY Fields DEF InUse
  <1>2. v \in [1 .. n -> Int]
    BY <1>1, ValueRange
  <1>3. Sortable(n)
    BY <1>1, AllSortable
  <1> HIDE DEF n
  <1>4. PICK f : Arranges(f, v, n)
    BY <1>2, <1>3 DEF Sortable
  <1> DEFINE data == [i \in 1 .. n |-> p.data[f[i]]]
             fl == p.flags \cup {"SORTED"}
             q == [p EXCEPT !.data = data, !.flags = fl]
  <1>5. f \in Rearrangements(n) /\ f \in [1 .. n -> 1 .. n] /\ \A i, j \in 1 .. n : i < j => v[f[i]] <= v[f[j]]
    BY <1>4 DEF Arranges, Rearrangements
  <1>6. q \in SortResults(p)
    BY <1>5 DEF SortResults, n
  <1>7. q.data = data /\ q.flags = fl /\ q.size = p.size
    <2> HIDE DEF data, fl
    <2> QED
      BY DEF InUse, PoolType
  <1> HIDE DEF q
  <1>8. DOMAIN q.data = 1 .. n /\ \A i \in 1 .. n : q.data[i] = p.data[f[i]]
    BY <1>7
  <1>9. IsSigned(q) <=> IsSigned(p)
    BY <1>7 DEF IsSigned
  <1>10. \A i \in 1 .. n : Value(q, i) = Value(p, f[i]) /\ f[i] \in 1 .. n
    BY <1>5, <1>7, <1>8, <1>9 DEF Value, GetSigned, Get
  <1>11. InOrder(q)
    BY <1>5, <1>8, <1>10 DEF InOrder
  <1> QED
    BY <1>6, <1>11 DEF Sort

-----------------------------------------------------------------------------
(* Counting different values.                                               *)

\* Two elements read alike when the same word is stored.
LEMMA SameWord ==
  ASSUME NEW p, InUse(p), Agrees(p), NEW i \in DOMAIN p.data, NEW j \in DOMAIN p.data
  PROVE  Value(p, i) = Value(p, j) <=> p.data[i] = p.data[j]
  <1>2. CASE p.size < 0
    <2> DEFINE c == Abs(p.size)
    <2>1. \A k \in DOMAIN p.data :
            /\ p.data[k] \in Nat /\ p.data[k] < Pow(c) /\ c \in Classes
            /\ Value(p, k) = AsSigned(c, p.data[k])
      BY <1>2, Reading
    <2>2. Raw(c, AsSigned(c, p.data[i])) = p.data[i]
      BY <2>1, RawSigned
    <2>3. Raw(c, AsSigned(c, p.data[j])) = p.data[j]
      BY <2>1, RawSigned
    <2>4. Value(p, i) = AsSigned(c, p.data[i]) /\ Value(p, j) = AsSigned(c, p.data[j])
      BY <2>1
    <2> HIDE DEF c
    <2> QED
      BY <2>2, <2>3, <2>4
  <1>3. CASE ~(p.size < 0)
    <2>1. "SIGNED" \notin p.flags
      BY <1>3 DEF Agrees
    <2>2. Value(p, i) = p.data[i] /\ Value(p, j) = p.data[j]
      BY <1>3, <2>1 DEF Value, IsSigned, Get
    <2> QED
      BY <2>2
  <1> QED
    BY <1>2, <1>3

\* As many words as values.
LEMMA DistinctWords ==
  ASSUME NEW p, Honest(p)
  PROVE  /\ IsFiniteSet(RawSet(p))
         /\ Cardinality({Value(p, i) : i \in DOMAIN p.data}) = Cardinality(RawSet(p))
  <1> DEFINE n == Count(p)
             vs == {Value(p, i) : i \in DOMAIN p.data}
             rs == RawSet(p)
             at == [r \in rs |-> CHOOSE i \in DOMAIN p.data : p.data[i] = r]
             f == [r \in rs |-> Value(p, at[r])]
             d == [i \in DOMAIN p.data |-> p.data[i]]
  <1>0. InUse(p) /\ Agrees(p)
    BY DEF Honest
  <1>1. n \in Nat /\ DOMAIN p.data = 1 .. n
    BY <1>0, Fields DEF InUse
  <1>2. IsFiniteSet(rs)
    <2>1. d \in Surjection(1 .. n, rs)
      BY <1>1 DEF RawSet, Surjection
    <2>2. IsFiniteSet(1 .. n)
      BY <1>1, FS_Interval
    <2> QED
      BY <2>1, <2>2, FS_Surjection
  <1>3. \A r \in rs : at[r] \in DOMAIN p.data /\ p.data[at[r]] = r
    BY DEF RawSet
  <1> HIDE DEF at
  <1>4. f \in [rs -> vs]
    BY <1>3
  <1>5. \A r, s \in rs : f[r] = f[s] => r = s
    <2> SUFFICES ASSUME NEW r \in rs, NEW s \in rs, f[r] = f[s] PROVE r = s
      OBVIOUS
    <2>1. Value(p, at[r]) = Value(p, at[s])
      OBVIOUS
    <2>2. p.data[at[r]] = p.data[at[s]]
      BY <1>0, <1>3, <2>1, SameWord
    <2> QED
      BY <1>3, <2>2
  <1>6. \A v \in vs : \E r \in rs : f[r] = v
    <2> SUFFICES ASSUME NEW i \in DOMAIN p.data PROVE \E r \in rs : f[r] = Value(p, i)
      OBVIOUS
    <2>1. p.data[i] \in rs
      BY DEF RawSet
    <2>2. at[p.data[i]] \in DOMAIN p.data /\ p.data[at[p.data[i]]] = p.data[i]
      BY <1>3, <2>1
    <2>3. Value(p, at[p.data[i]]) = Value(p, i)
      BY <1>0, <2>2, SameWord
    <2> QED
      BY <2>1, <2>3
  <1> HIDE DEF f, vs, rs
  <1>7. f \in Bijection(rs, vs)
    BY <1>4, <1>5, <1>6 DEF Bijection, Injection, Surjection, IsInjective
  <1>8. Cardinality(vs) = Cardinality(rs)
    BY <1>2, <1>7, FS_Bijection DEF ExistsBijection
  <1> QED
    BY <1>2, <1>8 DEF vs, rs

\* In an ordered column equal words are neighbours: one word more than changes.
LEMMA ChangesCount ==
  ASSUME NEW q, InUse(q), Agrees(q), InOrder(q), Count(q) # 0
  PROVE  1 + Cardinality({i \in 2 .. Count(q) : q.data[i] # q.data[i - 1]}) = Cardinality(RawSet(q))
  <1> DEFINE n == Count(q)
             d == q.data
             upto(m) == {d[i] : i \in 1 .. m}
             steps(m) == {i \in 2 .. m : d[i] # d[i - 1]}
             S == {m \in 0 .. n : m > 0 => /\ IsFiniteSet(upto(m)) /\ IsFiniteSet(steps(m))
                                           /\ Cardinality(steps(m)) \in Nat
                                           /\ 1 + Cardinality(steps(m)) = Cardinality(upto(m))}
  <1>1. n \in Nat /\ n # 0 /\ DOMAIN d = 1 .. n
    BY Fields DEF InUse
  <1>2. 0 \in S /\ S \in SUBSET (0 .. n)
    BY <1>1
  <1>3. ASSUME NEW m \in 1 .. n, m - 1 \in S
        PROVE  m \in S
    <2>0. m \in 0 .. n /\ m \in Nat /\ m > 0
      BY <1>1
    <2>1. CASE m = 1
      <3>1. upto(m) = {d[1]} /\ steps(m) = {}
        BY <2>1
      <3>2. IsFiniteSet({d[1]}) /\ Cardinality({d[1]}) = 1
        BY FS_Singleton
      <3>3. IsFiniteSet({}) /\ Cardinality({}) = 0
        BY FS_EmptySet
      <3> HIDE DEF upto, steps
      <3>4. IsFiniteSet(upto(m)) /\ IsFiniteSet(steps(m)) /\ Cardinality(steps(m)) = 0 /\ Cardinality(upto(m)) = 1
        BY <3>1, <3>2, <3>3
      <3> QED
        BY <2>0, <3>4
    <2>2. CASE m # 1
      <3>1. m - 1 \in 1 .. n /\ m - 1 > 0 /\ m \in 2 .. n
        BY <1>1, <2>0, <2>2
      <3>2. /\ IsFiniteSet(upto(m - 1)) /\ IsFiniteSet(steps(m - 1))
            /\ Cardinality(steps(m - 1)) \in Nat
            /\ 1 + Cardinality(steps(m - 1)) = Cardinality(upto(m - 1))
        BY <1>3, <3>1
      <3>a. \A i : i \in 1 .. m <=> (i \in 1 .. m - 1 \/ i = m)
        BY <2>0
      <3>b. \A i : i \in 2 .. m <=> (i \in 2 .. m - 1 \/ i = m)
        BY <3>1
      <3>3. upto(m) = upto(m - 1) \cup {d[m]}
        BY <3>a
      <3>4. CASE d[m] = d[m - 1]
        <4>1. d[m] \in upto(m - 1)
          BY <3>1, <3>4
        <4>2. steps(m) = steps(m - 1)
          BY <3>b, <3>4
        <4> HIDE DEF upto, steps
        <4>3. upto(m) = upto(m - 1)
          BY <3>3, <4>1
        <4> QED
          BY <2>0, <3>2, <4>2, <4>3
      <3>5. CASE d[m] # d[m - 1]
        <4>1. steps(m) = steps(m - 1) \cup {m}
          BY <3>b, <3>5
        <4>2. m \notin steps(m - 1)
          <5>1. m \notin 2 .. m - 1
            BY <2>0
          <5> QED
            BY <5>1
        <4>3. d[m] \notin upto(m - 1)
          <5> SUFFICES ASSUME NEW i \in 1 .. m - 1, d[i] = d[m] PROVE FALSE
            OBVIOUS
          <5>1. i \in 1 .. n /\ m \in 1 .. n /\ m - 1 \in 1 .. n /\ m - 1 < m
            BY <1>1, <3>1
          <5>2. Value(q, i) = Value(q, m)
            BY <1>1, <5>1, SameWord
          <5>3. i < m - 1
            BY <3>5, <5>1
          <5>4. Value(q, i) <= Value(q, m - 1) /\ Value(q, m - 1) <= Value(q, m)
            BY <1>1, <5>1, <5>3 DEF InOrder
          <5>5. Value(q, m - 1) \in Int /\ Value(q, m) \in Int
            BY <1>1, <5>1, ValueRange
          <5>6. Value(q, m - 1) = Value(q, m)
            BY <5>2, <5>4, <5>5
          <5>7. d[m - 1] = d[m]
            BY <1>1, <5>1, <5>6, SameWord
          <5> QED
            BY <3>5, <5>7
        <4> HIDE DEF upto, steps, d
        <4>4. IsFiniteSet(upto(m)) /\ Cardinality(upto(m)) = Cardinality(upto(m - 1)) + 1
          <5> DEFINE x == d[m]
                     s == upto(m - 1)
          <5>1. IsFiniteSet(s) /\ x \notin s /\ upto(m) = s \cup {x}
            BY <3>2, <3>3, <4>3
          <5> HIDE DEF x, s
          <5>2. IsFiniteSet(s \cup {x}) /\ Cardinality(s \cup {x}) = Cardinality(s) + 1
            BY <5>1, FS_AddElement
          <5> QED
            BY <5>1, <5>2 DEF s
        <4>5. IsFiniteSet(steps(m)) /\ Cardinality(steps(m)) = Cardinality(steps(m - 1)) + 1
          BY <3>2, <4>1, <4>2, FS_AddElement
        <4> QED
          BY <2>0, <3>2, <4>4, <4>5
      <3> QED
        BY <3>4, <3>5
    <2> QED
      BY <2>1, <2>2
  <1>4. n \in S
    <2> HIDE DEF S
    <2>1. S = 0 .. n
      BY <1>1, <1>2, <1>3, UpTo
    <2> QED
      BY <1>1, <2>1
  <1>5. 1 + Cardinality(steps(n)) = Cardinality(upto(n))
    BY <1>1, <1>4
  <1>6. upto(n) = RawSet(q)
    BY <1>1 DEF RawSet
  <1> QED
    BY <1>5, <1>6

\* The bins of s2r_value_counts_u8 that are not empty are the words stored.
LEMMA TallyExact ==
  ASSUME NEW p, Honest(p), Abs(p.size) = 1
  PROVE  {b \in 0 .. Pow(1) - 1 : ByteCounts(p)[b] # 0} = RawSet(p)
  <1> DEFINE here(b) == {i \in DOMAIN p.data : p.data[i] = b}
  <1>1. InUse(p) /\ Count(p) \in Nat /\ DOMAIN p.data = 1 .. Count(p)
    BY Fields DEF Honest, InUse
  <1>2. \A b \in 0 .. Pow(1) - 1 : ByteCounts(p)[b] # 0 <=> here(b) # {}
    <2> SUFFICES ASSUME NEW b \in 0 .. Pow(1) - 1 PROVE ByteCounts(p)[b] # 0 <=> here(b) # {}
      OBVIOUS
    <2>1. IsFiniteSet(here(b))
      <3>1. IsFiniteSet(1 .. Count(p)) /\ here(b) \in SUBSET (1 .. Count(p))
        BY <1>1, FS_Interval
      <3> QED
        BY <3>1, FS_Subset
    <2>2. Cardinality(here(b)) = 0 <=> here(b) = {}
      BY <2>1, FS_EmptySet
    <2>3. ByteCounts(p)[b] = Cardinality(here(b))
      BY DEF ByteCounts
    <2> QED
      BY <2>2, <2>3
  <1>3. \A i \in DOMAIN p.data : p.data[i] \in 0 .. Pow(1) - 1
    <2> SUFFICES ASSUME NEW i \in DOMAIN p.data PROVE p.data[i] \in 0 .. Pow(1) - 1
      OBVIOUS
    <2>1. p.data[i] \in Nat /\ p.data[i] < Pow(Abs(p.size)) /\ Abs(p.size) \in Classes
      BY <1>1, Reading
    <2>2. Pow(Abs(p.size)) \in Nat /\ Pow(Abs(p.size)) = Pow(1)
      BY <2>1, PowFacts
    <2> QED
      BY <2>1, <2>2
  <1> QED
    BY <1>2, <1>3 DEF RawSet

\* The copy s2r_nunique sorts holds the words of the original.
LEMMA CopyReads ==
  ASSUME NEW p, Honest(p), NEW ok \in BOOLEAN, NEW tmp, tmp = Copy(0, p, ok), tmp.ret
  PROVE  /\ InUse(tmp.pool) /\ tmp.pool.data = p.data /\ tmp.pool.size = p.size
         /\ Agrees(tmp.pool) /\ Count(tmp.pool) = Count(p)
  <1>1. InUse(p) /\ 0 \in Int
    BY DEF Honest
  <1>2. InUse(tmp.pool)
    BY <1>1, CopyInUse
  <1>3. tmp.pool.data = p.data /\ tmp.pool.size = p.size /\ tmp.pool.flags = p.flags \ {"EXTERNAL"}
    BY <1>1, CopyEffect
  <1> QED
    BY <1>2, <1>3 DEF Honest, Agrees, Count

\* A pool whose words are those of p, rearranged.
LEMMA SameWords ==
  ASSUME NEW p, NEW q, InUse(p), NEW f \in Rearrangements(Count(p)),
         q.data = [i \in 1 .. Count(p) |-> p.data[f[i]]]
  PROVE  RawSet(q) = RawSet(p)
  <1> DEFINE n == Count(p)
  <1>1. n \in Nat /\ DOMAIN p.data = 1 .. n /\ f \in [1 .. n -> 1 .. n]
    BY Fields DEF InUse, Rearrangements
  <1>2. DOMAIN q.data = 1 .. n /\ \A i \in 1 .. n : q.data[i] = p.data[f[i]] /\ f[i] \in 1 .. n
    BY <1>1
  <1>3. \A j \in 1 .. n : \E i \in 1 .. n : f[i] = j
    BY <1>1, Onto
  <1> HIDE DEF n
  <1>4. ASSUME NEW j \in 1 .. n PROVE p.data[j] \in RawSet(q)
    <2>1. PICK i \in 1 .. n : f[i] = j
      BY <1>3
    <2>2. q.data[i] = p.data[j] /\ i \in DOMAIN q.data
      BY <1>2, <2>1
    <2> QED
      BY <2>2 DEF RawSet
  <1>5. ASSUME NEW i \in 1 .. n PROVE q.data[i] \in RawSet(p)
    BY <1>1, <1>2 DEF RawSet
  <1>6. RawSet(q) \subseteq RawSet(p)
    <2>1. \A x \in RawSet(q) : \E i \in 1 .. n : x = q.data[i]
      BY <1>2 DEF RawSet
    <2> QED
      BY <1>5, <2>1
  <1>7. RawSet(p) \subseteq RawSet(q)
    <2>1. \A x \in RawSet(p) : \E i \in 1 .. n : x = p.data[i]
      BY <1>1 DEF RawSet
    <2> QED
      BY <1>4, <2>1
  <1> QED
    BY <1>6, <1>7

\* A column of one element is in order.
LEMMA OneWord ==
  ASSUME NEW q, InUse(q), Count(q) < 2, Count(q) # 0
  PROVE  InOrder(q)
  <1>1. DOMAIN q.data = 1 .. Count(q) /\ Count(q) \in Nat
    BY Fields DEF InUse
  <1>2. \A i, j \in DOMAIN q.data : ~(i < j)
    BY <1>1
  <1> QED
    BY <1>2 DEF InOrder

\* s2r_nunique: by the table, by the bitmap or over the sorted copy.
LEMMA NuniqueExact ==
  ASSUME NEW p, Honest(p), NEW ok \in BOOLEAN
  PROVE  LET r == Nunique(p, ok) IN
         r.ok => r.n = Cardinality({Value(p, i) : i \in DOMAIN p.data})
  <1> DEFINE want == Cardinality({Value(p, i) : i \in DOMAIN p.data})
             r == Nunique(p, ok)
  <1>1. want = Cardinality(RawSet(p)) /\ InUse(p)
    BY DistinctWords DEF Honest
  <1>2. Count(p) \in Nat /\ DOMAIN p.data = 1 .. Count(p)
    BY <1>1, Fields DEF InUse
  <1> HIDE DEF want
  <1>3. CASE Count(p) = 0
    <2>1. RawSet(p) = {}
      BY <1>2, <1>3 DEF RawSet
    <2>2. want = 0
      BY <1>1, <2>1, FS_EmptySet
    <2>3. r.n = 0
      BY <1>3 DEF Nunique
    <2> QED
      BY <2>2, <2>3 DEF want
  <1>4. CASE Count(p) # 0 /\ Abs(p.size) \in BitmapClasses
    <2>1. r = ByBitmap(p, ok)
      BY <1>4 DEF Nunique
    <2>2. r.ok => r.n = Cardinality(RawSet(p))
      BY <2>1 DEF ByBitmap, Failure
    <2> QED
      BY <1>1, <2>2 DEF want
  <1>5. CASE Count(p) # 0 /\ Abs(p.size) \notin BitmapClasses
    <2> DEFINE tmp == Copy(0, p, ok)
               t == tmp.pool
               q == CHOOSE s \in Sort(t) : TRUE
               changes == Cardinality({i \in 2 .. Count(q) : q.data[i] # q.data[i - 1]})
    <2>1. r = IF ~tmp.ret \/ "READONLY" \in t.flags THEN Failure ELSE [ok |-> TRUE, n |-> 1 + changes]
      BY <1>5 DEF Nunique, BySorting
    <2>2. CASE ~tmp.ret \/ "READONLY" \in t.flags
      <3>1. r = Failure
        BY <2>1, <2>2
      <3> QED
        BY <3>1 DEF Failure
    <2>3. CASE tmp.ret /\ "READONLY" \notin t.flags
      <3>1. InUse(t) /\ t.data = p.data /\ t.size = p.size /\ Agrees(t) /\ Count(t) = Count(p)
        BY <2>3, CopyReads
      <3>2. \E s : s \in Sort(t)
        BY <3>1, SortPossible
      <3>3. q \in Sort(t)
        BY <3>2
      <3> HIDE DEF q
      <3>4. InUse(q)
        BY <3>1, <3>3, SortInUse
      <3>5. \/ q = t /\ Count(t) < 2
            \/ /\ q.size = t.size /\ q.flags = t.flags \cup {"SORTED"} /\ InOrder(q)
               /\ \E f \in Rearrangements(Count(t)) : q.data = [i \in 1 .. Count(t) |-> t.data[f[i]]]
        BY <2>3, <3>1, <3>3, SortEffect
      <3>6. Agrees(q)
        BY <3>1, <3>5 DEF Agrees
      <3>7. Count(q) = Count(p) /\ RawSet(q) = RawSet(p)
        <4>1. RawSet(t) = RawSet(p)
          BY <3>1 DEF RawSet
        <4>2. CASE q = t
          BY <3>1, <4>1, <4>2
        <4>3. CASE q # t
          <5>1. PICK f \in Rearrangements(Count(t)) : q.data = [i \in 1 .. Count(t) |-> t.data[f[i]]]
            BY <3>5, <4>3
          <5>2. RawSet(q) = RawSet(t)
            BY <3>1, <5>1, SameWords
          <5>3. DOMAIN q.data = 1 .. Count(q) /\ Count(q) \in Nat
            BY <3>4, Fields DEF InUse
          <5>4. DOMAIN q.data = 1 .. Count(t)
            BY <5>1
          <5>5. Count(q) = Count(t)
            BY <1>2, <3>1, <5>3, <5>4
          <5> QED
            BY <3>1, <4>1, <5>2, <5>5
        <4> QED
          BY <4>2, <4>3
      <3>8. InOrder(q)
        <4>1. CASE q = t /\ Count(t) < 2
          BY <1>5, <3>1, <3>4, <3>6, <4>1, OneWord
        <4>2. CASE ~(q = t /\ Count(t) < 2)
          BY <3>5, <4>2
        <4> QED
          BY <4>1, <4>2
      <3>9. 1 + changes = Cardinality(RawSet(q))
        BY <1>5, <3>4, <3>6, <3>7, <3>8, ChangesCount
      <3>10. r.n = 1 + changes
        BY <2>1, <2>3
      <3> QED
        BY <1>1, <3>7, <3>9, <3>10 DEF want
    <2> QED
      BY <2>2, <2>3
  <1> QED
    BY <1>3, <1>4, <1>5


-----------------------------------------------------------------------------
(* The queries on the pool of a careful caller.                             *)

\* Every unsigned query (s2r_count_range_fast, s2r_count_gt_fast, s2r_count_lt_fast,
\* s2r_sum_if_fast) and every count of different values (s2r_value_counts_u8,
\* s2r_nunique) of a careful caller's pool is what a scan of it gives.
THEOREM UnsignedQueriesExact == Careful => (Spec => []UnsignedExact)
  <1> SUFFICES ASSUME Careful PROVE Spec => []UnsignedExact
    OBVIOUS
  <1>1. CarefulInv => UnsignedExact
    <2> SUFFICES ASSUME CarefulInv, Live PROVE UnsignedExact
      BY DEF UnsignedExact
    <2>1. Honest(pool)
      BY CarefulLive
    <2>2. Tallied
      BY <2>1, TallyExact, DistinctWords DEF Tallied, Distinct
    <2>3. ASSUME NEW ok \in BOOLEAN PROVE Counted(Nunique(pool, ok))
      BY <2>1, NuniqueExact DEF Counted, Distinct
    <2>4. ASSUME NEW lo \in Word
          PROVE  /\ CountGtFast(pool, lo) = CountWithin(Unsigned(pool), lo + 1, Pow(K))
                 /\ CountLtFast(pool, lo) = CountWithin(Unsigned(pool), 0, lo - 1)
      BY <2>1, CountGtExact, CountLtExact
    <2>5. ASSUME NEW lo \in Word, NEW hi \in Word
          PROVE  LET get == Unsigned(pool) IN
                 /\ CountRangeFast(pool, lo, hi) = CountWithin(get, lo, hi)
                 /\ SumIfFast(pool, lo, hi) = Raw(K, SumAt(get, Within(get, lo, hi)))
      <3>1. lo \in Nat /\ hi \in Nat
        BY Conversions
      <3> QED
        BY <2>1, <3>1, CountRangeExact, SumIfExact
    <2> QED
      BY <2>2, <2>3, <2>4, <2>5 DEF UnsignedExact
  <1> QED
    BY <1>1, CarefulInvariance, PTL

\* Every signed query (s2r_count_range_signed_fast, s2r_count_gt_signed_fast,
\* s2r_count_lt_signed_fast, s2r_sum_if_signed_fast) of a careful caller's signed
\* pool is what a scan of its signed values gives, for every int64_t bound.
THEOREM SignedQueriesExact == Careful => (Spec => []SignedExact)
  <1> SUFFICES ASSUME Careful PROVE Spec => []SignedExact
    OBVIOUS
  <1>1. CarefulInv => SignedExact
    <2> SUFFICES ASSUME CarefulInv, Live, IsSigned(pool) PROVE SignedExact
      BY DEF SignedExact
    <2>1. Honest(pool)
      BY CarefulLive
    <2>2. \A v \in Int64 : v \in Int
      BY SignedWord
    <2>3. ASSUME NEW lo \in Int64
          PROVE  /\ CountGtSignedFast(pool, lo) = CountWithin(Signed(pool), lo + 1, Half[K])
                 /\ CountLtSignedFast(pool, lo) = CountWithin(Signed(pool), -Half[K], lo - 1)
      BY <2>1, <2>2, CountGtSignedExact, CountLtSignedExact
    <2>4. ASSUME NEW lo \in Int64, NEW hi \in Int64
          PROVE  LET get == Signed(pool) IN
                 /\ CountRangeSignedFast(pool, lo, hi) = CountWithin(get, lo, hi)
                 /\ SumIfSignedFast(pool, lo, hi) = I64(Raw(K, SumAt(get, Within(get, lo, hi))))
      BY <2>1, <2>2, CountRangeSignedExact, SumIfSignedExact
    <2> QED
      BY <2>3, <2>4 DEF SignedExact
  <1> QED
    BY <1>1, CarefulInvariance, PTL

=============================================================================
