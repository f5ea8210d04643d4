----------------------------- MODULE LazyProofs -----------------------------
(***************************************************************************)
(* Theorems about LazyCarry for every number and width of classes, every   *)
(* set of arguments and every length of a session: arithmetic on a column  *)
(* is arithmetic on integers or is refused, and a session that is          *)
(* committed gives what the eager calls would have given.                  *)
(***************************************************************************)
EXTENDS LazyCarry, PoolFacts

-----------------------------------------------------------------------------
(* One operation.                                                           *)

OpType == [op : {"add", "mul"}, arg : Int]
Natural(o) == o.arg >= 0
Between(a, x, b) == (a <= x /\ x <= b) \/ (b <= x /\ x <= a)

\* Multiplication keeps the order or turns it over.
LEMMA TimesOrder ==
  ASSUME NEW a \in Int, NEW b \in Int, NEW s \in Int, a <= b
  PROVE  /\ a * s \in Int /\ b * s \in Int
         /\ s >= 0 => a * s <= b * s
         /\ s <= 0 => b * s <= a * s
  <1> DEFINE e == b - a
  <1>1. e \in Nat /\ b = a + e
    OBVIOUS
  <1> HIDE DEF e
  <1>2. b * s = a * s + e * s
    BY <1>1, SMT
  <1>3. a * s \in Int /\ b * s \in Int /\ e * s \in Int
    BY <1>1, SMT
  <1>4. s >= 0 => e * s >= 0
    BY <1>1, SMT
  <1>5. s <= 0 => e * s <= 0
    BY <1>1, SMT
  <1> QED
    BY <1>2, <1>3, <1>4, <1>5

LEMMA ImageFacts ==
  ASSUME NEW o \in OpType, NEW v \in Int
  PROVE  /\ Exact!Image(o, v) \in Int
         /\ o.op = "add" => Exact!Image(o, v) = v + o.arg
         /\ o.op = "mul" => Exact!Image(o, v) = v * o.arg
         /\ o.op \in {"add", "mul"} /\ o.arg \in Int
  <1>1. o.op \in {"add", "mul"} /\ o.arg \in Int
    BY DEF OpType
  <1>2. v * o.arg \in Int
    BY <1>1, SMT
  <1> QED
    BY <1>1, <1>2 DEF Exact!Image

\* What lies between two values is taken to what lies between their images.
LEMMA ImageBetween ==
  ASSUME NEW o \in OpType, NEW a \in Int, NEW x \in Int, NEW b \in Int, Between(a, x, b)
  PROVE  Between(Exact!Image(o, a), Exact!Image(o, x), Exact!Image(o, b))
  <1> DEFINE s == o.arg
  <1>1. s \in Int /\ o.op \in {"add", "mul"}
    BY ImageFacts
  <1>2. CASE o.op = "add"
    BY <1>1, <1>2, ImageFacts DEF Between
  <1>3. CASE o.op = "mul"
    <2>1. /\ Exact!Image(o, a) = a * s /\ Exact!Image(o, x) = x * s /\ Exact!Image(o, b) = b * s
      BY <1>3, ImageFacts
    <2> HIDE DEF s
    <2>2. ASSUME NEW u \in Int, NEW v \in Int, u <= v
          PROVE  /\ u * s \in Int /\ v * s \in Int
                 /\ s >= 0 => u * s <= v * s
                 /\ s <= 0 => v * s <= u * s
      BY <1>1, <2>2, TimesOrder
    <2>3. Between(a * s, x * s, b * s)
      BY <1>1, <2>2 DEF Between
    <2> QED
      BY <2>1, <2>3
  <1> QED
    BY <1>1, <1>2, <1>3

\* Operations by natural numbers keep the order.
LEMMA ImageOrder ==
  ASSUME NEW o \in OpType, Natural(o), NEW a \in Int, NEW b \in Int, a <= b
  PROVE  /\ Exact!Image(o, a) <= Exact!Image(o, b)
         /\ a >= 0 => Exact!Image(o, a) >= 0
  <1> DEFINE s == o.arg
  <1>1. s \in Nat /\ o.op \in {"add", "mul"}
    BY ImageFacts DEF Natural
  <1>2. CASE o.op = "add"
    BY <1>1, <1>2, ImageFacts
  <1>3. CASE o.op = "mul"
    <2>1. Exact!Image(o, a) = a * s /\ Exact!Image(o, b) = b * s
      BY <1>3, ImageFacts
    <2> HIDE DEF s
    <2>2. a * s <= b * s
      BY <1>1, TimesOrder
    <2>3. a >= 0 => a * s >= 0
      BY <1>1, SMT
    <2> QED
      BY <2>1, <2>2, <2>3
  <1> QED
    BY <1>1, <1>2, <1>3

-----------------------------------------------------------------------------
(* Chains of operations.                                                    *)

\* The values v passes through.
Run(ops, v) ==
  CHOOSE f : f = [i \in 0 .. Len(ops) |-> IF i = 0 THEN v ELSE Exact!Image(ops[i], f[i - 1])]

LEMMA RunIs ==
  ASSUME NEW ops \in Seq(OpType), NEW v \in Int
  PROVE  /\ Run(ops, v) \in [0 .. Len(ops) -> Int] /\ Run(ops, v)[0] = v
         /\ \A i \in 1 .. Len(ops) : Run(ops, v)[i] = Exact!Image(ops[i], Run(ops, v)[i - 1])
         /\ Exact!Through(ops, v) = Run(ops, v)[Len(ops)]
  <1> DEFINE n == Len(ops)
             P(f) == f = [i \in 0 .. n |-> IF i = 0 THEN v ELSE Exact!Image(ops[i], f[i - 1])]
             st == [i \in 1 .. n |-> [x \in Int |-> Exact!Image(ops[i], x)]]
  <1>0. n \in Nat /\ \A i \in 1 .. n : ops[i] \in OpType
    OBVIOUS
  <1>1. st \in [1 .. n -> [Int -> Int]]
    BY <1>0, ImageFacts
  <1>2. PICK f : Stepping(f, n, Int, v, st)
    <2> HIDE DEF st, n
    <2> QED
      BY <1>0, <1>1, StepsExist
  <1>3. f \in [0 .. n -> Int] /\ f[0] = v /\ \A i \in 1 .. n : f[i] = st[i][f[i - 1]]
    BY <1>2 DEF Stepping
  <1>4. \A i \in 1 .. n : f[i] = Exact!Image(ops[i], f[i - 1])
    <2> TAKE i \in 1 .. n
    <2>1. f[i - 1] \in Int
      BY <1>0, <1>3
    <2> QED
      BY <1>3, <2>1
  <1>5. P(f)
    <2> HIDE DEF n, st
    <2>1. \A i \in 0 .. n : f[i] = IF i = 0 THEN v ELSE Exact!Image(ops[i], f[i - 1])
      BY <1>0, <1>3, <1>4
    <2> QED
      BY <1>3, <2>1
  <1> DEFINE r == CHOOSE g : P(g)
  <1>6. P(r)
    BY <1>5
  <1>7. r = Run(ops, v)
    BY DEF Run
  <1>8. Exact!Through(ops, v) = r[n]
    BY DEF Exact!Through
  <1> HIDE DEF r, st
  <1>9. r = f
    <2> DEFINE S == {i \in 0 .. n : r[i] = f[i]}
    <2>1. \A i \in 0 .. n : r[i] = IF i = 0 THEN v ELSE Exact!Image(ops[i], r[i - 1])
      BY <1>6
    <2> HIDE DEF n
    <2>2. 0 \in S
      BY <1>0, <1>3, <2>1
    <2>3. ASSUME NEW m \in 1 .. n, m - 1 \in S  PROVE m \in S
      BY <1>0, <1>4, <2>1, <2>3
    <2> HIDE DEF S
    <2>4. S \in SUBSET (0 .. n)
      BY DEF S
    <2>5. S = 0 .. n
      BY <1>0, <2>2, <2>3, <2>4, UpTo
    <2>6. \A i \in 0 .. n : r[i] = f[i]
      BY <2>5 DEF S
    <2>7. DOMAIN r = 0 .. n
      BY <1>6
    <2>8. r = [i \in 0 .. n |-> r[i]] /\ f = [i \in 0 .. n |-> f[i]]
      BY <1>3, <1>6
    <2> QED
      BY <2>6, <2>8
  <1> QED
    BY <1>3, <1>4, <1>7, <1>8, <1>9

\* The operations before the last are run as they were.
LEMMA RunLonger ==
  ASSUME NEW ops \in Seq(OpType), NEW o \in OpType, NEW v \in Int
  PROVE  /\ \A i \in 0 .. Len(ops) : Run(Append(ops, o), v)[i] = Run(ops, v)[i]
         /\ Exact!Through(Append(ops, o), v) = Exact!Image(o, Exact!Through(ops, v))
  <1> DEFINE n == Len(ops)
             longer == Append(ops, o)
             r == Run(ops, v)
             g == Run(longer, v)
             S == {i \in 0 .. n : g[i] = r[i]}
  <1>1. /\ n \in Nat /\ longer \in Seq(OpType) /\ Len(longer) = n + 1 /\ longer[n + 1] = o
        /\ \A i \in 1 .. n : longer[i] = ops[i]
    OBVIOUS
  <1>2. r[0] = v /\ (\A i \in 1 .. n : r[i] = Exact!Image(ops[i], r[i - 1])) /\ Exact!Through(ops, v) = r[n]
    BY RunIs
  <1> HIDE DEF longer, r
  <1>3. /\ g[0] = v /\ (\A i \in 1 .. n + 1 : g[i] = Exact!Image(longer[i], g[i - 1]))
        /\ Exact!Through(longer, v) = g[n + 1]
    <2> HIDE DEF n
    <2>1. /\ g[0] = v /\ \A i \in 1 .. Len(longer) : g[i] = Exact!Image(longer[i], g[i - 1])
          /\ Exact!Through(longer, v) = g[Len(longer)]
      BY <1>1, RunIs
    <2> QED
      BY <1>1, <2>1
  <1> HIDE DEF g, n
  <1>4. 0 \in S
    BY <1>1, <1>2, <1>3
  <1>5. ASSUME NEW m \in 1 .. n, m - 1 \in S  PROVE m \in S
    <2>1. g[m] = Exact!Image(longer[m], g[m - 1]) /\ r[m] = Exact!Image(ops[m], r[m - 1])
      BY <1>1, <1>2, <1>3
    <2> QED
      BY <1>1, <1>5, <2>1
  <1>6. S = 0 .. n
    <2> HIDE DEF S
    <2>1. S \in SUBSET (0 .. n)
      BY DEF S
    <2> QED
      BY <1>1, <1>4, <1>5, <2>1, UpTo
  <1>7. g[n] = r[n]
    <2>1. n \in S
      BY <1>1, <1>6
    <2> QED
      BY <2>1
  <1>8. g[n + 1] = Exact!Image(o, r[n])
    <2>1. n + 1 \in 1 .. n + 1 /\ (n + 1) - 1 = n
      BY <1>1
    <2> QED
      BY <1>1, <1>3, <1>7, <2>1
  <1> QED
    BY <1>2, <1>3, <1>6, <1>8 DEF longer, g, r, n

\* A chain takes what lies between two values to what lies between their images.
LEMMA RunBetween ==
  ASSUME NEW ops \in Seq(OpType), NEW a \in Int, NEW x \in Int, NEW b \in Int, Between(a, x, b)
  PROVE  \A i \in 0 .. Len(ops) : Between(Run(ops, a)[i], Run(ops, x)[i], Run(ops, b)[i])
  <1> DEFINE n == Len(ops)
             S == {i \in 0 .. n : Between(Run(ops, a)[i], Run(ops, x)[i], Run(ops, b)[i])}
  <1>1. n \in Nat /\ \A i \in 1 .. n : ops[i] \in OpType
    OBVIOUS
  <1>2. ASSUME NEW v \in Int
        PROVE  /\ Run(ops, v) \in [0 .. n -> Int] /\ Run(ops, v)[0] = v
               /\ \A i \in 1 .. n : Run(ops, v)[i] = Exact!Image(ops[i], Run(ops, v)[i - 1])
    BY RunIs
  <1> HIDE DEF n
  <1>a. Run(ops, a)[0] = a /\ Run(ops, x)[0] = x /\ Run(ops, b)[0] = b
    BY <1>2
  <1>3. 0 \in S
    BY <1>1, <1>a
  <1>4. ASSUME NEW m \in 1 .. n, m - 1 \in S  PROVE m \in S
    <2>1. m - 1 \in 0 .. n /\ ops[m] \in OpType
      BY <1>1
    <2>2. Run(ops, a)[m - 1] \in Int /\ Run(ops, x)[m - 1] \in Int /\ Run(ops, b)[m - 1] \in Int
      BY <1>2, <2>1
    <2>3. Between(Run(ops, a)[m - 1], Run(ops, x)[m - 1], Run(ops, b)[m - 1])
      BY <1>4
    <2>4. /\ Run(ops, a)[m] = Exact!Image(ops[m], Run(ops, a)[m - 1])
          /\ Run(ops, x)[m] = Exact!Image(ops[m], Run(ops, x)[m - 1])
          /\ Run(ops, b)[m] = Exact!Image(ops[m], Run(ops, b)[m - 1])
      BY <1>2
    <2>5. Between(Run(ops, a)[m], Run(ops, x)[m], Run(ops, b)[m])
      BY <2>1, <2>2, <2>3, <2>4, ImageBetween
    <2> QED
      BY <1>1, <2>5
  <1> HIDE DEF S
  <1>5. S = 0 .. n
    <2>1. S \in SUBSET (0 .. n)
      BY DEF S
    <2> QED
      BY <1>1, <1>3, <1>4, <2>1, UpTo
  <1> QED
    BY <1>5 DEF S, n

\* A chain of operations by natural numbers keeps the order.
LEMMA RunOrder ==
  ASSUME NEW ops \in Seq(OpType), \A i \in 1 .. Len(ops) : Natural(ops[i]),
         NEW a \in Int, NEW b \in Int, 0 <= a, a <= b
  PROVE  \A i \in 0 .. Len(ops) : 0 <= Run(ops, a)[i] /\ Run(ops, a)[i] <= Run(ops, b)[i]
  <1> DEFINE n == Len(ops)
             S == {i \in 0 .. n : 0 <= Run(ops, a)[i] /\ Run(ops, a)[i] <= Run(ops, b)[i]}
  <1>1. n \in Nat /\ \A i \in 1 .. n : ops[i] \in OpType
    OBVIOUS
  <1>2. ASSUME NEW v \in Int
        PROVE  /\ Run(ops, v) \in [0 .. n -> Int] /\ Run(ops, v)[0] = v
               /\ \A i \in 1 .. n : Run(ops, v)[i] = Exact!Image(ops[i], Run(ops, v)[i - 1])
    BY RunIs
  <1>3. \A i \in 1 .. n : Natural(ops[i])
    OBVIOUS
  <1> HIDE DEF n
  <1>a. Run(ops, a)[0] = a /\ Run(ops, b)[0] = b
    BY <1>2
  <1>4. 0 \in S
    BY <1>1, <1>a
  <1>5. ASSUME NEW m \in 1 .. n, m - 1 \in S  PROVE m \in S
    <2>1. m - 1 \in 0 .. n /\ ops[m] \in OpType /\ Natural(ops[m])
      BY <1>1, <1>3
    <2>2. Run(ops, a)[m - 1] \in Int /\ Run(ops, b)[m - 1] \in Int
      BY <1>2, <2>1
    <2>3. 0 <= Run(ops, a)[m - 1] /\ Run(ops, a)[m - 1] <= Run(ops, b)[m - 1]
      BY <1>5
    <2>4. /\ Run(ops, a)[m] = Exact!Image(ops[m], Run(ops, a)[m - 1])
          /\ Run(ops, b)[m] = Exact!Image(ops[m], Run(ops, b)[m - 1])
      BY <1>2
    <2>5. 0 <= Run(ops, a)[m] /\ Run(ops, a)[m] <= Run(ops, b)[m]
      BY <2>1, <2>2, <2>3, <2>4, ImageOrder
    <2> QED
      BY <1>1, <2>5
  <1> HIDE DEF S
  <1>6. S = 0 .. n
    <2>1. S \in SUBSET (0 .. n)
      BY DEF S
    <2> QED
      BY <1>1, <1>4, <1>5, <2>1, UpTo
  <1> QED
    BY <1>6 DEF S, n

-----------------------------------------------------------------------------
(* Arithmetic on stored words.                                              *)

\* u and v differ by a multiple of n.
Congruent(u, v, n) == \E k \in Int : u = v + k * n

LEMMA CongruentMod ==
  ASSUME NEW n \in Nat \ {0}, NEW u, NEW v \in Int, Congruent(u, v, n)
  PROVE  u % n = v % n
  BY ModPlus DEF Congruent

LEMMA CongruentSum ==
  ASSUME NEW n \in Nat, NEW u \in Int, NEW v \in Int, NEW x \in Int, NEW y \in Int,
         Congruent(u, x, n), Congruent(v, y, n)
  PROVE  Congruent(u + v, x + y, n)
  <1>1. PICK j \in Int : u = x + j * n
    BY DEF Congruent
  <1>2. PICK k \in Int : v = y + k * n
    BY DEF Congruent
  <1>3. u + v = (x + y) + (j + k) * n
    BY <1>1, <1>2, SMT
  <1>4. j + k \in Int
    OBVIOUS
  <1> QED
    BY <1>3, <1>4 DEF Congruent

LEMMA CongruentProduct ==
  ASSUME NEW n \in Nat, NEW u \in Int, NEW v \in Int, NEW x \in Int, NEW y \in Int,
         Congruent(u, x, n), Congruent(v, y, n)
  PROVE  Congruent(u * v, x * y, n)
  <1>1. PICK j \in Int : u = x + j * n
    BY DEF Congruent
  <1>2. PICK k \in Int : v = y + k * n
    BY DEF Congruent
  <1> DEFINE m == j * v + x * k
  <1>3. m \in Int
    BY SMT
  <1>4. u * v = x * y + m * n
    <2>1. u * v = x * v + (j * n) * v
      BY <1>1, SMT
    <2>2. x * v = x * y + x * (k * n)
      BY <1>2, SMT
    <2>3. (j * n) * v = (j * v) * n /\ x * (k * n) = (x * k) * n
      BY SMT
    <2>4. m * n = (j * v) * n + (x * k) * n
      BY SMT
    <2>5. /\ u * v \in Int /\ x * v \in Int /\ x * y \in Int /\ (j * v) * n \in Int /\ (x * k) * n \in Int
          /\ (j * n) * v \in Int /\ x * (k * n) \in Int
      BY SMT
    <2> HIDE DEF m
    <2> QED
      BY <1>3, <2>1, <2>2, <2>3, <2>4, <2>5, SMT
  <1> HIDE DEF m
  <1> QED
    BY <1>3, <1>4 DEF Congruent

\* A word narrowed to a class differs from the number by a multiple of its words.
LEMMA RawCongruent ==
  ASSUME NEW c \in Classes, NEW w \in Classes, c <= w, NEW v \in Int
  PROVE  Raw(w, v) \in Int /\ Congruent(Raw(w, v), v, Pow(c))
  <1> DEFINE n == Pow(w)
             q == v \div n
             r == v % n
  <1>1. n \in Nat \ {0} /\ Pow(c) \in Nat
    BY PowFacts
  <1>2. PICK m \in Nat \ {0} : n = m * Pow(c)
    BY PowDivides
  <1> HIDE DEF n
  <1>3. q \in Int /\ v = q * n + r /\ r \in 0 .. n - 1
    BY <1>1, DivMod
  <1> HIDE DEF q, r
  <1> DEFINE k == -(q * m)
  <1>4. k \in Int
    BY <1>3, SMT
  <1>5. k * Pow(c) = -(q * n)
    BY <1>1, <1>2, <1>3, SMT
  <1>6. q * n \in Int
    BY <1>1, <1>3, SMT
  <1>7. r = v + k * Pow(c)
    <2> HIDE DEF k
    <2> QED
      BY <1>3, <1>5, <1>6
  <1> HIDE DEF k
  <1>8. r = Raw(w, v)
    BY DEF r, n, Raw
  <1> QED
    BY <1>1, <1>3, <1>4, <1>7, <1>8 DEF Congruent

\* So sums and products may be taken of the narrowed words.
LEMMA RawArithmetic ==
  ASSUME NEW c \in Classes, NEW x \in Int, NEW s \in Int
  PROVE  /\ Raw(c, Raw(c, x) + Raw(K, s)) = Raw(c, x + s)
         /\ Raw(c, Raw(c, x) * Raw(K, s)) = Raw(c, x * s)
  <1> DEFINE u == Raw(c, x)
             v == Raw(K, s)
             n == Pow(c)
  <1>1. c <= c /\ c <= K /\ K \in Classes
    BY ClassAssumption DEF Classes
  <1>2. u \in Int /\ Congruent(u, x, n) /\ v \in Int /\ Congruent(v, s, n)
    BY <1>1, RawCongruent
  <1>3. n \in Nat \ {0}
    BY PowFacts
  <1> HIDE DEF u, v, n
  <1>4. x + s \in Int /\ x * s \in Int /\ u + v \in Int /\ u * v \in Int
    BY <1>2, SMT
  <1>5. (u + v) % n = (x + s) % n
    BY <1>2, <1>3, <1>4, CongruentSum, CongruentMod
  <1>6. (u * v) % n = (x * s) % n
    BY <1>2, <1>3, <1>4, CongruentProduct, CongruentMod
  <1> QED
    BY <1>5, <1>6 DEF Raw, u, v, n

-----------------------------------------------------------------------------
(* One operation on a pool.                                                 *)

\* The words of q are those of p, with each number they stand for replaced by its image.
Imaged(p, q, o) ==
  \A i \in DOMAIN p.data, x \in Int :
    p.data[i] = Raw(Abs(p.size), x) => q.data[i] = Raw(Abs(p.size), Exact!Image(o, x))

\* The same kind of pool, of the same class and length.
Alongside(p, q) ==
  /\ Clean(q) /\ q.size = p.size /\ IsSigned(q) = IsSigned(p)
  /\ DOMAIN q.data = DOMAIN p.data /\ Count(q) = Count(p)

LEMMA AppliedEffect ==
  ASSUME NEW p, Clean(p), NEW o \in OpType
  PROVE  Alongside(p, Applied(p, o)) /\ Imaged(p, Applied(p, o), o)
  <1> DEFINE c == Abs(p.size)
             s == U64(o.arg)
             q == Applied(p, o)
  <1>1. /\ Honest(p) /\ InUse(p) /\ p.size \in Sizes /\ IsSigned(p) = (p.size < 0)
        /\ Count(p) \in Nat /\ DOMAIN p.data = 1 .. Count(p) /\ p.data \in Seq(Word)
    BY CleanFacts
  <1>2. c \in Classes /\ o.arg \in Int /\ o.op \in {"add", "mul"}
    BY <1>1, SizeFacts, ImageFacts
  <1>3. s \in Word /\ s = Raw(K, o.arg)
    BY <1>2, Conversions DEF U64
  <1> DEFINE f == IF o.op = "add" THEN [x \in Word |-> x + s] ELSE [x \in Word |-> x * s]
  <1>4. q = IF Count(p) = 0 THEN p ELSE Rewrite(DropFacts(p), f)
    BY <1>2 DEF Applied, AddScalar, MulScalar
  <1>5. InUse(q)
    BY <1>1, <1>2, <1>3, AddScalarInUse, MulScalarInUse DEF Applied
  <1> HIDE DEF q, s, c
  <1>6. CASE Count(p) = 0
    <2>1. q = p /\ DOMAIN p.data = {}
      BY <1>1, <1>4, <1>6
    <2> QED
      BY <2>1 DEF Alongside, Imaged, q
  <1>7. CASE Count(p) # 0
    <2>1. q = Rewrite(DropFacts(p), f)
      BY <1>4, <1>7
    <2> HIDE DEF f
    <2>2. Dropped(p, q, 1) /\ q.data = [i \in DOMAIN p.data |-> Raw(Abs(p.size), f[p.data[i]])]
      BY <1>1, <2>1, DroppedRewrite
    <2>3. Clean(q) /\ q.size = p.size
      BY <1>5, <2>2, DroppedColumn
    <2>4. IsSigned(q) = IsSigned(p)
      BY <1>1, <2>3, CleanFacts
    <2>5. DOMAIN q.data = DOMAIN p.data
      BY <2>2
    <2>6. Count(q) = Count(p)
      BY <1>1, <2>3, <2>5, CleanFacts
    <2>7. ASSUME NEW i \in DOMAIN p.data, NEW x \in Int, p.data[i] = Raw(c, x)
          PROVE  q.data[i] = Raw(c, Exact!Image(o, x))
      <3>1. q.data[i] = Raw(c, f[p.data[i]]) /\ p.data[i] \in Word
        BY <1>1, <2>2 DEF c
      <3>2. CASE o.op = "add"
        <4>1. f[p.data[i]] = p.data[i] + s
          BY <3>1, <3>2 DEF f
        <4>2. Exact!Image(o, x) = x + o.arg
          BY <3>2, ImageFacts
        <4>3. q.data[i] = Raw(c, Raw(c, x) + Raw(K, o.arg))
          BY <1>3, <2>7, <3>1, <4>1
        <4>4. Raw(c, Raw(c, x) + Raw(K, o.arg)) = Raw(c, x + o.arg)
          BY <1>2, <2>7, RawArithmetic
        <4> QED
          BY <4>2, <4>3, <4>4
      <3>3. CASE o.op = "mul"
        <4>1. f[p.data[i]] = p.data[i] * s
          BY <3>1, <3>3 DEF f
        <4>2. Exact!Image(o, x) = x * o.arg
          BY <3>3, ImageFacts
        <4>3. q.data[i] = Raw(c, Raw(c, x) * Raw(K, o.arg))
          BY <1>3, <2>7, <3>1, <4>1
        <4>4. Raw(c, Raw(c, x) * Raw(K, o.arg)) = Raw(c, x * o.arg)
          BY <1>2, <2>7, RawArithmetic
        <4> QED
          BY <4>2, <4>3, <4>4
      <3> QED
        BY <1>2, <3>2, <3>3
    <2>8. Imaged(p, q, o)
      BY <2>7 DEF Imaged, c
    <2> QED
      BY <2>3, <2>4, <2>5, <2>6, <2>8 DEF Alongside, q
  <1> QED
    BY <1>6, <1>7

\* The word of an element stands for the value it reads as.
LEMMA WordOfValue ==
  ASSUME NEW p, Clean(p), NEW i \in DOMAIN p.data
  PROVE  /\ Value(p, i) \in Int /\ p.data[i] = Raw(Abs(p.size), Value(p, i))
         /\ Holds(p.size, Value(p, i))
  <1> DEFINE c == Abs(p.size)
  <1>1. InUse(p) /\ p.size \in Sizes /\ IsSigned(p) = (p.size < 0) /\ Agrees(p)
    BY CleanFacts
  <1>2. /\ p.data[i] \in Nat /\ p.data[i] < Pow(c) /\ c \in Classes
        /\ p.size < 0 => /\ Value(p, i) = AsSigned(c, p.data[i])
                         /\ -Half[c] <= Value(p, i) /\ Value(p, i) < Half[c]
        /\ ~ p.size < 0 => Value(p, i) = IF "SIGNED" \in p.flags THEN I64(p.data[i]) ELSE p.data[i]
    BY <1>1, Reading
  <1>3. p.size \in Int /\ p.size # 0
    BY <1>1, ClassAssumption DEF Sizes
  <1>4. CASE p.size < 0
    <2>1. c = -p.size
      BY <1>3, <1>4 DEF Abs
    <2>2. Value(p, i) = AsSigned(c, p.data[i]) /\ -Half[c] <= Value(p, i) /\ Value(p, i) < Half[c]
      BY <1>2, <1>4
    <2>3. AsSigned(c, p.data[i]) \in Int
      BY <1>2, AsSignedRange
    <2>4. Raw(c, AsSigned(c, p.data[i])) = p.data[i]
      BY <1>2, RawSigned
    <2>5. Holds(p.size, Value(p, i))
      BY <1>4, <2>1, <2>2 DEF Holds
    <2> QED
      BY <2>2, <2>3, <2>4, <2>5
  <1>5. CASE ~ p.size < 0
    <2>1. c = p.size /\ Value(p, i) = p.data[i]
      BY <1>1, <1>2, <1>5 DEF Abs, Agrees
    <2>2. Raw(c, p.data[i]) = p.data[i]
      BY <1>2, RawSmall
    <2>3. Holds(p.size, Value(p, i))
      BY <1>2, <1>5, <2>1 DEF Holds
    <2> QED
      BY <1>2, <2>1, <2>2, <2>3
  <1> QED
    BY <1>4, <1>5

\* A word that stands for a number the class holds reads as that number.
LEMMA ValueOfWord ==
  ASSUME NEW q, Clean(q), NEW i \in DOMAIN q.data, NEW x \in Int, Holds(q.size, x),
         q.data[i] = Raw(Abs(q.size), x)
  PROVE  Value(q, i) = x
  <1>1. q.size \in Sizes /\ IsSigned(q) = (q.size < 0)
    BY CleanFacts
  <1>2. IF q.size < 0 THEN AsSigned(-q.size, Raw(Abs(q.size), x)) = x ELSE Raw(Abs(q.size), x) = x
    BY <1>1, ReadsBack DEF Holds
  <1> QED
    BY <1>1, <1>2 DEF Value, Get, GetSigned

-----------------------------------------------------------------------------
(* A chain on a pool.                                                       *)

\* The words of q stand for what x becomes of the values of p.
Standing(p, q, x) == \A i \in DOMAIN p.data : q.data[i] = Raw(Abs(p.size), x[i])

\* One more operation.
LEMMA StandingStep ==
  ASSUME NEW p, Clean(p), NEW q, Alongside(p, q), NEW x, Standing(p, q, x),
         NEW o \in OpType, NEW y,
         \A i \in DOMAIN p.data : x[i] \in Int /\ y[i] = Exact!Image(o, x[i])
  PROVE  Alongside(p, Applied(q, o)) /\ Standing(p, Applied(q, o), y)
  <1> DEFINE r == Applied(q, o)
  <1>1. Clean(q) /\ q.size = p.size /\ DOMAIN q.data = DOMAIN p.data
    BY DEF Alongside
  <1>2. Alongside(q, r) /\ Imaged(q, r, o)
    BY <1>1, AppliedEffect
  <1> HIDE DEF r
  <1>3. Alongside(p, r)
    BY <1>2 DEF Alongside
  <1>4. ASSUME NEW i \in DOMAIN p.data  PROVE r.data[i] = Raw(Abs(p.size), y[i])
    <2>1. q.data[i] = Raw(Abs(q.size), x[i]) /\ i \in DOMAIN q.data /\ x[i] \in Int
      BY <1>1 DEF Standing
    <2>2. r.data[i] = Raw(Abs(q.size), Exact!Image(o, x[i]))
      BY <1>2, <2>1 DEF Imaged
    <2> QED
      BY <1>1, <2>2
  <1> QED
    BY <1>3, <1>4 DEF Standing, r

LEMMA AllAppliedEffect ==
  ASSUME NEW p, Clean(p), NEW ops \in Seq(OpType)
  PROVE  /\ Alongside(p, AllApplied(p, ops))
         /\ Standing(p, AllApplied(p, ops), [i \in DOMAIN p.data |-> Exact!Through(ops, Value(p, i))])
  <1> DEFINE n == Len(ops)
             P(f) == f = [i \in 0 .. n |-> IF i = 0 THEN p ELSE Applied(f[i - 1], ops[i])]
             D == {q \in PoolType : Clean(q)}
             st == [i \in 1 .. n |-> [q \in D |-> Applied(q, ops[i])]]
             x(k) == [i \in DOMAIN p.data |-> Run(ops, Value(p, i))[k]]
  <1>0. n \in Nat /\ \A i \in 1 .. n : ops[i] \in OpType
    OBVIOUS
  <1>1. \A q : Clean(q) <=> q \in D
    BY CleanFacts DEF InUse
  <1> HIDE DEF D
  <1>2. st \in [1 .. n -> [D -> D]]
    <2>1. ASSUME NEW i \in 1 .. n, NEW q \in D  PROVE Applied(q, ops[i]) \in D
      BY <1>0, <1>1, AppliedEffect DEF Alongside
    <2> QED
      BY <2>1
  <1>3. PICK f : Stepping(f, n, D, p, st)
    <2> HIDE DEF st, n
    <2>1. p \in D
      BY <1>1
    <2> QED
      BY <1>0, <1>2, <2>1, StepsExist
  <1>4. f \in [0 .. n -> D] /\ f[0] = p /\ \A i \in 1 .. n : f[i] = st[i][f[i - 1]]
    BY <1>3 DEF Stepping
  <1>5. \A i \in 1 .. n : f[i] = Applied(f[i - 1], ops[i])
    <2> TAKE i \in 1 .. n
    <2>1. f[i - 1] \in D
      BY <1>0, <1>4
    <2> QED
      BY <1>4, <2>1
  <1> HIDE DEF st
  <1>6. P(f)
    <2> HIDE DEF n
    <2>1. \A i \in 0 .. n : f[i] = IF i = 0 THEN p ELSE Applied(f[i - 1], ops[i])
      BY <1>0, <1>4, <1>5
    <2> QED
      BY <1>4, <2>1
  <1> DEFINE r == CHOOSE g : P(g)
  <1>7. P(r)
    BY <1>6
  <1>8. AllApplied(p, ops) = r[n]
    BY DEF AllApplied
  <1> HIDE DEF r
  <1>9. \A i \in 0 .. n : r[i] = IF i = 0 THEN p ELSE Applied(r[i - 1], ops[i])
    BY <1>7
  <1>v. ASSUME NEW i \in DOMAIN p.data
        PROVE  /\ Value(p, i) \in Int
               /\ Run(ops, Value(p, i)) \in [0 .. n -> Int] /\ Run(ops, Value(p, i))[0] = Value(p, i)
               /\ \A k \in 1 .. n : Run(ops, Value(p, i))[k] = Exact!Image(ops[k], Run(ops, Value(p, i))[k - 1])
               /\ Exact!Through(ops, Value(p, i)) = Run(ops, Value(p, i))[n]
    <2>1. Value(p, i) \in Int
      BY WordOfValue
    <2> QED
      BY <2>1, RunIs
  <1> HIDE DEF n
  <1> DEFINE S == {k \in 0 .. n : Alongside(p, r[k]) /\ Standing(p, r[k], x(k))}
  <1>10. 0 \in S
    <2>1. r[0] = p
      BY <1>0, <1>9
    <2>2. Alongside(p, p)
      BY DEF Alongside
    <2>3. Standing(p, p, x(0))
      BY <1>v, WordOfValue DEF Standing
    <2> QED
      BY <1>0, <2>1, <2>2, <2>3
  <1>11. ASSUME NEW k \in 1 .. n, k - 1 \in S  PROVE k \in S
    <2>1. Alongside(p, r[k - 1]) /\ Standing(p, r[k - 1], x(k - 1)) /\ ops[k] \in OpType
      BY <1>0, <1>11
    <2>2. r[k] = Applied(r[k - 1], ops[k])
      BY <1>0, <1>9
    <2>3. \A i \in DOMAIN p.data : x(k - 1)[i] \in Int /\ x(k)[i] = Exact!Image(ops[k], x(k - 1)[i])
      <3> TAKE i \in DOMAIN p.data
      <3>1. k - 1 \in 0 .. n
        BY <1>0
      <3> QED
        BY <1>v, <3>1
    <2> DEFINE u == x(k - 1)
               w == x(k)
    <2>4. Standing(p, r[k - 1], u) /\ \A i \in DOMAIN p.data : u[i] \in Int /\ w[i] = Exact!Image(ops[k], u[i])
      BY <2>1, <2>3
    <2>5. Alongside(p, r[k]) /\ Standing(p, r[k], w)
      <3> HIDE DEF u, w
      <3> QED
        BY <2>1, <2>2, <2>4, StandingStep
    <2> QED
      BY <1>0, <2>5
  <1>12. S = 0 .. n
    <2> HIDE DEF S
    <2>1. S \in SUBSET (0 .. n)
      BY DEF S
    <2> QED
      BY <1>0, <1>10, <1>11, <2>1, UpTo
  <1>13. Alongside(p, r[n]) /\ Standing(p, r[n], x(n))
    <2>1. n \in S
      <3> HIDE DEF S
      <3>1. n \in 0 .. n
        BY <1>0
      <3> QED
        BY <1>12, <3>1
    <2> QED
      BY <2>1
  <1>14. x(n) = [i \in DOMAIN p.data |-> Exact!Through(ops, Value(p, i))]
    BY <1>v
  <1> DEFINE y == [i \in DOMAIN p.data |-> Exact!Through(ops, Value(p, i))]
             xn == x(n)
  <1>15. Standing(p, r[n], y)
    <2>1. xn = y /\ Standing(p, r[n], xn)
      BY <1>13, <1>14
    <2> HIDE DEF xn, y
    <2> QED
      BY <2>1
  <1> QED
    BY <1>8, <1>13, <1>15 DEF n

\* Every element becomes the number y says, exactly, if the class holds those numbers.
Becomes(p, q, y) ==
  /\ Clean(q) /\ IsSigned(q) = IsSigned(p) /\ q.size = p.size /\ Count(q) = Count(p)
  /\ Values(q) = [i \in DOMAIN Values(p) |-> y[i]]

LEMMA StandingBecomes ==
  ASSUME NEW p, Clean(p), NEW q, Alongside(p, q), NEW y, Standing(p, q, y),
         \A i \in DOMAIN p.data : y[i] \in Int /\ Holds(p.size, y[i])
  PROVE  Becomes(p, q, y)
  <1>1. /\ Clean(q) /\ q.size = p.size /\ IsSigned(q) = IsSigned(p)
        /\ DOMAIN q.data = DOMAIN p.data /\ Count(q) = Count(p)
    BY DEF Alongside
  <1>2. ASSUME NEW i \in DOMAIN p.data  PROVE Value(q, i) = y[i]
    <2>1. q.data[i] = Raw(Abs(q.size), y[i]) /\ Holds(q.size, y[i]) /\ y[i] \in Int /\ i \in DOMAIN q.data
      BY <1>1 DEF Standing
    <2> QED
      BY <1>1, <2>1, ValueOfWord
  <1>3. Values(q) = [i \in DOMAIN Values(p) |-> y[i]]
    <2>1. DOMAIN Values(p) = DOMAIN p.data
      BY ValuesDomain
    <2> QED
      BY <1>1, <1>2, <2>1 DEF Values
  <1> QED
    BY <1>1, <1>3 DEF Becomes
-----------------------------------------------------------------------------
(* Room for a range.                                                        *)

\* r is p with at least the class c, and no more than is needed; or p, for want of memory.
Roomy(p, r, c, ok) ==
  /\ Clean(r.pool) /\ SameColumn(p, r.pool) /\ r.ret \in BOOLEAN
  /\ r.ret => Abs(r.pool.size) = IF c <= Abs(p.size) THEN Abs(p.size) ELSE c
  /\ ~r.ret => r.pool = p /\ (~ok \/ TooLong(Count(p)))

LEMMA PromoteRoom ==
  ASSUME NEW p, Clean(p), Count(p) # 0, NEW size \in Sizes, IsSigned(p) = (size < 0),
         Abs(p.size) < Abs(size), NEW ok \in BOOLEAN, NEW r, r = Promote(p, size, ok)
  PROVE  Roomy(p, r, Abs(size), ok)
  <1>1. Clean(r.pool) /\ SameColumn(p, r.pool) /\ r.ret \in BOOLEAN /\ (r.ret => r.pool.size = size)
    BY PromoteColumn
  <1>2. /\ Abs(size) \in Classes /\ Abs(p.size) \in Classes /\ size # 0 /\ Abs(size) \in Int
        /\ Abs(p.size) \in Int
    <2>1. p.size \in Sizes
      BY CleanFacts
    <2>2. Abs(size) \in Classes /\ Abs(p.size) \in Classes
      BY <2>1, SizeFacts
    <2> QED
      BY <2>2 DEF Sizes, Classes
  <1>3. ASSUME ~r.ret  PROVE r.pool = p /\ (~ok \/ TooLong(Count(p)))
    <2>1. ~CanAlloc(ok, AlignUp(Count(p) * Bytes(size))) /\ r.pool = p
      BY <1>2, <1>3 DEF Promote, Result
    <2>2. Bytes(size) = ElemBytes[Abs(size)]
      BY <1>2 DEF Bytes
    <2>3. AlignUp(Count(p) * Bytes(size)) \in Int /\ Memory \in Int
      <3>1. Count(p) * Bytes(size) \in Nat
        BY CleanFacts, SizeFacts, SMT
      <3> QED
        BY <3>1, AlignUpBound, AddressAssumption
    <2>4. ~ok \/ AlignUp(Count(p) * ElemBytes[Abs(size)]) > Memory
      BY <2>1, <2>2, <2>3 DEF CanAlloc
    <2> QED
      BY <1>2, <2>1, <2>4 DEF TooLong
  <1>4. ~(Abs(size) <= Abs(p.size))
    BY <1>2
  <1> QED
    BY <1>1, <1>3, <1>4 DEF Roomy

LEMMA EnsureFits ==
  ASSUME NEW p, Clean(p), ~IsSigned(p), Count(p) # 0, NEW max \in Word, NEW ok \in BOOLEAN,
         NEW r, r = s2r_ensure_fits(p, max, ok)
  PROVE  /\ Roomy(p, r, Classify({max}), ok) /\ Classify({max}) \in Classes
         /\ max < Pow(Classify({max}))
  <1> DEFINE c == Classify({max})
  <1>1. c \in Classes /\ UFits(c, {max})
    <2>1. K \in Classes /\ Pow(K) \in Int
      BY Conversions, PowFacts
    <2>2. UFits(K, {max})
      BY <2>1 DEF UFits, Word
    <2> QED
      BY <2>1, <2>2, ClassifyFits
  <1>2. max < Pow(c)
    BY <1>1 DEF UFits
  <1>3. r = IF c <= Abs(p.size) THEN Result(p, TRUE) ELSE Promote(p, c, ok)
    BY DEF s2r_ensure_fits, Widen
  <1>4. /\ Abs(p.size) \in Classes /\ Abs(c) = c /\ c \in Sizes /\ (c < 0) = FALSE /\ c \in Int
        /\ Abs(p.size) \in Int
    <2>1. Abs(p.size) \in Classes /\ K \in Int
      BY CleanFacts, SizeFacts, ClassAssumption
    <2> QED
      BY <1>1, <2>1 DEF Sizes, Classes, Abs
  <1> HIDE DEF c
  <1>5. ASSUME c <= Abs(p.size)  PROVE Roomy(p, r, c, ok)
    BY <1>3, <1>5 DEF Roomy, Result, SameColumn
  <1>6. ASSUME ~(c <= Abs(p.size))  PROVE Roomy(p, r, c, ok)
    <2>1. r = Promote(p, c, ok) /\ Abs(p.size) < Abs(c)
      BY <1>3, <1>4, <1>6
    <2>2. IsSigned(p) = (c < 0)
      BY <1>4 DEF IsSigned
    <2>3. Roomy(p, r, Abs(c), ok)
      BY <1>4, <2>1, <2>2, PromoteRoom
    <2> QED
      BY <1>4, <2>3
  <1>7. Roomy(p, r, c, ok)
    BY <1>5, <1>6
  <1> QED
    BY <1>1, <1>2, <1>7 DEF c

LEMMA EnsureFitsSigned ==
  ASSUME NEW p, Clean(p), IsSigned(p), Count(p) # 0, NEW lo \in Int64, NEW hi \in Int64,
         NEW ok \in BOOLEAN, NEW r, r = s2r_ensure_fits_signed(p, lo, hi, ok)
  PROVE  LET c == -ClassifySigned({lo, hi}) IN
         /\ Roomy(p, r, c, ok) /\ c \in Classes /\ SFits(c, {lo, hi})
  <1> DEFINE need == ClassifySigned({lo, hi})
             c == -need
  <1>1. c \in Classes /\ SFits(c, {lo, hi}) /\ need \in Int
    <2>1. SFits(K, {lo, hi}) /\ K \in Classes
      BY Conversions DEF SFits, Int64
    <2> QED
      BY <2>1, ClassifySignedFits
  <1>3. r = IF Abs(need) <= Abs(p.size) THEN Result(p, TRUE) ELSE Promote(p, need, ok)
    BY DEF s2r_ensure_fits_signed, Widen
  <1> HIDE DEF need
  <1>4. /\ Abs(p.size) \in Classes /\ Abs(need) = c /\ need \in Sizes /\ (need < 0) = TRUE /\ c \in Int
        /\ Abs(p.size) \in Int
    <2>1. Abs(p.size) \in Classes /\ K \in Int
      BY CleanFacts, SizeFacts, ClassAssumption
    <2> QED
      BY <1>1, <2>1 DEF Sizes, Classes, Abs
  <1> HIDE DEF c
  <1>5. ASSUME c <= Abs(p.size)  PROVE Roomy(p, r, c, ok)
    BY <1>3, <1>4, <1>5 DEF Roomy, Result, SameColumn
  <1>6. ASSUME ~(c <= Abs(p.size))  PROVE Roomy(p, r, c, ok)
    <2>1. r = Promote(p, need, ok) /\ Abs(p.size) < Abs(need)
      BY <1>3, <1>4, <1>6
    <2>2. IsSigned(p) = (need < 0)
      BY <1>4, CleanFacts
    <2>3. Roomy(p, r, Abs(need), ok)
      BY <1>4, <2>1, <2>2, PromoteRoom
    <2> QED
      BY <1>4, <2>3
  <1>7. Roomy(p, r, c, ok)
    BY <1>5, <1>6
  <1> QED
    BY <1>1, <1>7 DEF c, need

\* What lies in the range then has room.
LEMMA RoomHolds ==
  ASSUME NEW p, Clean(p), NEW r, NEW c \in Classes, NEW ok, Roomy(p, r, c, ok), r.ret, NEW x \in Int,
         IF IsSigned(p) THEN -Half[c] <= x /\ x < Half[c] ELSE 0 <= x /\ x < Pow(c)
  PROVE  Holds(r.pool.size, x)
  <1> DEFINE q == r.pool
             w == Abs(q.size)
  <1>1. Clean(q) /\ IsSigned(q) = IsSigned(p) /\ w = IF c <= Abs(p.size) THEN Abs(p.size) ELSE c
    BY DEF Roomy, SameColumn
  <1>2. q.size \in Sizes /\ IsSigned(q) = (q.size < 0) /\ w \in Classes /\ Abs(p.size) \in Classes
    BY <1>1, CleanFacts, SizeFacts
  <1> HIDE DEF q, w
  <1>3. c = w \/ c < w
    BY <1>1, <1>2 DEF Classes
  <1>4. Half[c] <= Half[w] /\ Pow(c) <= Pow(w) /\ Half[c] \in Int /\ Half[w] \in Int /\ Pow(c) \in Int /\ Pow(w) \in Int
    <2>1. Half[c] \in Int /\ Half[w] \in Int /\ Pow(c) \in Int /\ Pow(w) \in Int
      BY <1>2, PowFacts
    <2> QED
      BY <1>2, <1>3, <2>1, Wider
  <1>5. CASE q.size < 0
    <2>1. w = -q.size
      BY <1>2, <1>5 DEF Abs, w
    <2>a. IsSigned(p)
      BY <1>1, <1>2, <1>5
    <2>b. -Half[c] <= x /\ x < Half[c]
      BY <2>a
    <2>2. -Half[w] <= x /\ x < Half[w]
      BY <1>4, <2>b
    <2> QED
      BY <1>5, <2>1, <2>2 DEF Holds, q
  <1>6. CASE ~ q.size < 0
    <2>1. w = q.size
      BY <1>2, <1>6 DEF Abs, w
    <2>a. ~IsSigned(p)
      BY <1>1, <1>2, <1>6
    <2>b. 0 <= x /\ x < Pow(c)
      BY <2>a
    <2>2. 0 <= x /\ x < Pow(w)
      BY <1>4, <2>b
    <2> QED
      BY <1>6, <2>1, <2>2 DEF Holds, q
  <1> QED
    BY <1>5, <1>6
-----------------------------------------------------------------------------
(* The range of a column.                                                   *)

\* lo and hi are elements and bound the others.
Spans(v, lo, hi) ==
  /\ lo \in Int /\ hi \in Int /\ lo <= hi
  /\ \E i, j \in DOMAIN v : v[i] = lo /\ v[j] = hi
  /\ \A i \in DOMAIN v : lo <= v[i] /\ v[i] <= hi

LEMMA SpanExists ==
  ASSUME NEW n \in Nat \ {0}, NEW v \in [1 .. n -> Int]
  PROVE  \E lo, hi \in Int : Spans(v, lo, hi)
  <1> DEFINE P(m) == \E i, j \in 1 .. m : \A k \in 1 .. m : v[i] <= v[k] /\ v[k] <= v[j]
             S == {m \in 0 .. n : m = 0 \/ P(m)}
  <1>1. 0 \in S
    OBVIOUS
  <1>2. ASSUME NEW m \in 1 .. n, m - 1 \in S  PROVE m \in S
    <2>1. v[m] \in Int /\ m \in 1 .. m /\ \A k \in 1 .. m : k = m \/ k \in 1 .. m - 1
      OBVIOUS
    <2>2. CASE m = 1
      <3>1. \A k \in 1 .. m : v[m] <= v[k] /\ v[k] <= v[m]
        BY <2>1, <2>2
      <3> QED
        BY <2>1, <3>1
    <2>3. CASE m # 1
      <3>1. PICK i, j \in 1 .. m - 1 : \A k \in 1 .. m - 1 : v[i] <= v[k] /\ v[k] <= v[j]
        BY <1>2, <2>3
      <3>2. v[i] \in Int /\ v[j] \in Int /\ i \in 1 .. m /\ j \in 1 .. m /\ \A k \in 1 .. m : v[k] \in Int
        OBVIOUS
      <3>3. PICK a \in 1 .. m : \A k \in 1 .. m : v[a] <= v[k]
        <4>1. CASE v[i] <= v[m]
          BY <2>1, <3>1, <3>2, <4>1
        <4>2. CASE ~(v[i] <= v[m])
          <5>1. \A k \in 1 .. m : v[m] <= v[k]
            BY <2>1, <3>1, <3>2, <4>2
          <5> QED
            BY <2>1, <5>1
        <4> QED
          BY <4>1, <4>2
      <3>4. PICK b \in 1 .. m : \A k \in 1 .. m : v[k] <= v[b]
        <4>1. CASE v[m] <= v[j]
          BY <2>1, <3>1, <3>2, <4>1
        <4>2. CASE ~(v[m] <= v[j])
          <5>1. \A k \in 1 .. m : v[k] <= v[m]
            BY <2>1, <3>1, <3>2, <4>2
          <5> QED
            BY <2>1, <5>1
        <4> QED
          BY <4>1, <4>2
      <3>5. a \in 1 .. m /\ b \in 1 .. m /\ \A k \in 1 .. m : v[a] <= v[k] /\ v[k] <= v[b]
        BY <3>3, <3>4
      <3>6. P(m)
        BY <3>5
      <3> HIDE DEF P
      <3> QED
        BY <3>6
    <2> QED
      BY <2>2, <2>3
  <1> HIDE DEF P
  <1>3. n \in S
    <2> HIDE DEF S
    <2>1. S \in SUBSET (0 .. n)
      BY DEF S
    <2>2. S = 0 .. n
      BY <1>1, <1>2, <2>1, UpTo
    <2> QED
      BY <2>2
  <1>4. P(n)
    BY <1>3
  <1>5. PICK i, j \in 1 .. n : \A k \in 1 .. n : v[i] <= v[k] /\ v[k] <= v[j]
    BY <1>4 DEF P
  <1>6. v[i] \in Int /\ v[j] \in Int /\ DOMAIN v = 1 .. n
    OBVIOUS
  <1>7. Spans(v, v[i], v[j])
    BY <1>5, <1>6 DEF Spans
  <1> QED
    BY <1>6, <1>7

\* The range of a column is unique, and is what the code and the promise take it to be.
LEMMA RangeOf ==
  ASSUME NEW p, Clean(p), Count(p) # 0
  PROVE  LET lo == Least(ValueSet(p))
             hi == Greatest(ValueSet(p))
         IN  /\ Spans(Values(p), lo, hi)
             /\ EndsOf(p) = {lo, hi} /\ Exact!Ends(Values(p)) = {lo, hi}
             /\ IsSigned(p) => Signeds(p) = ValueSet(p) /\ lo \in Int64 /\ hi \in Int64
             /\ ~IsSigned(p) => Raws(p) = ValueSet(p) /\ lo \in Word /\ hi \in Word
  <1> DEFINE n == Count(p)
             v == Values(p)
             S == ValueSet(p)
             lo == Least(S)
             hi == Greatest(S)
  <1>1. n \in Nat \ {0} /\ v \in [1 .. n -> Int] /\ DOMAIN p.data = 1 .. n /\ v # <<>> /\ DOMAIN v = 1 .. n
    BY CleanFacts
  <1>2. S = {v[i] : i \in DOMAIN v} /\ \A i \in DOMAIN p.data : v[i] = Value(p, i)
    BY ValuesDomain DEF ValueSet
  <1> HIDE DEF n, v, S
  <1>3. PICK a, b \in Int : Spans(v, a, b)
    BY <1>1, SpanExists
  <1>4. a <= b /\ a \in S /\ b \in S /\ \A w \in S : w \in Int /\ a <= w /\ w <= b
    BY <1>1, <1>2, <1>3 DEF Spans
  <1>5. lo = a
    <2>1. lo \in S /\ \A w \in S : lo <= w
      BY <1>4 DEF Least
    <2> HIDE DEF lo
    <2> QED
      BY <1>4, <2>1
  <1>6. hi = b
    <2>1. hi \in S /\ \A w \in S : w <= hi
      BY <1>4 DEF Greatest
    <2> HIDE DEF hi
    <2> QED
      BY <1>4, <2>1
  <1> HIDE DEF lo, hi
  <1>7. EndsOf(p) = {lo, hi}
    BY DEF EndsOf, lo, hi, S
  <1>8. Exact!Ends(v) = {lo, hi}
    <2>1. Exact!Ends(v) = {w \in S : (\A i \in DOMAIN v : w <= v[i]) \/ (\A i \in DOMAIN v : v[i] <= w)}
      BY <1>1, <1>2 DEF Exact!Ends
    <2>2. \A i \in DOMAIN v : a <= v[i] /\ v[i] <= b
      BY <1>3 DEF Spans
    <2>3. a \in Exact!Ends(v) /\ b \in Exact!Ends(v)
      BY <1>4, <2>1, <2>2
    <2>4. ASSUME NEW w \in Exact!Ends(v)  PROVE w \in {a, b}
      <3>1. w \in S /\ w \in Int
        BY <1>4, <2>1
      <3>2. PICK i, j \in DOMAIN v : v[i] = a /\ v[j] = b
        BY <1>3 DEF Spans
      <3>3. w <= a \/ b <= w
        BY <2>1, <3>2
      <3> QED
        BY <1>4, <3>1, <3>3
    <2> QED
      BY <1>5, <1>6, <2>3, <2>4
  <1>9. \A w \in S : \E i \in DOMAIN p.data : w = Value(p, i)
    BY DEF S, ValueSet
  <1>10. ASSUME IsSigned(p)  PROVE Signeds(p) = S /\ a \in Int64 /\ b \in Int64
    <2>1. Signeds(p) = S
      BY <1>10 DEF Signeds, S, ValueSet, Value
    <2>2. \A i \in DOMAIN p.data : Value(p, i) \in Int64
      BY <1>10, ValueRange, CleanFacts
    <2> QED
      BY <1>4, <1>9, <2>1, <2>2
  <1>11. ASSUME ~IsSigned(p)  PROVE Raws(p) = S /\ a \in Word /\ b \in Word
    <2>1. Raws(p) = S
      BY <1>11 DEF Raws, S, ValueSet, Value, Get
    <2>2. \A i \in DOMAIN p.data : Value(p, i) \in Word
      BY <1>11, ValueRange, CleanFacts
    <2> QED
      BY <1>4, <1>9, <2>1, <2>2
  <1>12. Spans(v, lo, hi)
    BY <1>3, <1>5, <1>6
  <1> QED
    BY <1>5, <1>6, <1>7, <1>8, <1>10, <1>11, <1>12 DEF lo, hi, S, v

LEMMA NoRange ==
  ASSUME NEW p, Clean(p), Count(p) = 0
  PROVE  EndsOf(p) = {0} /\ Exact!Ends(Values(p)) = {0} /\ Values(p) = <<>>
  <1>1. Values(p) = <<>>
    BY CleanFacts
  <1> QED
    BY <1>1 DEF EndsOf, Exact!Ends
-----------------------------------------------------------------------------
(* The overflow tests are exact.                                            *)

LEMMA SignedTest ==
  ASSUME NEW o \in OpType, NEW a \in Int64, NEW b \in Int64, a <= b
  PROVE  LET x == Exact!Image(o, a)
             y == Exact!Image(o, b)
             to == NextRange(<<a, b>>, o)
         IN  /\ Overflows(<<a, b>>, o) <=> ~(x \in Int64 /\ y \in Int64)
             /\ x \in Int64 /\ y \in Int64 =>
                  /\ to[1] <= to[2] /\ {to[1], to[2]} = {x, y}
                  /\ to[1] \in Int64 /\ to[2] \in Int64
  <1> DEFINE x == Exact!Image(o, a)
             y == Exact!Image(o, b)
             to == NextRange(<<a, b>>, o)
  <1>0. a \in Int /\ b \in Int /\ \A i \in Int64 : i \in Int
    BY Conversions DEF Int64
  <1>1. o.op \in {"add", "mul"} /\ o.arg \in Int /\ x \in Int /\ y \in Int
    BY <1>0, ImageFacts
  <1>2. \A i \in Int64 : Wrapped(i) = i
    BY SignedWord DEF Wrapped
  <1>3. CASE o.op = "add"
    <2>1. x = a + o.arg /\ y = b + o.arg
      BY <1>0, <1>3, ImageFacts
    <2>2. to = <<Wrapped(x), Wrapped(y)>>
      BY <1>3, <2>1 DEF NextRange
    <2>3. Overflows(<<a, b>>, o) <=> ~(x \in Int64 /\ y \in Int64)
      BY <1>3, <2>1 DEF Overflows, AddOverflows
    <2>4. x <= y
      BY <1>0, <1>1, <2>1
    <2> HIDE DEF x, y, to
    <2>5. ASSUME x \in Int64, y \in Int64  PROVE to = <<x, y>>
      BY <1>2, <2>2, <2>5
    <2>6. ASSUME x \in Int64, y \in Int64
          PROVE  to[1] <= to[2] /\ {to[1], to[2]} = {x, y} /\ to[1] \in Int64 /\ to[2] \in Int64
      BY <2>4, <2>5, <2>6
    <2> QED
      BY <2>3, <2>6 DEF x, y, to
  <1>4. CASE o.op = "mul"
    <2>1. x = a * o.arg /\ y = b * o.arg
      BY <1>0, <1>4, ImageFacts
    <2>2. to = Swapped(Wrapped(x), Wrapped(y))
      BY <1>4, <2>1 DEF NextRange
    <2>3. Overflows(<<a, b>>, o) <=> ~(x \in Int64 /\ y \in Int64)
      BY <1>4, <2>1 DEF Overflows, MulOverflows
    <2> HIDE DEF x, y, to
    <2>5. ASSUME x \in Int64, y \in Int64  PROVE to = IF x < y THEN <<x, y>> ELSE <<y, x>>
      BY <1>2, <2>2, <2>5 DEF Swapped
    <2>6. ASSUME x \in Int64, y \in Int64
          PROVE  to[1] <= to[2] /\ {to[1], to[2]} = {x, y} /\ to[1] \in Int64 /\ to[2] \in Int64
      <3>1. CASE x < y
        <4>1. to = <<x, y>>
          BY <2>5, <2>6, <3>1
        <4> QED
          BY <1>1, <2>6, <3>1, <4>1
      <3>2. CASE ~(x < y)
        <4>1. to = <<y, x>>
          BY <2>5, <2>6, <3>2
        <4> QED
          BY <1>1, <2>6, <3>2, <4>1
      <3> QED
        BY <3>1, <3>2
    <2> QED
      BY <2>3, <2>6 DEF x, y, to
  <1> QED
    BY <1>1, <1>3, <1>4

\* A product is within m exactly when a factor is within m divided by the other.
LEMMA DivisionTest ==
  ASSUME NEW a \in Nat \ {0}, NEW s \in Nat, NEW m \in Nat
  PROVE  a * s <= m <=> s <= m \div a
  <1> DEFINE q == m \div a
             r == m % a
  <1>1. q \in Int /\ m = q * a + r /\ r \in 0 .. a - 1
    BY DivMod
  <1> HIDE DEF q, r
  <1>2. a * s \in Int /\ q * a \in Int /\ (q + 1) * a \in Int /\ (q + 1) * a = q * a + a /\ a * s = s * a
    BY <1>1, SMT
  <1>3. ASSUME s <= q  PROVE a * s <= m
    <2>1. s * a <= q * a
      BY <1>1, <1>3, TimesOrder
    <2> QED
      BY <1>1, <1>2, <2>1
  <1>4. ASSUME ~(s <= q)  PROVE ~(a * s <= m)
    <2>1. q + 1 <= s /\ q + 1 \in Int
      BY <1>1, <1>4
    <2> DEFINE t == q + 1
    <2>2. t \in Int /\ t <= s
      BY <2>1
    <2>3. t * a <= s * a
      <3> HIDE DEF t
      <3> QED
        BY <2>2, TimesOrder
    <2>4. (q + 1) * a <= s * a
      BY <2>3
    <2> QED
      BY <1>1, <1>2, <2>4
  <1>5. s <= q <=> a * s <= m
    BY <1>3, <1>4
  <1> QED
    BY <1>5 DEF q

LEMMA UnsignedTest ==
  ASSUME NEW o \in OpType, o.arg \in Word, NEW a \in Word
  PROVE  LET x == Exact!Image(o, a) IN
         /\ x \in Nat /\ (Exceeds(a, o) <=> x \notin Word)
         /\ x \in Word => NextMax(a, o) = x
  <1> DEFINE x == Exact!Image(o, a)
             m == Pow(K) - 1
             s == o.arg
  <1>0. a \in Nat /\ s \in Nat /\ m \in Nat /\ Word = 0 .. m /\ K \in Classes
    BY Conversions, PowFacts DEF Word
  <1>1. o.op \in {"add", "mul"}
    BY ImageFacts
  <1>2. x \in Word => x \in Nat /\ x < Pow(K)
    BY <1>0, PowFacts
  <1>3. x \in Word => Raw(K, x) = x
    BY <1>0, <1>2, RawSmall
  <1>4. CASE o.op = "add"
    <2>1. x = a + s
      BY <1>0, <1>4, ImageFacts
    <2>2. NextMax(a, o) = Raw(K, x) /\ (Exceeds(a, o) <=> s > m - a)
      BY <1>4, <2>1 DEF NextMax, Exceeds, AddExceeds
    <2> HIDE DEF x, m, s
    <2>3. x \in Nat /\ (Exceeds(a, o) <=> x \notin Word)
      BY <1>0, <2>1, <2>2
    <2> QED
      BY <1>3, <2>2, <2>3 DEF x
  <1>5. CASE o.op = "mul"
    <2>1. x = a * s
      BY <1>0, <1>5, ImageFacts
    <2>2. NextMax(a, o) = Raw(K, x) /\ (Exceeds(a, o) <=> a # 0 /\ s > m \div a)
      BY <1>5, <2>1 DEF NextMax, Exceeds, MulExceeds
    <2> HIDE DEF x, m, s
    <2>3. x \in Nat
      BY <1>0, <2>1, SMT
    <2>4. Exceeds(a, o) <=> x \notin Word
      <3>1. CASE a = 0
        <4>1. x = 0
          BY <1>0, <2>1, <3>1, SMT
        <4> QED
          BY <1>0, <2>2, <3>1, <4>1
      <3>2. CASE a # 0
        <4>1. x <= m <=> s <= m \div a
          BY <1>0, <2>1, <3>2, DivisionTest
        <4>2. m \div a \in Int
          BY <1>0, <3>2, DivMod
        <4> QED
          BY <1>0, <2>2, <2>3, <3>2, <4>1, <4>2
      <3> QED
        BY <3>1, <3>2
    <2> QED
      BY <1>3, <2>2, <2>3, <2>4 DEF x
  <1> QED
    BY <1>1, <1>4, <1>5
-----------------------------------------------------------------------------
(* The safe calls.                                                          *)

LEMMA AppliedExactly ==
  ASSUME NEW q, Clean(q), NEW o \in OpType,
         \A i \in DOMAIN q.data : Holds(q.size, Exact!Image(o, Value(q, i)))
  PROVE  Becomes(q, Applied(q, o), [i \in DOMAIN q.data |-> Exact!Image(o, Value(q, i))])
  <1> DEFINE r == Applied(q, o)
             y == [i \in DOMAIN q.data |-> Exact!Image(o, Value(q, i))]
  <1>1. Alongside(q, r) /\ Imaged(q, r, o)
    BY AppliedEffect
  <1> HIDE DEF r
  <1>2. ASSUME NEW i \in DOMAIN q.data  PROVE y[i] \in Int /\ r.data[i] = Raw(Abs(q.size), y[i])
    <2>1. Value(q, i) \in Int /\ q.data[i] = Raw(Abs(q.size), Value(q, i))
      BY WordOfValue
    <2>2. r.data[i] = Raw(Abs(q.size), Exact!Image(o, Value(q, i)))
      BY <1>1, <2>1 DEF Imaged
    <2> QED
      BY <2>1, <2>2, ImageFacts
  <1>3. Standing(q, r, y)
    BY <1>2 DEF Standing
  <1>4. \A i \in DOMAIN q.data : y[i] \in Int /\ Holds(q.size, y[i])
    BY <1>2
  <1> HIDE DEF y
  <1>5. Becomes(q, r, y)
    BY <1>1, <1>3, <1>4, StandingBecomes
  <1> QED
    BY <1>5 DEF r, y

\* What a safe call does: every element is replaced by its image, or none is and there is a reason.
Fits(s, o, v) == \A i \in DOMAIN v : Exact!Representable(s, Exact!Image(o, v[i]))
Exactly(p, r, s, o, ok) ==
  /\ Clean(r.pool) /\ IsSigned(r.pool) = IsSigned(p) /\ r.ret \in BOOLEAN
  /\ Abs(p.size) <= Abs(r.pool.size)
  /\ r.ret => /\ s = IsSigned(p) /\ Fits(s, o, Values(p))
              /\ Values(r.pool) = [i \in DOMAIN Values(p) |-> Exact!Image(o, Values(p)[i])]
  /\ ~r.ret => /\ Values(r.pool) = Values(p)
               /\ s # IsSigned(p) \/ ~Fits(s, o, Values(p)) \/ ~ok \/ TooLong(Count(p))

LEMMA RefusedExactly ==
  ASSUME NEW p, Clean(p), NEW s \in BOOLEAN, NEW o, NEW ok \in BOOLEAN, NEW r, r = Result(p, FALSE),
         s # IsSigned(p) \/ ~Fits(s, o, Values(p)) \/ ~ok \/ TooLong(Count(p))
  PROVE  Exactly(p, r, s, o, ok)
  <1>1. Abs(p.size) \in Int /\ r.pool = p /\ r.ret = FALSE
    BY CleanFacts, SizeFacts DEF Classes, Result
  <1>2. Abs(p.size) <= Abs(r.pool.size) /\ Clean(r.pool) /\ IsSigned(r.pool) = IsSigned(p) /\ r.ret \in BOOLEAN
    <2>1. Abs(r.pool.size) = Abs(p.size)
      BY <1>1
    <2>2. Clean(r.pool)
      BY <1>1
    <2>3. IsSigned(r.pool) = IsSigned(p)
      BY <1>1
    <2>4. r.ret \in BOOLEAN
      BY <1>1
    <2>5. Abs(p.size) <= Abs(r.pool.size)
      <3> DEFINE a == Abs(p.size)
                 b == Abs(r.pool.size)
      <3>1. a \in Int /\ b = a
        BY <1>1, <2>1
      <3> HIDE DEF a, b
      <3>2. a <= b
        BY <3>1
      <3> QED
        BY <3>2 DEF a, b
    <2> QED
      BY <2>2, <2>3, <2>4, <2>5
  <1>3. Values(r.pool) = Values(p)
    BY <1>1
  <1> QED
    BY <1>1, <1>2, <1>3 DEF Exactly

LEMMA EmptyExactly ==
  ASSUME NEW p, Clean(p), Count(p) = 0, NEW s \in BOOLEAN, s = IsSigned(p), NEW o, NEW ok \in BOOLEAN,
         NEW r, r = Result(p, TRUE)
  PROVE  Exactly(p, r, s, o, ok)
  <1>1. Abs(p.size) \in Int /\ r.pool = p /\ r.ret = TRUE
    BY CleanFacts, SizeFacts DEF Classes, Result
  <1>2. Values(p) = <<>>
    BY NoRange
  <1>3. Fits(s, o, Values(p)) /\ [i \in DOMAIN Values(p) |-> Exact!Image(o, Values(p)[i])] = Values(p)
    BY <1>2 DEF Fits
  <1>4. Abs(p.size) <= Abs(r.pool.size) /\ Clean(r.pool) /\ IsSigned(r.pool) = IsSigned(p) /\ r.ret \in BOOLEAN
    <2>1. Abs(r.pool.size) = Abs(p.size)
      BY <1>1
    <2>2. Clean(r.pool)
      BY <1>1
    <2>3. IsSigned(r.pool) = IsSigned(p)
      BY <1>1
    <2>4. r.ret \in BOOLEAN
      BY <1>1
    <2>5. Abs(p.size) <= Abs(r.pool.size)
      <3> DEFINE a == Abs(p.size)
                 b == Abs(r.pool.size)
      <3>1. a \in Int /\ b = a
        BY <1>1, <2>1
      <3> HIDE DEF a, b
      <3>2. a <= b
        BY <3>1
      <3> QED
        BY <3>2 DEF a, b
    <2> QED
      BY <2>2, <2>3, <2>4, <2>5
  <1>5. Values(r.pool) = Values(p)
    BY <1>1
  <1> QED
    BY <1>1, <1>3, <1>4, <1>5 DEF Exactly

\* With room for the images of all elements the operation is exact.
LEMMA RoomyExactly ==
  ASSUME NEW p, Clean(p), NEW s \in BOOLEAN, s = IsSigned(p), NEW o \in OpType, NEW ok \in BOOLEAN,
         NEW room, NEW c \in Classes, Roomy(p, room, c, ok), room.ret,
         \A i \in DOMAIN p.data :
           LET x == Exact!Image(o, Value(p, i)) IN
           IF s THEN -Half[c] <= x /\ x < Half[c] ELSE 0 <= x /\ x < Pow(c),
         NEW r, r = Result(Applied(room.pool, o), TRUE)
  PROVE  Exactly(p, r, s, o, ok)
  <1> DEFINE q == room.pool
             y == [i \in DOMAIN q.data |-> Exact!Image(o, Value(q, i))]
             v == Values(p)
  <1>1. Clean(q) /\ Values(q) = v /\ IsSigned(q) = IsSigned(p)
    BY DEF Roomy, SameColumn
  <1>2. DOMAIN q.data = DOMAIN p.data /\ \A i \in DOMAIN p.data : Value(q, i) = Value(p, i)
    BY <1>1, SameValues
  <1>v. DOMAIN v = DOMAIN p.data /\ \A i \in DOMAIN p.data : v[i] = Value(p, i)
    BY ValuesDomain
  <1>3. ASSUME NEW i \in DOMAIN p.data
        PROVE  Exact!Image(o, Value(p, i)) \in Int /\ Holds(q.size, Exact!Image(o, Value(p, i)))
    <2> DEFINE x == Exact!Image(o, Value(p, i))
    <2>1. x \in Int
      BY WordOfValue, ImageFacts
    <2>2. IF IsSigned(p) THEN -Half[c] <= x /\ x < Half[c] ELSE 0 <= x /\ x < Pow(c)
      OBVIOUS
    <2> HIDE DEF x
    <2>3. Holds(q.size, x)
      BY <2>1, <2>2, RoomHolds
    <2> QED
      BY <2>1, <2>3 DEF x
  <1>4. Abs(p.size) <= Abs(q.size) /\ Abs(p.size) \in Int
    <2>1. Abs(p.size) \in Int /\ c \in Int
      BY CleanFacts, SizeFacts DEF Classes
    <2> QED
      BY <2>1 DEF Roomy
  <1> HIDE DEF q
  <1>5. Becomes(q, Applied(q, o), y)
    BY <1>1, <1>2, <1>3, AppliedExactly
  <1>6. Values(Applied(q, o)) = [i \in DOMAIN v |-> Exact!Image(o, v[i])]
    <2>1. Values(Applied(q, o)) = [i \in DOMAIN Values(q) |-> y[i]]
      BY <1>5 DEF Becomes
    <2>2. DOMAIN Values(q) = DOMAIN q.data
      BY ValuesDomain
    <2> QED
      BY <1>2, <1>v, <2>1, <2>2
  <1>7. Fits(s, o, v)
    <2> SUFFICES ASSUME NEW i \in DOMAIN v  PROVE Exact!Representable(s, Exact!Image(o, v[i]))
      BY DEF Fits
    <2> DEFINE x == Exact!Image(o, v[i])
    <2>1. x \in Int /\ IF s THEN -Half[c] <= x /\ x < Half[c] ELSE 0 <= x /\ x < Pow(c)
      BY <1>3, <1>v
    <2>2. Half[c] <= Half[K] /\ Half[c] \in Int /\ Half[K] \in Int /\ Pow(c) <= Pow(K) /\ Pow(c) \in Int /\ Pow(K) \in Int
      BY HalfMonotone, PowFacts, Conversions
    <2> HIDE DEF x
    <2>3. CASE s
      BY <2>1, <2>2, <2>3 DEF Exact!Representable, WidestLeast, WidestLargest, x
    <2>4. CASE ~s
      BY <2>1, <2>2, <2>4 DEF Exact!Representable, WidestLeast, WidestLargest, x
    <2> QED
      BY <2>3, <2>4
  <1>8. r.pool = Applied(q, o) /\ r.ret = TRUE
    BY DEF q, Result
  <1>9. Clean(r.pool) /\ IsSigned(r.pool) = IsSigned(p) /\ r.pool.size = q.size
    BY <1>1, <1>5, <1>8 DEF Becomes
  <1> QED
    BY <1>4, <1>6, <1>7, <1>8, <1>9 DEF Exactly

LEMMA SafeUnsignedExact ==
  ASSUME NEW p, Clean(p), NEW o \in OpType, o.arg \in Word, NEW ok \in BOOLEAN, NEW r, r = SafeUnsigned(p, o, ok)
  PROVE  Exactly(p, r, FALSE, o, ok)
  <1> DEFINE max == Greatest(Raws(p))
             room == s2r_ensure_fits(p, NextMax(max, o), ok)
             f == FALSE
  <1>1. IsSigned(p) \in BOOLEAN /\ f \in BOOLEAN
    BY CleanFacts
  <1>2. CASE IsSigned(p)
    <2>1. r = Result(p, FALSE) /\ f # IsSigned(p)
      BY <1>2 DEF SafeUnsigned
    <2> HIDE DEF f
    <2>2. Exactly(p, r, f, o, ok)
      BY <1>1, <2>1, RefusedExactly
    <2> QED
      BY <2>2 DEF f
  <1>3. CASE ~IsSigned(p) /\ Count(p) = 0
    <2>1. r = Result(p, TRUE) /\ f = IsSigned(p)
      BY <1>1, <1>3 DEF SafeUnsigned
    <2> HIDE DEF f
    <2>2. Exactly(p, r, f, o, ok)
      BY <1>1, <1>3, <2>1, EmptyExactly
    <2> QED
      BY <2>2 DEF f
  <1>4. CASE ~IsSigned(p) /\ Count(p) # 0
    <2>1. r = IF Exceeds(max, o) \/ ~room.ret THEN Result(p, FALSE) ELSE Result(Applied(room.pool, o), TRUE)
      BY <1>4 DEF SafeUnsigned
    <2>2. Spans(Values(p), Least(Raws(p)), max) /\ max \in Word
      BY <1>4, RangeOf
    <2>3. f = IsSigned(p)
      BY <1>1, <1>4
    <2> HIDE DEF f, max, room
    <2> DEFINE x == Exact!Image(o, max)
    <2>4. x \in Nat /\ (Exceeds(max, o) <=> x \notin Word) /\ (x \in Word => NextMax(max, o) = x)
      BY <2>2, UnsignedTest
    <2>5. ASSUME NEW i \in DOMAIN p.data
          PROVE  /\ Exact!Image(o, Value(p, i)) \in Int
                 /\ 0 <= Exact!Image(o, Value(p, i)) /\ Exact!Image(o, Value(p, i)) <= x
      <3>1. Value(p, i) \in Word /\ Value(p, i) <= max
        <4>1. Value(p, i) \in Word
          BY <1>4, ValueRange, CleanFacts
        <4> QED
          BY <2>2, <4>1, ValuesDomain DEF Spans
      <3>2. Value(p, i) \in Nat /\ max \in Int /\ Natural(o)
        <4>1. Word \subseteq Nat
          BY Conversions
        <4>2. o.arg \in Nat /\ max \in Nat /\ Value(p, i) \in Nat
          BY <2>2, <3>1, <4>1
        <4> QED
          BY <4>2 DEF Natural
      <3> QED
        BY <3>1, <3>2, ImageOrder, ImageFacts
    <2> HIDE DEF x
    <2>6. CASE Exceeds(max, o)
      <3>1. PICK i \in DOMAIN Values(p) : Values(p)[i] = max
        BY <2>2 DEF Spans
      <3>2. ~Exact!Representable(f, x)
        <4>1. Pow(K) \in Int
          BY PowFacts, Conversions
        <4> QED
          BY <1>4, <2>3, <2>4, <2>6, <4>1 DEF Exact!Representable, WidestLargest, Word
      <3>3. ~Fits(f, o, Values(p))
        BY <3>1, <3>2 DEF Fits, x
      <3>4. r = Result(p, FALSE)
        BY <2>1, <2>6
      <3>5. Exactly(p, r, f, o, ok)
        BY <1>1, <3>3, <3>4, RefusedExactly
      <3> QED
        BY <3>5 DEF f
    <2>7. CASE ~Exceeds(max, o)
      <3>1. x \in Word /\ room = s2r_ensure_fits(p, x, ok)
        BY <2>4, <2>7 DEF room
      <3> DEFINE c == Classify({x})
      <3>2. Roomy(p, room, c, ok) /\ c \in Classes /\ x < Pow(c)
        BY <1>4, <3>1, EnsureFits
      <3> HIDE DEF c
      <3>3. CASE room.ret
        <4>1. r = Result(Applied(room.pool, o), TRUE)
          BY <2>1, <2>7, <3>3
        <4>2. ASSUME NEW i \in DOMAIN p.data
              PROVE  LET y == Exact!Image(o, Value(p, i)) IN
                     IF f THEN -Half[c] <= y /\ y < Half[c] ELSE 0 <= y /\ y < Pow(c)
          <5>1. Pow(c) \in Int
            BY <3>2, PowFacts
          <5> QED
            BY <1>4, <2>3, <2>4, <2>5, <3>2, <5>1
        <4>3. Exactly(p, r, f, o, ok)
          BY <1>1, <2>3, <3>2, <3>3, <4>1, <4>2, RoomyExactly
        <4> QED
          BY <4>3 DEF f
      <3>4. CASE ~room.ret
        <4>1. r = Result(p, FALSE) /\ (~ok \/ TooLong(Count(p)))
          BY <2>1, <3>2, <3>4 DEF Roomy
        <4>2. Exactly(p, r, f, o, ok)
          BY <1>1, <4>1, RefusedExactly
        <4> QED
          BY <4>2 DEF f
      <3> QED
        BY <3>3, <3>4
    <2> QED
      BY <2>6, <2>7
  <1> QED
    BY <1>2, <1>3, <1>4
LEMMA SafeSignedExact ==
  ASSUME NEW p, Clean(p), NEW o \in OpType, NEW ok \in BOOLEAN, NEW r, r = SafeSigned(p, o, ok)
  PROVE  Exactly(p, r, TRUE, o, ok)
  <1> DEFINE lo == Least(Signeds(p))
             hi == Greatest(Signeds(p))
             to == NextRange(<<lo, hi>>, o)
             room == s2r_ensure_fits_signed(p, to[1], to[2], ok)
             f == TRUE
  <1>1. IsSigned(p) \in BOOLEAN /\ f \in BOOLEAN
    BY CleanFacts
  <1>2. CASE ~IsSigned(p)
    <2>1. r = Result(p, FALSE) /\ f # IsSigned(p)
      BY <1>2 DEF SafeSigned
    <2> HIDE DEF f
    <2>2. Exactly(p, r, f, o, ok)
      BY <1>1, <2>1, RefusedExactly
    <2> QED
      BY <2>2 DEF f
  <1>3. CASE IsSigned(p) /\ Count(p) = 0
    <2>1. r = Result(p, TRUE) /\ f = IsSigned(p)
      BY <1>1, <1>3 DEF SafeSigned
    <2> HIDE DEF f
    <2>2. Exactly(p, r, f, o, ok)
      BY <1>1, <1>3, <2>1, EmptyExactly
    <2> QED
      BY <2>2 DEF f
  <1>4. CASE IsSigned(p) /\ Count(p) # 0
    <2>1. r = IF Overflows(<<lo, hi>>, o) \/ ~room.ret THEN Result(p, FALSE)
              ELSE Result(Applied(room.pool, o), TRUE)
      BY <1>4 DEF SafeSigned
    <2>2. Spans(Values(p), lo, hi) /\ lo \in Int64 /\ hi \in Int64
      BY <1>4, RangeOf
    <2>3. f = IsSigned(p) /\ f
      BY <1>1, <1>4
    <2> HIDE DEF f, lo, hi
    <2> DEFINE x == Exact!Image(o, lo)
               y == Exact!Image(o, hi)
    <2>4. /\ Overflows(<<lo, hi>>, o) <=> ~(x \in Int64 /\ y \in Int64)
          /\ x \in Int64 /\ y \in Int64 =>
               to[1] <= to[2] /\ {to[1], to[2]} = {x, y} /\ to[1] \in Int64 /\ to[2] \in Int64
      <3>1. lo <= hi
        BY <2>2 DEF Spans
      <3> HIDE DEF to
      <3> QED
        BY <2>2, <3>1, SignedTest DEF to
    <2>5. ASSUME NEW i \in DOMAIN p.data
          PROVE  Exact!Image(o, Value(p, i)) \in Int /\ Between(x, Exact!Image(o, Value(p, i)), y)
      <3>1. Value(p, i) \in Int
        BY WordOfValue
      <3>2. lo <= Value(p, i) /\ Value(p, i) <= hi /\ lo \in Int /\ hi \in Int
        BY <2>2, ValuesDomain DEF Spans
      <3>3. Between(lo, Value(p, i), hi)
        BY <3>2 DEF Between
      <3> QED
        BY <3>1, <3>2, <3>3, ImageBetween, ImageFacts
    <2>x. x \in Int /\ y \in Int
      BY <2>2, ImageFacts DEF Spans
    <2> HIDE DEF x, y, to, room
    <2>6. CASE Overflows(<<lo, hi>>, o)
      <3>1. PICK i, j \in DOMAIN Values(p) : Values(p)[i] = lo /\ Values(p)[j] = hi
        BY <2>2 DEF Spans
      <3>2. ~Exact!Representable(f, x) \/ ~Exact!Representable(f, y)
        <4>1. Half[K] \in Int
          BY Conversions
        <4> QED
          BY <2>3, <2>4, <2>6, <2>x, <4>1 DEF Exact!Representable, WidestLargest, WidestLeast, Int64
      <3>3. ~Fits(f, o, Values(p))
        BY <3>1, <3>2 DEF Fits, x, y
      <3>4. r = Result(p, FALSE)
        BY <2>1, <2>6
      <3>5. Exactly(p, r, f, o, ok)
        BY <1>1, <3>3, <3>4, RefusedExactly
      <3> QED
        BY <3>5 DEF f
    <2>7. CASE ~Overflows(<<lo, hi>>, o)
      <3>1. to[1] <= to[2] /\ {to[1], to[2]} = {x, y} /\ to[1] \in Int64 /\ to[2] \in Int64
        BY <2>4, <2>7
      <3> DEFINE c == -ClassifySigned({to[1], to[2]})
      <3>2. Roomy(p, room, c, ok) /\ c \in Classes /\ SFits(c, {to[1], to[2]})
        BY <1>4, <3>1, EnsureFitsSigned DEF room
      <3> HIDE DEF c
      <3>a. -Half[c] <= x /\ x < Half[c] /\ -Half[c] <= y /\ y < Half[c]
        <4>1. SFits(c, {x, y})
          BY <3>1, <3>2
        <4> QED
          BY <4>1 DEF SFits
      <3>3. CASE room.ret
        <4>1. r = Result(Applied(room.pool, o), TRUE)
          BY <2>1, <2>7, <3>3
        <4>2. ASSUME NEW i \in DOMAIN p.data
              PROVE  LET z == Exact!Image(o, Value(p, i)) IN
                     IF f THEN -Half[c] <= z /\ z < Half[c] ELSE 0 <= z /\ z < Pow(c)
          <5> DEFINE z == Exact!Image(o, Value(p, i))
          <5>1. Half[c] \in Int
            BY <3>2, HalfMonotone
          <5>2. z \in Int /\ Between(x, z, y)
            BY <2>5
          <5> HIDE DEF z
          <5>3. -Half[c] <= z /\ z < Half[c]
            BY <2>x, <3>a, <5>1, <5>2 DEF Between
          <5> QED
            BY <2>3, <5>3 DEF z
        <4>3. Exactly(p, r, f, o, ok)
          BY <1>1, <2>3, <3>2, <3>3, <4>1, <4>2, RoomyExactly
        <4> QED
          BY <4>3 DEF f
      <3>4. CASE ~room.ret
        <4>1. r = Result(p, FALSE) /\ (~ok \/ TooLong(Count(p)))
          BY <2>1, <3>2, <3>4 DEF Roomy
        <4>2. Exactly(p, r, f, o, ok)
          BY <1>1, <4>1, RefusedExactly
        <4> QED
          BY <4>2 DEF f
      <3> QED
        BY <3>3, <3>4
    <2> QED
      BY <2>6, <2>7
  <1> QED
    BY <1>2, <1>3, <1>4
-----------------------------------------------------------------------------
(* The session.                                                             *)

\* The range a session carries is where its operations take the ends it began with;
\* they never left 64 bits on the way.
SignedSession(s, a, b) ==
  /\ a \in Int64 /\ b \in Int64 /\ a <= b /\ s.ends = {a, b}
  /\ \A i \in 0 .. Len(s.ops) : Run(s.ops, a)[i] \in Int64 /\ Run(s.ops, b)[i] \in Int64
  /\ s.vmin \in Int /\ s.vmax \in Int /\ s.vmin <= s.vmax
  /\ {s.vmin, s.vmax} = {Exact!Through(s.ops, a), Exact!Through(s.ops, b)}
UnsignedSession(s, a, b) ==
  /\ a \in Word /\ b \in Word /\ a <= b /\ s.ends = {a, b}
  /\ \A i \in 1 .. Len(s.ops) : s.ops[i].arg \in Word
  /\ \A i \in 0 .. Len(s.ops) : Run(s.ops, b)[i] \in Word
  /\ s.vmax = Exact!Through(s.ops, b)

LEMMA AppendFacts ==
  ASSUME NEW ops \in Seq(OpType), NEW o \in OpType
  PROVE  /\ Append(ops, o) \in Seq(OpType) /\ Len(ops) \in Nat /\ Len(Append(ops, o)) = Len(ops) + 1
         /\ Append(ops, o)[Len(ops) + 1] = o /\ \A i \in 1 .. Len(ops) : Append(ops, o)[i] = ops[i]
  OBVIOUS

\* A longer chain stays within S if the shorter one and the last value do.
LEMMA RunWithin ==
  ASSUME NEW ops \in Seq(OpType), NEW o \in OpType, NEW v \in Int, NEW S,
         \A i \in 0 .. Len(ops) : Run(ops, v)[i] \in S, Exact!Through(Append(ops, o), v) \in S
  PROVE  \A i \in 0 .. Len(Append(ops, o)) : Run(Append(ops, o), v)[i] \in S
  <1> DEFINE longer == Append(ops, o)
  <1>1. longer \in Seq(OpType) /\ Len(longer) = Len(ops) + 1 /\ Len(ops) \in Nat
    BY AppendFacts
  <1>2. \A i \in 0 .. Len(ops) : Run(longer, v)[i] = Run(ops, v)[i]
    BY RunLonger
  <1>3. Exact!Through(longer, v) = Run(longer, v)[Len(longer)]
    <2> HIDE DEF longer
    <2> QED
      BY <1>1, RunIs
  <1>4. Exact!Through(longer, v) \in S
    OBVIOUS
  <1> HIDE DEF longer
  <1>5. ASSUME NEW i \in 0 .. Len(longer)  PROVE Run(longer, v)[i] \in S
    <2>1. CASE i = Len(longer)
      BY <1>3, <1>4, <2>1
    <2>2. CASE i # Len(longer)
      <3>1. i \in 0 .. Len(ops)
        BY <1>1, <2>2
      <3> QED
        BY <1>2, <3>1
    <2> QED
      BY <2>1, <2>2
  <1> QED
    BY <1>5 DEF longer

LEMMA PairIs ==
  ASSUME NEW u, NEW v, NEW x, NEW y, {u, v} = {x, y}
  PROVE  (u = x /\ v = y) \/ (u = y /\ v = x)
  <1>1. u \in {x, y} /\ v \in {x, y}
    OBVIOUS
  <1>2. x \in {u, v} /\ y \in {u, v}
    OBVIOUS
  <1>3. (u = x \/ u = y) /\ (v = x \/ v = y)
    BY <1>1
  <1>4. (x = u \/ x = v) /\ (y = u \/ y = v)
    BY <1>2
  <1>5. CASE u = x
    <2>1. v = y
      BY <1>3, <1>4, <1>5
    <2> QED
      BY <1>5, <2>1
  <1>6. CASE u = y
    <2>1. v = x
      BY <1>3, <1>4, <1>6
    <2> QED
      BY <1>6, <2>1
  <1> QED
    BY <1>3, <1>5, <1>6

LEMMA SignedDefer ==
  ASSUME NEW s, s.ops \in Seq(OpType), NEW a, NEW b, SignedSession(s, a, b), NEW o \in OpType
  PROVE  LET r == <<s.vmin, s.vmax>>
             longer == Append(s.ops, o)
         IN  /\ Overflows(r, o) <=> ~ \A e \in s.ends : Exact!Through(longer, e) \in Int64
             /\ ~Overflows(r, o) =>
                  \A t : t.ops = longer /\ t.ends = s.ends
                         /\ t.vmin = NextRange(r, o)[1] /\ t.vmax = NextRange(r, o)[2]
                         => SignedSession(t, a, b)
  <1> DEFINE ops == s.ops
             longer == Append(ops, o)
             r == <<s.vmin, s.vmax>>
             to == NextRange(r, o)
             x == Exact!Image(o, s.vmin)
             y == Exact!Image(o, s.vmax)
  <1>1. /\ a \in Int64 /\ b \in Int64 /\ a \in Int /\ b \in Int /\ a <= b /\ s.ends = {a, b}
        /\ \A i \in 0 .. Len(ops) : Run(ops, a)[i] \in Int64 /\ Run(ops, b)[i] \in Int64
        /\ s.vmin <= s.vmax /\ {s.vmin, s.vmax} = {Exact!Through(ops, a), Exact!Through(ops, b)}
    <2>1. /\ a \in Int64 /\ b \in Int64 /\ a <= b /\ s.ends = {a, b}
          /\ \A i \in 0 .. Len(ops) : Run(ops, a)[i] \in Int64 /\ Run(ops, b)[i] \in Int64
          /\ s.vmin <= s.vmax /\ {s.vmin, s.vmax} = {Exact!Through(ops, a), Exact!Through(ops, b)}
      BY DEF SignedSession
    <2>2. a \in Int /\ b \in Int
      BY <2>1 DEF Int64
    <2> QED
      BY <2>1, <2>2
  <1>2. ASSUME NEW v \in {a, b}
        PROVE  Exact!Through(ops, v) \in Int64 /\ Exact!Through(longer, v) = Exact!Image(o, Exact!Through(ops, v))
    <2>1. v \in Int /\ Len(ops) \in 0 .. Len(ops)
      BY <1>1, AppendFacts
    <2>2. Exact!Through(ops, v) = Run(ops, v)[Len(ops)]
      BY <2>1, RunIs
    <2>3. Run(ops, v)[Len(ops)] \in Int64
      BY <1>1, <2>1
    <2> QED
      BY <2>1, <2>2, <2>3, RunLonger
  <1> DEFINE ta == Exact!Through(ops, a)
             tb == Exact!Through(ops, b)
             la == Exact!Through(longer, a)
             lb == Exact!Through(longer, b)
  <1>3. /\ ta \in Int64 /\ tb \in Int64 /\ la = Exact!Image(o, ta) /\ lb = Exact!Image(o, tb)
        /\ {s.vmin, s.vmax} = {ta, tb}
    BY <1>1, <1>2
  <1> HIDE DEF ta, tb
  <1>4. s.vmin \in Int64 /\ s.vmax \in Int64 /\ ((x = la /\ y = lb) \/ (x = lb /\ y = la))
    <2>1. (s.vmin = ta /\ s.vmax = tb) \/ (s.vmin = tb /\ s.vmax = ta)
      BY <1>3, PairIs
    <2> HIDE DEF la, lb
    <2> QED
      BY <1>3, <2>1
  <1> HIDE DEF la, lb
  <1>5. /\ Overflows(r, o) <=> ~(x \in Int64 /\ y \in Int64)
        /\ x \in Int64 /\ y \in Int64 =>
             to[1] <= to[2] /\ {to[1], to[2]} = {x, y} /\ to[1] \in Int64 /\ to[2] \in Int64
    BY <1>1, <1>4, SignedTest
  <1> HIDE DEF x, y, to
  <1>6. Overflows(r, o) <=> ~(la \in Int64 /\ lb \in Int64)
    BY <1>4, <1>5
  <1>7. (\A e \in s.ends : Exact!Through(longer, e) \in Int64) <=> (la \in Int64 /\ lb \in Int64)
    BY <1>1 DEF la, lb
  <1>8. ASSUME ~Overflows(r, o), NEW t, t.ops = longer, t.ends = s.ends, t.vmin = to[1], t.vmax = to[2]
        PROVE  SignedSession(t, a, b)
    <2>1. la \in Int64 /\ lb \in Int64
      BY <1>6, <1>8
    <2>2. \A i \in 0 .. Len(longer) : Run(longer, a)[i] \in Int64 /\ Run(longer, b)[i] \in Int64
      <3>1. \A i \in 0 .. Len(longer) : Run(longer, a)[i] \in Int64
        BY <1>1, <2>1, RunWithin DEF la
      <3>2. \A i \in 0 .. Len(longer) : Run(longer, b)[i] \in Int64
        BY <1>1, <2>1, RunWithin DEF lb
      <3> QED
        BY <3>1, <3>2
    <2>3. to[1] \in Int /\ to[2] \in Int /\ to[1] <= to[2] /\ {to[1], to[2]} = {la, lb}
      <3>1. x \in Int64 /\ y \in Int64 /\ {x, y} = {la, lb}
        BY <1>4, <2>1
      <3>2. to[1] <= to[2] /\ {to[1], to[2]} = {x, y} /\ to[1] \in Int64 /\ to[2] \in Int64
        BY <1>5, <3>1
      <3>3. to[1] \in Int /\ to[2] \in Int
        BY <3>2 DEF Int64
      <3> QED
        BY <3>1, <3>2, <3>3
    <2> HIDE DEF longer
    <2> QED
      BY <1>1, <1>8, <2>2, <2>3 DEF SignedSession, la, lb
  <1> QED
    BY <1>6, <1>7, <1>8 DEF to

LEMMA UnsignedDefer ==
  ASSUME NEW s, s.ops \in Seq(OpType), NEW a, NEW b, UnsignedSession(s, a, b), NEW o \in OpType,
         o.arg \in Word
  PROVE  LET longer == Append(s.ops, o) IN
         /\ Exceeds(s.vmax, o) <=> ~ \A e \in s.ends : Exact!Through(longer, e) \in Word
         /\ ~Exceeds(s.vmax, o) =>
              \A t : t.ops = longer /\ t.ends = s.ends /\ t.vmax = NextMax(s.vmax, o)
                     => UnsignedSession(t, a, b)
  <1> DEFINE ops == s.ops
             longer == Append(ops, o)
             n == Len(ops)
  <1>1. /\ a \in Word /\ b \in Word /\ a <= b /\ s.ends = {a, b}
        /\ \A i \in 1 .. n : ops[i].arg \in Word
        /\ \A i \in 0 .. n : Run(ops, b)[i] \in Word
        /\ s.vmax = Exact!Through(ops, b)
    BY DEF UnsignedSession
  <1>2. Word \subseteq Nat /\ a \in Int /\ b \in Int /\ 0 <= a
    BY <1>1, Conversions
  <1>3. longer \in Seq(OpType) /\ n \in Nat /\ Len(longer) = n + 1 /\ longer[n + 1] = o /\ \A i \in 1 .. n : longer[i] = ops[i]
    BY AppendFacts
  <1> DEFINE la == Exact!Through(longer, a)
             lb == Exact!Through(longer, b)
  <1>4. s.vmax \in Word /\ lb = Exact!Image(o, s.vmax)
    <2>1. Exact!Through(ops, b) = Run(ops, b)[n]
      BY <1>2, RunIs
    <2> QED
      BY <1>1, <1>2, <1>3, <2>1, RunLonger
  <1> HIDE DEF lb
  <1>5. lb \in Nat /\ (Exceeds(s.vmax, o) <=> lb \notin Word) /\ (lb \in Word => NextMax(s.vmax, o) = lb)
    BY <1>4, UnsignedTest
  <1>6. \A i \in 1 .. Len(longer) : longer[i].arg \in Word
    <2> HIDE DEF longer, n
    <2> TAKE i \in 1 .. Len(longer)
    <2>1. CASE i = n + 1
      BY <1>3, <2>1
    <2>2. CASE i # n + 1
      <3>1. i \in 1 .. n
        BY <1>3, <2>2
      <3> QED
        BY <1>1, <1>3, <3>1
    <2> QED
      BY <2>1, <2>2
  <1> HIDE DEF longer
  <1>7. 0 <= la /\ la <= lb /\ la \in Int
    <2>1. \A i \in 1 .. Len(longer) : Natural(longer[i])
      <3> TAKE i \in 1 .. Len(longer)
      <3>1. longer[i].arg \in Nat
        BY <1>2, <1>6
      <3> QED
        BY <3>1 DEF Natural
    <2>2. \A i \in 0 .. Len(longer) : 0 <= Run(longer, a)[i] /\ Run(longer, a)[i] <= Run(longer, b)[i]
      BY <1>1, <1>2, <1>3, <2>1, RunOrder
    <2>3. Len(longer) \in 0 .. Len(longer)
      BY <1>3
    <2>4. la = Run(longer, a)[Len(longer)] /\ Run(longer, a)[Len(longer)] \in Int
      BY <1>2, <1>3, <2>3, RunIs
    <2>5. lb = Run(longer, b)[Len(longer)]
      BY <1>2, <1>3, RunIs DEF lb
    <2> HIDE DEF la
    <2> QED
      BY <2>2, <2>3, <2>4, <2>5
  <1>8. (\A e \in s.ends : Exact!Through(longer, e) \in Word) <=> lb \in Word
    <2>1. (\A e \in s.ends : Exact!Through(longer, e) \in Word) <=> la \in Word /\ lb \in Word
      BY <1>1 DEF lb
    <2>2. lb \in Word => la \in Word
      <3>1. Pow(K) \in Int
        BY PowFacts, Conversions
      <3> HIDE DEF la
      <3> QED
        BY <1>7, <3>1 DEF Word
    <2> QED
      BY <2>1, <2>2
  <1>9. ASSUME ~Exceeds(s.vmax, o), NEW t, t.ops = longer, t.ends = s.ends, t.vmax = NextMax(s.vmax, o)
        PROVE  UnsignedSession(t, a, b)
    <2>1. lb \in Word /\ t.vmax = lb
      BY <1>5, <1>9
    <2>2. \A i \in 0 .. Len(longer) : Run(longer, b)[i] \in Word
      BY <1>1, <1>2, <2>1, RunWithin DEF lb, longer
    <2> QED
      BY <1>1, <1>6, <1>9, <2>1, <2>2 DEF UnsignedSession, lb
  <1> QED
    BY <1>5, <1>8, <1>9 DEF longer
\* An open session, on whatever pool.
SessionType ==
  [signed : BOOLEAN, ops : Seq(OpType), overflow : BOOLEAN, vmin : Int, vmax : Int, ends : SUBSET Int]
SessionOk(s) ==
  /\ s \in SessionType /\ Len(s.ops) <= MaxOps
  /\ \E a, b \in Int : IF s.signed THEN SignedSession(s, a, b) ELSE UnsignedSession(s, a, b)

LEMMA SessionFields ==
  ASSUME NEW s \in SessionType
  PROVE  /\ s.signed \in BOOLEAN /\ s.ops \in Seq(OpType) /\ s.overflow \in BOOLEAN
         /\ s.vmin \in Int /\ s.vmax \in Int /\ s.ends \in SUBSET Int /\ Len(s.ops) \in Nat
  BY DEF SessionType

LEMMA EmptyRun ==
  ASSUME NEW v \in Int
  PROVE  /\ <<>> \in Seq(OpType) /\ Len(<<>>) = 0
         /\ Run(<<>>, v)[0] = v /\ Exact!Through(<<>>, v) = v
  <1> DEFINE e == <<>>
  <1>1. e \in Seq(OpType) /\ Len(e) = 0
    OBVIOUS
  <1> HIDE DEF e
  <1>2. Run(e, v)[0] = v /\ Exact!Through(e, v) = v
    <2>1. Run(e, v)[0] = v /\ Exact!Through(e, v) = Run(e, v)[Len(e)]
      BY <1>1, RunIs
    <2> QED
      BY <1>1, <2>1
  <1> QED
    BY <1>1, <1>2 DEF e

\* A session begins well.
LEMMA BegunOk ==
  ASSUME NEW p, Clean(p)
  PROVE  /\ SessionOk(Session(IsSigned(p), p))
         /\ Session(IsSigned(p), p).signed = IsSigned(p)
         /\ Session(IsSigned(p), p).ops = <<>> /\ Session(IsSigned(p), p).overflow = FALSE
         /\ Session(IsSigned(p), p).ends = Exact!Ends(Values(p))
  <1> DEFINE g == IsSigned(p)
             s == Session(g, p)
             lo == Least(ValueSet(p))
             hi == Greatest(ValueSet(p))
  <1>0. g \in BOOLEAN
    BY CleanFacts
  <1>1. /\ s.signed = g /\ s.ops = <<>> /\ s.overflow = FALSE /\ s.ends = EndsOf(p)
        /\ s = [signed |-> g, ops |-> <<>>, overflow |-> FALSE, vmin |-> s.vmin, vmax |-> s.vmax, ends |-> EndsOf(p)]
    BY DEF Session
  <1>m. MaxOps \in Nat /\ <<>> \in Seq(OpType) /\ Len(<<>>) = 0
    BY LazyAssumption
  <1>2. CASE Count(p) = 0
    <2>1. EndsOf(p) = {0} /\ Exact!Ends(Values(p)) = {0}
      BY <1>2, NoRange
    <2>2. s.vmin = 0 /\ s.vmax = 0
      BY <1>2 DEF Session
    <2> HIDE DEF s, g
    <2>3. s \in SessionType
      <3>1. EndsOf(p) \in SUBSET Int /\ s.vmin \in Int /\ s.vmax \in Int
        BY <2>1, <2>2
      <3> QED
        BY <1>0, <1>1, <1>m, <3>1 DEF SessionType
    <2>4. 0 \in Word /\ 0 \in Int64 /\ 0 \in Int
      BY Conversions, PowFacts DEF Word, Int64
    <2>5. Run(s.ops, 0)[0] = 0 /\ Exact!Through(s.ops, 0) = 0 /\ Len(s.ops) = 0
      BY <1>1, EmptyRun
    <2> DEFINE z == 0
    <2>6. z \in Word /\ z \in Int64 /\ z \in Int /\ Run(s.ops, z)[0] = z /\ Exact!Through(s.ops, z) = z
      BY <2>4, <2>5
    <2>7. s.ends = {z, z} /\ s.vmin = z /\ s.vmax = z /\ z <= z /\ 0 .. Len(s.ops) = {0} /\ 1 .. Len(s.ops) = {}
      BY <1>1, <2>1, <2>2, <2>5
    <2> HIDE DEF z
    <2>8. SignedSession(s, z, z)
      BY <2>6, <2>7 DEF SignedSession
    <2>9. UnsignedSession(s, z, z)
      BY <2>6, <2>7 DEF UnsignedSession
    <2>10. SessionOk(s)
      BY <1>1, <1>m, <2>3, <2>6, <2>8, <2>9 DEF SessionOk
    <2> QED
      BY <1>1, <2>1, <2>10 DEF s, g
  <1>3. CASE Count(p) # 0
    <2>1. /\ Spans(Values(p), lo, hi) /\ EndsOf(p) = {lo, hi} /\ Exact!Ends(Values(p)) = {lo, hi}
          /\ g => Signeds(p) = ValueSet(p) /\ lo \in Int64 /\ hi \in Int64
          /\ ~g => Raws(p) = ValueSet(p) /\ lo \in Word /\ hi \in Word
      BY <1>3, RangeOf
    <2>2. /\ g => s.vmin = Least(Signeds(p)) /\ s.vmax = Greatest(Signeds(p))
          /\ ~g => s.vmin = 0 /\ s.vmax = Greatest(Raws(p))
      BY <1>3 DEF Session
    <2>3. (g => s.vmin = lo /\ s.vmax = hi) /\ (~g => s.vmin = 0 /\ s.vmax = hi)
      BY <2>1, <2>2
    <2> HIDE DEF s, g, lo, hi
    <2>4. lo \in Int /\ hi \in Int /\ lo <= hi
      BY <2>1 DEF Spans
    <2>5. s \in SessionType
      <3>1. s.vmin \in Int /\ s.vmax \in Int
        BY <1>0, <2>3, <2>4
      <3>2. EndsOf(p) \in SUBSET Int
        BY <2>1, <2>4
      <3> QED
        BY <1>0, <1>1, <1>m, <3>1, <3>2 DEF SessionType
    <2>6. /\ Run(s.ops, lo)[0] = lo /\ Exact!Through(s.ops, lo) = lo /\ Len(s.ops) = 0
          /\ Run(s.ops, hi)[0] = hi /\ Exact!Through(s.ops, hi) = hi
      BY <1>1, <2>4, EmptyRun
    <2>7. s.ends = {lo, hi} /\ 0 .. Len(s.ops) = {0} /\ 1 .. Len(s.ops) = {}
      BY <1>1, <2>1, <2>6
    <2>8. g => SignedSession(s, lo, hi)
      BY <2>1, <2>3, <2>4, <2>6, <2>7 DEF SignedSession
    <2>9. ~g => UnsignedSession(s, lo, hi)
      BY <2>1, <2>3, <2>4, <2>6, <2>7 DEF UnsignedSession
    <2>10. SessionOk(s)
      BY <1>0, <1>1, <1>m, <2>4, <2>5, <2>8, <2>9 DEF SessionOk
    <2> QED
      BY <1>1, <2>1, <2>10 DEF s, g
  <1> QED
    BY <1>2, <1>3

\* One more operation keeps it well, or is refused exactly when the promise says so.
LEMMA DeferredOk ==
  ASSUME SessionOk(d), NEW o \in OpType, d.signed => o.arg \in Int64, ~d.signed => o.arg \in Word
  PROVE  LET s == Deferred(o)
             longer == Append(d.ops, o)
             full == Len(d.ops) = MaxOps
             holds == \A v \in d.ends : Exact!Representable(d.signed, Exact!Through(longer, v))
         IN  /\ SessionOk(s) /\ s.signed = d.signed /\ s.ends = d.ends
             /\ full \/ ~holds => s.ops = d.ops /\ s.overflow = TRUE
             /\ ~(full \/ ~holds) => s.ops = longer /\ s.overflow = d.overflow
  <1> DEFINE s == Deferred(o)
             longer == Append(d.ops, o)
             full == Len(d.ops) = MaxOps
             holds == \A v \in d.ends : Exact!Representable(d.signed, Exact!Through(longer, v))
             r == <<d.vmin, d.vmax>>
             bad == IF d.signed THEN Overflows(r, o) ELSE Exceeds(d.vmax, o)
             W == IF d.signed THEN Int64 ELSE Word
  <1>1. d \in SessionType /\ Len(d.ops) <= MaxOps /\ MaxOps \in Nat
    BY LazyAssumption DEF SessionOk
  <1>2. /\ d.signed \in BOOLEAN /\ d.ops \in Seq(OpType) /\ d.overflow \in BOOLEAN
        /\ d.vmin \in Int /\ d.vmax \in Int /\ d.ends \in SUBSET Int /\ Len(d.ops) \in Nat
    BY <1>1, SessionFields
  <1>3. PICK a, b \in Int : IF d.signed THEN SignedSession(d, a, b) ELSE UnsignedSession(d, a, b)
    BY DEF SessionOk
  <1>4. longer \in Seq(OpType) /\ Len(longer) = Len(d.ops) + 1
    BY <1>2, AppendFacts
  <1> HIDE DEF longer
  <1>5. \A v \in d.ends : Exact!Through(longer, v) \in Int
    <2> TAKE v \in d.ends
    <2>1. v \in Int
      BY <1>2
    <2>2. Run(longer, v) \in [0 .. Len(longer) -> Int] /\ Exact!Through(longer, v) = Run(longer, v)[Len(longer)]
      BY <1>4, <2>1, RunIs
    <2>3. Len(longer) \in 0 .. Len(longer)
      BY <1>2, <1>4
    <2> QED
      BY <2>2, <2>3
  <1>6. holds <=> \A v \in d.ends : Exact!Through(longer, v) \in W
    <2>1. Half[K] \in Int /\ Pow(K) \in Int
      BY Conversions, PowFacts
    <2>2. ASSUME NEW x \in Int  PROVE Exact!Representable(d.signed, x) <=> x \in W
      <3>1. CASE d.signed
        BY <2>1, <3>1 DEF Exact!Representable, WidestLeast, WidestLargest, Int64
      <3>2. CASE ~d.signed
        BY <2>1, <3>2 DEF Exact!Representable, WidestLeast, WidestLargest, Word
      <3> QED
        BY <3>1, <3>2
    <2> HIDE DEF W
    <2> QED
      BY <1>5, <2>2
  <1>7. bad <=> ~holds
    <2>1. CASE d.signed
      <3>1. SignedSession(d, a, b)
        BY <1>3, <2>1
      <3>2. Overflows(r, o) <=> ~ \A e \in d.ends : Exact!Through(longer, e) \in Int64
        BY <1>2, <3>1, SignedDefer DEF longer
      <3>3. bad <=> Overflows(r, o)
        BY <2>1
      <3>4. W = Int64
        BY <2>1
      <3> HIDE DEF bad, holds, W
      <3> QED
        BY <1>6, <3>2, <3>3, <3>4
    <2>2. CASE ~d.signed
      <3>1. UnsignedSession(d, a, b)
        BY <1>3, <2>2
      <3>2. Exceeds(d.vmax, o) <=> ~ \A e \in d.ends : Exact!Through(longer, e) \in Word
        BY <1>2, <2>2, <3>1, UnsignedDefer DEF longer
      <3>3. bad <=> Exceeds(d.vmax, o)
        BY <2>2
      <3>4. W = Word
        BY <2>2
      <3> HIDE DEF bad, holds, W
      <3> QED
        BY <1>6, <3>2, <3>3, <3>4
    <2> QED
      BY <2>1, <2>2
  <1>8. Len(d.ops) >= MaxOps <=> full
    BY <1>1, <1>2
  <1>9. s = IF Len(d.ops) >= MaxOps \/ bad THEN [d EXCEPT !.overflow = TRUE]
            ELSE [d EXCEPT !.ops = longer, !.vmin = IF d.signed THEN NextRange(r, o)[1] ELSE @,
                           !.vmax = IF d.signed THEN NextRange(r, o)[2] ELSE NextMax(@, o)]
    BY DEF Deferred, longer
  <1> HIDE DEF holds, bad, full
  <1>10. CASE full \/ ~holds
    <2>1. s = [d EXCEPT !.overflow = TRUE]
      BY <1>7, <1>8, <1>9, <1>10
    <2> HIDE DEF s
    <2>2. /\ s \in SessionType /\ s.signed = d.signed /\ s.ops = d.ops /\ s.overflow = TRUE
          /\ s.vmin = d.vmin /\ s.vmax = d.vmax /\ s.ends = d.ends
      BY <1>1, <2>1 DEF SessionType
    <2>3. CASE d.signed
      <3>1. SignedSession(d, a, b)
        BY <1>3, <2>3
      <3>2. SignedSession(s, a, b)
        BY <2>2, <3>1 DEF SignedSession
      <3>3. SessionOk(s)
        BY <1>1, <2>2, <2>3, <3>2 DEF SessionOk
      <3> QED
        BY <1>10, <2>2, <3>3 DEF s, full, holds, longer
    <2>4. CASE ~d.signed
      <3>1. UnsignedSession(d, a, b)
        BY <1>3, <2>4
      <3>2. UnsignedSession(s, a, b)
        BY <2>2, <3>1 DEF UnsignedSession
      <3>3. SessionOk(s)
        BY <1>1, <2>2, <2>4, <3>2 DEF SessionOk
      <3> QED
        BY <1>10, <2>2, <3>3 DEF s, full, holds, longer
    <2> QED
      BY <2>3, <2>4
  <1>11. CASE ~(full \/ ~holds)
    <2>0. s = [d EXCEPT !.ops = longer, !.vmin = IF d.signed THEN NextRange(r, o)[1] ELSE @,
                        !.vmax = IF d.signed THEN NextRange(r, o)[2] ELSE NextMax(@, o)]
      BY <1>7, <1>8, <1>9, <1>11
    <2>l. Len(longer) <= MaxOps
      BY <1>1, <1>2, <1>4, <1>11 DEF full
    <2> HIDE DEF s, r
    <2>1. /\ s.signed = d.signed /\ s.ops = longer /\ s.overflow = d.overflow /\ s.ends = d.ends
          /\ s.vmin = IF d.signed THEN NextRange(r, o)[1] ELSE d.vmin
          /\ s.vmax = IF d.signed THEN NextRange(r, o)[2] ELSE NextMax(d.vmax, o)
          /\ s = [d EXCEPT !.ops = s.ops, !.vmin = s.vmin, !.vmax = s.vmax]
      BY <1>1, <2>0 DEF SessionType
    <2>3. CASE d.signed
      <3>1. SignedSession(d, a, b)
        BY <1>3, <2>3
      <3>2. ~Overflows(r, o)
        BY <1>7, <1>11, <2>3 DEF bad
      <3>a. s.vmin = NextRange(r, o)[1] /\ s.vmax = NextRange(r, o)[2]
        BY <2>1, <2>3
      <3>3. SignedSession(s, a, b)
        BY <1>2, <2>1, <3>1, <3>2, <3>a, SignedDefer DEF longer, r
      <3>4. s \in SessionType
        <4>1. s.vmin \in Int /\ s.vmax \in Int
          BY <3>3 DEF SignedSession
        <4> QED
          BY <1>1, <1>4, <2>1, <4>1 DEF SessionType
      <3>5. SessionOk(s)
        BY <2>1, <2>l, <2>3, <3>3, <3>4 DEF SessionOk
      <3> QED
        BY <1>11, <2>1, <3>5 DEF s, full, holds, longer
    <2>4. CASE ~d.signed
      <3>1. UnsignedSession(d, a, b)
        BY <1>3, <2>4
      <3>2. ~Exceeds(d.vmax, o)
        BY <1>7, <1>11, <2>4 DEF bad
      <3>a. s.vmax = NextMax(d.vmax, o)
        BY <2>1, <2>4
      <3>3. UnsignedSession(s, a, b)
        BY <1>2, <2>1, <2>4, <3>1, <3>2, <3>a, UnsignedDefer DEF longer
      <3>4. s \in SessionType
        <4>1. s.vmin = d.vmin
          BY <2>1, <2>4
        <4>2. s.vmax \in Int
          <5>1. Exact!Through(longer, b) \in Int /\ s.vmax = Exact!Through(longer, b)
            <6>1. b \in d.ends
              BY <3>1 DEF UnsignedSession
            <6> QED
              BY <1>5, <2>1, <3>3, <6>1 DEF UnsignedSession
          <5> QED
            BY <5>1
        <4> QED
          BY <1>1, <1>2, <1>4, <2>1, <4>1, <4>2 DEF SessionType
      <3>5. SessionOk(s)
        BY <2>1, <2>l, <2>4, <3>3, <3>4 DEF SessionOk
      <3> QED
        BY <1>11, <2>1, <3>5 DEF s, full, holds, longer
    <2> QED
      BY <2>3, <2>4
  <1> QED
    BY <1>10, <1>11
\* The range of a session that is open, as the classes see it.
LEMMA SessionRange ==
  ASSUME SessionOk(d), NEW x \in Int, \E u, v \in d.ends : u <= x /\ x <= v
  PROVE  /\ Exact!Through(d.ops, x) \in Int
         /\ d.signed => /\ d.vmin \in Int64 /\ d.vmax \in Int64
                        /\ d.vmin <= Exact!Through(d.ops, x) /\ Exact!Through(d.ops, x) <= d.vmax
         /\ ~d.signed => /\ d.vmax \in Word
                         /\ 0 <= Exact!Through(d.ops, x) /\ Exact!Through(d.ops, x) <= d.vmax
  <1> DEFINE n == Len(d.ops)
             t(v) == Exact!Through(d.ops, v)
  <1>1. d.ops \in Seq(OpType) /\ n \in Nat /\ n \in 0 .. n /\ d.vmin \in Int /\ d.vmax \in Int /\ d.signed \in BOOLEAN
    BY SessionFields DEF SessionOk
  <1>2. PICK a, b \in Int : IF d.signed THEN SignedSession(d, a, b) ELSE UnsignedSession(d, a, b)
    BY DEF SessionOk
  <1>3. ASSUME NEW v \in Int  PROVE t(v) \in Int /\ t(v) = Run(d.ops, v)[n]
    <2>1. Run(d.ops, v) \in [0 .. n -> Int] /\ t(v) = Run(d.ops, v)[n]
      BY <1>1, RunIs
    <2> QED
      BY <1>1, <2>1
  <1>4. a <= b /\ d.ends = {a, b}
    <2>1. CASE d.signed
      BY <1>2, <2>1 DEF SignedSession
    <2>2. CASE ~d.signed
      BY <1>2, <2>2 DEF UnsignedSession
    <2> QED
      BY <2>1, <2>2
  <1>5. a <= x /\ x <= b
    <2>1. PICK u, v \in d.ends : u <= x /\ x <= v
      OBVIOUS
    <2> QED
      BY <1>4, <2>1
  <1> DEFINE ta == t(a)
             tb == t(b)
             tx == t(x)
  <1>6. /\ ta \in Int /\ tb \in Int /\ tx \in Int
        /\ ta = Run(d.ops, a)[n] /\ tb = Run(d.ops, b)[n] /\ tx = Run(d.ops, x)[n]
    BY <1>3
  <1>7. CASE d.signed
    <2>1. SignedSession(d, a, b)
      BY <1>2, <1>7
    <2>2. d.vmin <= d.vmax /\ {d.vmin, d.vmax} = {ta, tb}
      BY <2>1 DEF SignedSession
    <2>3. ta \in Int64 /\ tb \in Int64
      <3>1. Run(d.ops, a)[n] \in Int64 /\ Run(d.ops, b)[n] \in Int64
        BY <1>1, <2>1 DEF SignedSession
      <3> QED
        BY <1>6, <3>1
    <2> HIDE DEF ta, tb
    <2>4. (d.vmin = ta /\ d.vmax = tb) \/ (d.vmin = tb /\ d.vmax = ta)
      BY <2>2, PairIs
    <2>5. Between(ta, tx, tb)
      <3>1. Between(a, x, b)
        BY <1>5 DEF Between
      <3>2. \A i \in 0 .. n : Between(Run(d.ops, a)[i], Run(d.ops, x)[i], Run(d.ops, b)[i])
        BY <1>1, <3>1, RunBetween
      <3>3. Between(Run(d.ops, a)[n], Run(d.ops, x)[n], Run(d.ops, b)[n])
        BY <1>1, <3>2
      <3> HIDE DEF tx
      <3> QED
        BY <1>6, <3>3
    <2> HIDE DEF tx
    <2>6. d.vmin <= tx /\ tx <= d.vmax /\ d.vmin \in Int64 /\ d.vmax \in Int64
      BY <1>6, <2>2, <2>3, <2>4, <2>5 DEF Between
    <2> QED
      BY <1>6, <1>7, <2>6 DEF tx
  <1>8. CASE ~d.signed
    <2>1. UnsignedSession(d, a, b)
      BY <1>2, <1>8
    <2>2. d.vmax = tb /\ a \in Word /\ \A i \in 1 .. n : d.ops[i].arg \in Word
      BY <2>1 DEF UnsignedSession
    <2>3. tb \in Word
      <3>1. Run(d.ops, b)[n] \in Word
        BY <1>1, <2>1 DEF UnsignedSession
      <3> QED
        BY <1>6, <3>1
    <2>4. \A i \in 1 .. n : Natural(d.ops[i])
      <3> TAKE i \in 1 .. n
      <3>1. d.ops[i].arg \in Nat
        BY <2>2, Conversions
      <3> QED
        BY <3>1 DEF Natural
    <2>5. 0 <= x
      <3>1. a \in Nat
        BY <2>2, Conversions
      <3> QED
        BY <1>5, <3>1
    <2>6. \A i \in 0 .. n : 0 <= Run(d.ops, x)[i] /\ Run(d.ops, x)[i] <= Run(d.ops, b)[i]
      BY <1>1, <1>5, <2>4, <2>5, RunOrder
    <2>7. 0 <= Run(d.ops, x)[n] /\ Run(d.ops, x)[n] <= Run(d.ops, b)[n]
      BY <1>1, <2>6
    <2> HIDE DEF ta, tb, tx
    <2>8. 0 <= tx /\ tx <= d.vmax /\ d.vmax \in Word
      BY <1>6, <2>2, <2>3, <2>7
    <2> QED
      BY <1>6, <1>8, <2>8 DEF tx
  <1> QED
    BY <1>1, <1>7, <1>8

\* The ends themselves are reached, so the class of a commit is one that is needed.
RangeFits(k) ==
  IF d.signed THEN -Half[k] <= d.vmin /\ d.vmin < Half[k] /\ -Half[k] <= d.vmax /\ d.vmax < Half[k]
  ELSE d.vmax < Pow(k)

Enclosed(ends, v) == \A i \in DOMAIN v : Exact!Within(ends, v[i])

\* A commit replaces every element of the range by what the chain makes of it, or leaves the column for a reason.
CommitExactly(r, ok) ==
  /\ Clean(r.pool) /\ IsSigned(r.pool) = IsSigned(pool) /\ r.ret \in BOOLEAN
  /\ r.ret => /\ ~d.overflow
              /\ DOMAIN Values(r.pool) = DOMAIN Values(pool)
              /\ \A i \in DOMAIN Values(pool) :
                   Exact!Within(d.ends, Values(pool)[i]) =>
                     Values(r.pool)[i] = Exact!Through(d.ops, Values(pool)[i])
              /\ \A k \in Classes :
                   Abs(pool.size) <= k /\ (Count(pool) # 0 => RangeFits(k)) => Abs(r.pool.size) <= k
  /\ ~r.ret => /\ Values(r.pool) = Values(pool)
               /\ d.overflow \/ d.signed # IsSigned(pool) \/ ~ok \/ TooLong(Count(pool))

LEMMA CommitRefused ==
  ASSUME Clean(pool), NEW ok \in BOOLEAN, NEW r, r = Result(pool, FALSE),
         d.overflow \/ d.signed # IsSigned(pool) \/ ~ok \/ TooLong(Count(pool))
  PROVE  CommitExactly(r, ok)
  <1>1. r.pool = pool /\ r.ret = FALSE
    BY DEF Result
  <1>2. Clean(r.pool) /\ IsSigned(r.pool) = IsSigned(pool)
    BY <1>1
  <1>3. Values(r.pool) = Values(pool)
    BY <1>1
  <1> QED
    BY <1>1, <1>2, <1>3 DEF CommitExactly

LEMMA CommitEmpty ==
  ASSUME Clean(pool), Count(pool) = 0, ~d.overflow, NEW ok \in BOOLEAN, NEW r, r = Result(pool, TRUE)
  PROVE  CommitExactly(r, ok)
  <1>1. r.pool = pool /\ r.ret = TRUE
    BY DEF Result
  <1>2. Clean(r.pool) /\ IsSigned(r.pool) = IsSigned(pool) /\ Abs(r.pool.size) = Abs(pool.size)
    BY <1>1
  <1>3. DOMAIN Values(r.pool) = DOMAIN Values(pool) /\ DOMAIN Values(pool) = {}
    <2>1. Values(r.pool) = Values(pool)
      BY <1>1
    <2>2. DOMAIN Values(pool) = DOMAIN pool.data /\ DOMAIN pool.data = 1 .. Count(pool)
      BY ValuesDomain, CleanFacts
    <2>3. Count(pool) = 0
      OBVIOUS
    <2>4. DOMAIN Values(pool) = 1 .. 0
      BY ONLY <2>2, <2>3
    <2>5. 1 .. 0 = {}
      BY ONLY SMT
    <2> QED
      BY ONLY <2>1, <2>4, <2>5
  <1> QED
    BY <1>1, <1>2, <1>3 DEF CommitExactly

\* With room for the range of the session every element is where the chain takes it.
LEMMA CommitRoomy ==
  ASSUME Clean(pool), SessionOk(d), ~d.overflow, d.signed = IsSigned(pool), Count(pool) # 0,
         NEW ok \in BOOLEAN, NEW room, NEW c \in Classes, Roomy(pool, room, c, ok), room.ret, RangeFits(c),
         \A k \in Classes : RangeFits(k) => c <= k,
         NEW r, r = Result(AllApplied(room.pool, d.ops), TRUE)
  PROVE  CommitExactly(r, ok)
  <1> DEFINE q == room.pool
             f == AllApplied(q, d.ops)
             v == Values(pool)
             y == [i \in DOMAIN q.data |-> Exact!Through(d.ops, Value(q, i))]
  <1>1. Clean(q) /\ Values(q) = v /\ IsSigned(q) = IsSigned(pool)
        /\ Abs(q.size) = IF c <= Abs(pool.size) THEN Abs(pool.size) ELSE c
    BY DEF Roomy, SameColumn
  <1>2. d.ops \in Seq(OpType)
    BY SessionFields DEF SessionOk
  <1>3. DOMAIN q.data = DOMAIN pool.data /\ \A i \in DOMAIN pool.data : Value(q, i) = Value(pool, i)
    BY <1>1, SameValues
  <1>4. DOMAIN v = DOMAIN pool.data /\ \A i \in DOMAIN pool.data : v[i] = Value(pool, i) /\ v[i] \in Int
    BY ValuesDomain, WordOfValue
  <1> HIDE DEF q
  <1>5. Alongside(q, f) /\ Standing(q, f, y)
    BY <1>1, <1>2, AllAppliedEffect
  <1> HIDE DEF f
  <1>6. Clean(f) /\ IsSigned(f) = IsSigned(pool) /\ f.size = q.size
    BY <1>1, <1>5 DEF Alongside
  <1>7. ASSUME NEW i \in DOMAIN v, Exact!Within(d.ends, v[i])
        PROVE  Values(f)[i] = Exact!Through(d.ops, v[i])
    <2> DEFINE x == v[i]
               tx == Exact!Through(d.ops, x)
    <2>1. x \in Int /\ i \in DOMAIN q.data /\ i \in DOMAIN pool.data
      BY <1>3, <1>4, <1>7
    <2>y. y[i] = tx
      BY <1>3, <1>4, <2>1
    <2>2. \E a, b \in d.ends : a <= x /\ x <= b
      BY <1>7 DEF Exact!Within
    <2> HIDE DEF x
    <2>3. /\ tx \in Int
          /\ d.signed => d.vmin \in Int64 /\ d.vmax \in Int64 /\ d.vmin <= tx /\ tx <= d.vmax
          /\ ~d.signed => d.vmax \in Word /\ 0 <= tx /\ tx <= d.vmax
      BY <2>1, <2>2, SessionRange
    <2> HIDE DEF tx
    <2>4. IF IsSigned(pool) THEN -Half[c] <= tx /\ tx < Half[c] ELSE 0 <= tx /\ tx < Pow(c)
      <3>1. Half[c] \in Int /\ Pow(c) \in Int /\ Half[K] \in Int /\ Pow(K) \in Int
        BY PowFacts, HalfMonotone, Conversions
      <3>2. CASE d.signed
        <4>1. -Half[c] <= tx /\ tx < Half[c]
          BY <2>3, <3>1, <3>2 DEF RangeFits, Int64
        <4> QED
          BY <3>2, <4>1
      <3>3. CASE ~d.signed
        <4>1. 0 <= tx /\ tx < Pow(c)
          BY <2>3, <3>1, <3>3 DEF RangeFits, Word
        <4> QED
          BY <3>3, <4>1
      <3> QED
        BY <3>2, <3>3
    <2>5. Holds(q.size, tx)
      <3>1. Holds(room.pool.size, tx)
        BY <2>3, <2>4, RoomHolds
      <3> QED
        BY <3>1 DEF q
    <2> HIDE DEF y
    <2>6. f.data[i] = Raw(Abs(f.size), tx) /\ f.size = q.size /\ Clean(f) /\ i \in DOMAIN f.data
      BY <1>5, <2>1, <2>y DEF Standing, Alongside
    <2>7. Value(f, i) = tx
      BY <2>3, <2>5, <2>6, ValueOfWord
    <2>8. Values(f)[i] = tx
      BY <2>6, <2>7 DEF Values
    <2> QED
      BY <2>8 DEF tx, x
  <1>d. DOMAIN Values(f) = DOMAIN v
    <2>1. DOMAIN f.data = DOMAIN q.data
      BY <1>5 DEF Alongside
    <2> QED
      BY <1>3, <1>4, <2>1 DEF Values
  <1>8. ASSUME NEW k \in Classes, Abs(pool.size) <= k, RangeFits(k)  PROVE Abs(f.size) <= k
    <2>1. c <= k
      BY <1>8
    <2> QED
      BY <1>1, <1>6, <1>8, <2>1
  <1>9. r.pool = f /\ r.ret = TRUE
    BY DEF Result, f, q
  <1> QED
    BY <1>6, <1>7, <1>8, <1>9, <1>d DEF CommitExactly

LEMMA CommittedExact ==
  ASSUME Clean(pool), SessionOk(d), ~d.signed => ~IsSigned(pool), NEW ok \in BOOLEAN, NEW r, r = Committed(ok)
  PROVE  CommitExactly(r, ok)
  <1> DEFINE room == IF d.signed THEN s2r_ensure_fits_signed(pool, d.vmin, d.vmax, ok)
                     ELSE s2r_ensure_fits(pool, d.vmax, ok)
  <1>1. r = IF d.overflow THEN Result(pool, FALSE)
            ELSE IF Count(pool) = 0 THEN Result(pool, TRUE)
            ELSE IF ~room.ret THEN Result(pool, FALSE)
            ELSE Result(AllApplied(room.pool, d.ops), TRUE)
    BY DEF Committed
  <1>2. d.signed \in BOOLEAN /\ d.overflow \in BOOLEAN /\ IsSigned(pool) \in BOOLEAN
    BY SessionFields, CleanFacts DEF SessionOk
  <1>3. CASE d.overflow
    <2>1. r = Result(pool, FALSE)
      BY <1>1, <1>3
    <2> QED
      BY <1>3, <2>1, CommitRefused
  <1>4. CASE ~d.overflow /\ Count(pool) = 0
    <2>1. r = Result(pool, TRUE)
      BY <1>1, <1>4
    <2> QED
      BY <1>4, <2>1, CommitEmpty
  <1>5. CASE ~d.overflow /\ Count(pool) # 0
    <2> HIDE DEF room
    <2>1. CASE d.signed /\ ~IsSigned(pool)
      <3>1. room.ret = FALSE
        BY <2>1 DEF room, s2r_ensure_fits_signed, Result
      <3>2. r = Result(pool, FALSE)
        BY <1>1, <1>5, <3>1
      <3>3. d.signed # IsSigned(pool)
        BY <2>1
      <3> QED
        BY <3>2, <3>3, CommitRefused
    <2>2. CASE d.signed = IsSigned(pool)
      <3>1. PICK e \in d.ends : e \in Int
        <4>1. PICK a, b \in Int : IF d.signed THEN SignedSession(d, a, b) ELSE UnsignedSession(d, a, b)
          BY DEF SessionOk
        <4>2. a \in d.ends
          <5>1. CASE d.signed
            BY <4>1, <5>1 DEF SignedSession
          <5>2. CASE ~d.signed
            BY <4>1, <5>2 DEF UnsignedSession
          <5> QED
            BY <5>1, <5>2
        <4> QED
          BY <4>2
      <3>2. (d.signed => d.vmin \in Int64 /\ d.vmax \in Int64) /\ (~d.signed => d.vmax \in Word)
        <4>1. e <= e
          BY <3>1
        <4>2. \E u, v \in d.ends : u <= e /\ e <= v
          BY <4>1
        <4> QED
          BY <3>1, <4>2, SessionRange
      <3> DEFINE c == IF d.signed THEN -ClassifySigned({d.vmin, d.vmax}) ELSE Classify({d.vmax})
      <3>3. /\ Roomy(pool, room, c, ok) /\ c \in Classes /\ RangeFits(c)
            /\ \A k \in Classes : RangeFits(k) => c <= k
        <4>1. CASE d.signed
          <5> DEFINE e2 == -ClassifySigned({d.vmin, d.vmax})
          <5>1. room = s2r_ensure_fits_signed(pool, d.vmin, d.vmax, ok) /\ c = e2
            BY <4>1 DEF room
          <5>2. IsSigned(pool)
            BY <2>2, <4>1
          <5>3. Roomy(pool, room, e2, ok) /\ e2 \in Classes /\ SFits(e2, {d.vmin, d.vmax})
            BY <1>5, <3>2, <4>1, <5>1, <5>2, EnsureFitsSigned
          <5>4. ASSUME NEW k \in Classes, RangeFits(k)  PROVE e2 <= k
            <6>1. SFits(k, {d.vmin, d.vmax})
              BY <4>1, <5>4 DEF RangeFits, SFits
            <6> QED
              BY <6>1, ClassifySignedLeast
          <5>5. RangeFits(e2)
            <6> HIDE DEF e2
            <6> QED
              BY <4>1, <5>3 DEF RangeFits, SFits
          <5> HIDE DEF c, e2
          <5>6. c = e2
            BY <5>1
          <5> QED
            BY <5>3, <5>4, <5>5, <5>6
        <4>2. CASE ~d.signed
          <5> DEFINE e2 == Classify({d.vmax})
          <5>1. room = s2r_ensure_fits(pool, d.vmax, ok) /\ c = e2
            BY <4>2 DEF room
          <5>2. ~IsSigned(pool)
            BY <4>2
          <5>3. Roomy(pool, room, e2, ok) /\ e2 \in Classes /\ d.vmax < Pow(e2)
            BY <1>5, <3>2, <4>2, <5>1, <5>2, EnsureFits
          <5>4. ASSUME NEW k \in Classes, RangeFits(k)  PROVE e2 <= k
            <6>1. UFits(k, {d.vmax})
              BY <4>2, <5>4 DEF RangeFits, UFits
            <6> QED
              BY <6>1, ClassifyLeast
          <5>5. RangeFits(e2)
            <6> HIDE DEF e2
            <6> QED
              BY <4>2, <5>3 DEF RangeFits
          <5> HIDE DEF c, e2
          <5>6. c = e2
            BY <5>1
          <5> QED
            BY <5>3, <5>4, <5>5, <5>6
        <4> QED
          BY <1>2, <4>1, <4>2
      <3> HIDE DEF c
      <3>4. CASE room.ret
        <4>1. r = Result(AllApplied(room.pool, d.ops), TRUE)
          BY <1>1, <1>5, <3>4
        <4> QED
          BY <1>5, <2>2, <3>3, <3>4, <4>1, CommitRoomy
      <3>5. CASE ~room.ret
        <4>1. r = Result(pool, FALSE) /\ (~ok \/ TooLong(Count(pool)))
          BY <1>1, <1>5, <3>3, <3>5 DEF Roomy
        <4> QED
          BY <4>1, CommitRefused
      <3> QED
        BY <3>4, <3>5
    <2>3. (d.signed /\ ~IsSigned(pool)) \/ d.signed = IsSigned(pool)
      <3>1. CASE d.signed
        BY <1>2, <3>1
      <3>2. CASE ~d.signed
        <4>1. ~IsSigned(pool)
          BY <3>2
        <4> QED
          BY <1>2, <3>2, <4>1
      <3> QED
        BY <3>1, <3>2
    <2> QED
      BY <2>1, <2>2, <2>3
  <1> QED
    BY <1>3, <1>4, <1>5

-----------------------------------------------------------------------------
(* The invariant: a clean pool and a session with its range, and never an    *)
(* unsigned session on a signed pool.                                        *)

LazyInv == Clean(pool) /\ SessionOk(d) /\ (~d.signed => ~IsSigned(pool))

\* A fit leaves a pool of its kind, signed only if it was.
LEMMA FittedClean ==
  ASSUME NEW p, Clean(p), NEW q, Onward(p, q), Fitted(p, q),
         q = p \/ IsSigned(p) = (q.size < 0) \/ IsSigned(p)
  PROVE  Clean(q) /\ (IsSigned(q) => IsSigned(p))
  <1>1. Honest(p) /\ Honest(q) /\ IsSigned(p) \in BOOLEAN
    BY CleanFacts DEF Onward
  <1>2. CASE q = p
    BY <1>2
  <1>3. CASE q # p
    <2>1. q.flags = Resigned(p.flags, q.size)
      BY <1>3 DEF Fitted
    <2>2. Clean(q)
      BY <1>1, <2>1 DEF Resigned, SignFlag, Clean
    <2>3. IsSigned(q) = (q.size < 0)
      BY <2>2, CleanFacts
    <2> QED
      BY <1>1, <1>3, <2>2, <2>3
  <1> QED
    BY <1>2, <1>3

LEMMA HealedClean ==
  ASSUME Clean(pool), Healed
  PROVE  /\ Clean(pool') /\ (IsSigned(pool') => IsSigned(pool))
         /\ call' = [name |-> "other", arg |-> 0, ok |-> TRUE] /\ d' = d
  <1>1. Honest(pool) /\ InUse(pool) /\ "EXTERNAL" \notin pool.flags
    BY CleanFacts
  <1> DEFINE q == FitClass(pool, TRUE).pool
             r == FitClassSignedness(pool, TRUE).pool
  <1>2. InUse(q) /\ InUse(r)
    BY <1>1, FitClassInUse, FitClassSignednessInUse
  <1>3. Fitted(pool, q) /\ (q = pool \/ IsSigned(pool) = (q.size < 0) \/ IsSigned(pool))
    BY <1>1, FitClassEffect
  <1>4. Fitted(pool, r) /\ (r = pool \/ IsSigned(pool) = (r.size < 0) \/ IsSigned(pool))
    BY <1>1, FitClassSignednessEffect
  <1>5. /\ pool' = q \/ pool' = r
        /\ call' = [name |-> "other", arg |-> 0, ok |-> TRUE] /\ d' = d
    BY DEF Healed, Elsewhere, Called
  <1> HIDE DEF q, r
  <1>6. Onward(pool, q) /\ Onward(pool, r)
    BY <1>1, <1>2, <1>3, <1>4, FittedOnward
  <1>7. Clean(q) /\ (IsSigned(q) => IsSigned(pool))
    BY <1>3, <1>6, FittedClean
  <1>8. Clean(r) /\ (IsSigned(r) => IsSigned(pool))
    BY <1>4, <1>6, FittedClean
  <1> QED
    BY <1>5, <1>7, <1>8

LEMMA EditedClean ==
  ASSUME Clean(pool), Edited
  PROVE  /\ Clean(pool') /\ (IsSigned(pool') => IsSigned(pool))
         /\ call' = [name |-> "other", arg |-> 0, ok |-> TRUE] /\ d' = d
  <1>1. CASE \E v \in Pushes : Elsewhere(PushAdaptive(pool, v, TRUE, TRUE).pool)
    <2>1. PICK v \in Pushes : Elsewhere(PushAdaptive(pool, v, TRUE, TRUE).pool)
      BY <1>1
    <2> DEFINE r == PushAdaptive(pool, v, TRUE, TRUE)
    <2>2. v \in Word /\ TRUE \in BOOLEAN
      BY LazyAssumption
    <2>3. /\ pool' = r.pool /\ r = PushAdaptive(pool, v, TRUE, TRUE)
          /\ call' = [name |-> "other", arg |-> 0, ok |-> TRUE] /\ d' = d
      BY <2>1 DEF Elsewhere, Called
    <2> HIDE DEF r
    <2>4. /\ Clean(r.pool)
          /\ \/ IsSigned(pool) /\ r.ret = "INVALID" /\ SameColumn(pool, r.pool)
             \/ ~IsSigned(pool) /\ r.ret = "OK" /\ Lengthens(pool, r.pool, v)
             \/ ~IsSigned(pool) /\ r.ret = "OOM" /\ SameColumn(pool, r.pool)
      BY <2>2, <2>3, PushAdaptiveColumn
    <2>5. IsSigned(r.pool) = IsSigned(pool)
      BY <2>4 DEF SameColumn, Lengthens
    <2> QED
      BY <2>3, <2>4, <2>5
  <1>2. CASE \E v \in Pushes : Elsewhere(PushSignedAdaptive(pool, I64(v), TRUE, TRUE).pool)
    <2>1. PICK v \in Pushes : Elsewhere(PushSignedAdaptive(pool, I64(v), TRUE, TRUE).pool)
      BY <1>2
    <2> DEFINE x == I64(v)
               r == PushSignedAdaptive(pool, x, TRUE, TRUE)
    <2>2. x \in Int64 /\ TRUE \in BOOLEAN
      BY LazyAssumption, Conversions
    <2>3. /\ pool' = r.pool /\ r = PushSignedAdaptive(pool, x, TRUE, TRUE)
          /\ call' = [name |-> "other", arg |-> 0, ok |-> TRUE] /\ d' = d
      BY <2>1 DEF Elsewhere, Called
    <2> HIDE DEF x, r
    <2>4. /\ Clean(r.pool)
          /\ \/ ~IsSigned(pool) /\ r.ret = "INVALID" /\ SameColumn(pool, r.pool)
             \/ IsSigned(pool) /\ r.ret = "OK" /\ Lengthens(pool, r.pool, x)
             \/ IsSigned(pool) /\ r.ret = "OOM" /\ SameColumn(pool, r.pool)
      BY <2>2, <2>3, PushSignedAdaptiveColumn
    <2>5. IsSigned(r.pool) = IsSigned(pool)
      BY <2>4 DEF SameColumn, Lengthens
    <2> QED
      BY <2>3, <2>4, <2>5
  <1>3. CASE \E i \in DOMAIN pool.data : Elsewhere(RemoveSwap(pool, i))
    <2>1. PICK i \in DOMAIN pool.data : Elsewhere(RemoveSwap(pool, i))
      BY <1>3
    <2> DEFINE q == RemoveSwap(pool, i)
    <2>2. Clean(q) /\ IsSigned(q) = IsSigned(pool)
      BY RemovedColumn
    <2>3. pool' = q /\ call' = [name |-> "other", arg |-> 0, ok |-> TRUE] /\ d' = d
      BY <2>1 DEF Elsewhere, Called
    <2> QED
      BY <2>2, <2>3
  <1> QED
    BY <1>1, <1>2, <1>3 DEF Edited

-----------------------------------------------------------------------------
(* Each step is a step of ExactArithmetic.                                   *)

LEMMA Readings ==
  ASSUME NEW arr \in Seq(Word)
  PROVE  /\ [i \in DOMAIN arr |-> I64(arr[i])] \in Seq(Int64)
         /\ Len([i \in DOMAIN arr |-> I64(arr[i])]) = Len(arr)
  <1>1. \A i \in 1 .. Len(arr) : arr[i] \in Word
    OBVIOUS
  <1>2. \A i \in 1 .. Len(arr) : I64(arr[i]) \in Int64
    BY <1>1, Conversions
  <1> QED
    BY <1>2

LEMMA InitLazy ==
  ASSUME Init
  PROVE  LazyInv /\ Exact!Init
  <1>f. ASSUME NEW size \in Sizes, NEW q, Fresh(0, size, q), Honest(q)
        PROVE  Clean(q)
    BY <1>f DEF Fresh, Clean, SignFlag
  <1>1. PICK r \in {FromArrayAuto(0, a, TRUE) : a \in Arrays}
                   \cup {FromArraySignedAuto(0, [i \in DOMAIN a |-> I64(a[i])], TRUE) : a \in Arrays} :
          r.ret /\ pool = r.pool
    BY DEF Init
  <1>2. ASSUME \E arr \in Arrays : r = FromArrayAuto(0, arr, TRUE)
        PROVE  Clean(pool)
    <2>1. PICK arr \in Arrays : r = FromArrayAuto(0, arr, TRUE)
      BY <1>2
    <2>2. arr \in Seq(Word) /\ TRUE \in BOOLEAN /\ 0 \in Int /\ Askable(Len(arr))
      BY LazyAssumption
    <2>3. PICK size \in Sizes : Fresh(0, size, r.pool)
      <3>1. AutoBuilt(0, arr, FromArrayAuto(0, arr, TRUE))
        BY <2>2, FromArrayAutoEffect
      <3>2. AutoBuilt(0, arr, r)
        BY <2>1, <3>1
      <3> QED
        BY <3>2 DEF AutoBuilt
    <2>4. Honest(r.pool)
      BY <1>1, <2>1, <2>2, FromArrayAutoHonest
    <2> QED
      BY <1>f, <1>1, <2>3, <2>4
  <1>3. ASSUME \E arr \in Arrays : r = FromArraySignedAuto(0, [i \in DOMAIN arr |-> I64(arr[i])], TRUE)
        PROVE  Clean(pool)
    <2>1. PICK arr \in Arrays : r = FromArraySignedAuto(0, [i \in DOMAIN arr |-> I64(arr[i])], TRUE)
      BY <1>3
    <2> DEFINE s == [i \in DOMAIN arr |-> I64(arr[i])]
    <2>2. s \in Seq(Int64) /\ TRUE \in BOOLEAN /\ 0 \in Int /\ Askable(Len(s))
      BY LazyAssumption, Readings
    <2>r. r = FromArraySignedAuto(0, s, TRUE)
      BY <2>1
    <2> HIDE DEF s
    <2>3. PICK size \in Sizes : Fresh(0, size, r.pool)
      BY <2>r, <2>2, FromArraySignedAutoEffect
    <2>4. Honest(r.pool)
      BY <1>1, <2>r, <2>2, FromArraySignedAutoHonest
    <2> QED
      BY <1>f, <1>1, <2>3, <2>4
  <1>4. Clean(pool)
    BY <1>1, <1>2, <1>3
  <1>5. d = Session(IsSigned(pool), pool)
    BY DEF Init
  <1>6. /\ SessionOk(d) /\ d.signed = IsSigned(pool) /\ d.ops = <<>> /\ d.overflow = FALSE
        /\ d.ends = Exact!Ends(Values(pool))
    BY <1>4, <1>5, BegunOk
  <1>7. IsSigned(pool) \in BOOLEAN
    BY <1>4, CleanFacts
  <1> QED
    BY <1>4, <1>6, <1>7 DEF LazyInv, Exact!Init

LEMMA SafeStep ==
  ASSUME Clean(pool), NEW r, NEW s \in BOOLEAN, NEW o, NEW ok \in BOOLEAN, Exactly(pool, r, s, o, ok),
         Called("safe", o, ok), Return(r), UNCHANGED d
  PROVE  Clean(pool') /\ IsSigned(pool') = IsSigned(pool) /\ Exact!Next
  <1>1. pool' = r.pool /\ ret' = r.ret /\ call' = [name |-> "safe", arg |-> o, ok |-> ok] /\ d' = d
    BY DEF Return, Called
  <1>2. call'.arg = o
    BY <1>1
  <1>3. Clean(r.pool) /\ IsSigned(r.pool) = IsSigned(pool) /\ r.ret \in BOOLEAN
    BY DEF Exactly
  <1>4. Len(Values(pool)) = Count(pool)
    BY CleanFacts
  <1>5. ASSUME r.ret
        PROVE  /\ s = IsSigned(pool) /\ Fits(s, o, Values(pool))
               /\ Values(r.pool) = [i \in DOMAIN Values(pool) |-> Exact!Image(o, Values(pool)[i])]
    BY <1>5 DEF Exactly
  <1>6. ASSUME ~r.ret
        PROVE  /\ Values(r.pool) = Values(pool)
               /\ s # IsSigned(pool) \/ ~Fits(s, o, Values(pool)) \/ ~ok \/ TooLong(Len(Values(pool)))
    BY <1>4, <1>6 DEF Exactly
  <1>7. Exact!Safe(s, o, ok)
    <2>1. /\ call' = [name |-> "safe", arg |-> o, ok |-> ok]
          /\ IsSigned(pool') = IsSigned(pool) /\ d' = d
      BY <1>1, <1>3
    <2>2. CASE r.ret
      <3>1. /\ ret' /\ s = IsSigned(pool) /\ Fits(s, o, Values(pool))
            /\ Values(pool') = [i \in DOMAIN Values(pool) |-> Exact!Image(o, Values(pool)[i])]
        BY <1>1, <1>5, <2>2
      <3> QED
        BY <2>1, <3>1 DEF Exact!Safe, Exact!Called, Fits
    <2>3. CASE ~r.ret
      <3>1. /\ ~ret' /\ Values(pool') = Values(pool)
            /\ s # IsSigned(pool) \/ ~Fits(s, o, Values(pool)) \/ ~ok \/ TooLong(Len(Values(pool)))
        BY <1>1, <1>6, <2>3
      <3> QED
        BY <2>1, <3>1 DEF Exact!Safe, Exact!Called, Fits
    <2> QED
      BY <2>2, <2>3
  <1>8. \E s1 \in BOOLEAN, ok1 \in BOOLEAN : Exact!Safe(s1, call'.arg, ok1)
    BY <1>2, <1>7
  <1> QED
    BY <1>1, <1>3, <1>8 DEF Exact!Next

LEMMA OpTypes ==
  ASSUME NEW S, S \subseteq Int, NEW o \in Ops(S)
  PROVE  o \in OpType /\ o.arg \in S
  BY DEF Ops, Op, OpType

LEMMA Arguments ==
  /\ Args \subseteq Word /\ SignedArgs \subseteq Int64
  /\ Args \subseteq Int /\ SignedArgs \subseteq Int
  <1>1. Word \subseteq Int /\ Int64 \subseteq Int
    BY DEF Word, Int64
  <1>2. SignedArgs \subseteq Int64
    BY LazyAssumption, Conversions DEF SignedArgs
  <1> QED
    BY <1>1, <1>2, LazyAssumption

LEMMA SafeCalls ==
  ASSUME LazyInv, NEW ok \in BOOLEAN, scalar_safe(ok)
  PROVE  LazyInv' /\ Exact!Next
  <1>1. Clean(pool) /\ d' = d
    BY DEF LazyInv, scalar_safe
  <1>2. ASSUME NEW o \in Ops(Args), Called("safe", o, ok), Return(SafeUnsigned(pool, o, ok))
        PROVE  Clean(pool') /\ IsSigned(pool') = IsSigned(pool) /\ Exact!Next
    <2>1. o \in OpType /\ o.arg \in Word
      BY Arguments, OpTypes
    <2> DEFINE r == SafeUnsigned(pool, o, ok)
    <2>2. r = SafeUnsigned(pool, o, ok)
      OBVIOUS
    <2>3. Return(r)
      BY <1>2
    <2> HIDE DEF r
    <2>4. Exactly(pool, r, FALSE, o, ok)
      BY <1>1, <2>1, <2>2, SafeUnsignedExact
    <2> DEFINE s == FALSE
    <2>5. s \in BOOLEAN /\ Exactly(pool, r, s, o, ok)
      BY <2>4
    <2> HIDE DEF s
    <2> QED
      BY <1>1, <1>2, <2>3, <2>5, SafeStep
  <1>3. ASSUME NEW o \in Ops(SignedArgs), Called("safe", o, ok), Return(SafeSigned(pool, o, ok))
        PROVE  Clean(pool') /\ IsSigned(pool') = IsSigned(pool) /\ Exact!Next
    <2>1. o \in OpType
      BY Arguments, OpTypes
    <2> DEFINE r == SafeSigned(pool, o, ok)
    <2>2. r = SafeSigned(pool, o, ok)
      OBVIOUS
    <2>3. Return(r)
      BY <1>3
    <2> HIDE DEF r
    <2>4. Exactly(pool, r, TRUE, o, ok)
      BY <1>1, <2>1, <2>2, SafeSignedExact
    <2> DEFINE s == TRUE
    <2>5. s \in BOOLEAN /\ Exactly(pool, r, s, o, ok)
      BY <2>4
    <2> HIDE DEF s
    <2> QED
      BY <1>1, <1>3, <2>3, <2>5, SafeStep
  <1>4. Clean(pool') /\ IsSigned(pool') = IsSigned(pool) /\ Exact!Next
    BY <1>2, <1>3 DEF scalar_safe
  <1>5. SessionOk(d)'
    BY <1>1 DEF LazyInv, SessionOk, SignedSession, UnsignedSession
  <1> QED
    BY <1>1, <1>4, <1>5 DEF LazyInv

LEMMA BeginStep ==
  ASSUME Careful, LazyInv, NEW s \in BOOLEAN, s2r_defer_begin(s)
  PROVE  LazyInv' /\ Exact!Next
  <1>1. /\ Clean(pool) /\ s = IsSigned(pool) /\ pool' = pool /\ d' = Session(IsSigned(pool), pool)
        /\ call' = [name |-> "begin", arg |-> s, ok |-> TRUE] /\ ret' = TRUE
    BY DEF LazyInv, s2r_defer_begin, Called
  <1> DEFINE e == Session(IsSigned(pool), pool)
  <1>2. /\ SessionOk(e) /\ e.signed = IsSigned(pool) /\ e.ops = <<>> /\ e.overflow = FALSE
        /\ e.ends = Exact!Ends(Values(pool))
    BY <1>1, BegunOk
  <1>3. d' = e
    BY <1>1
  <1> HIDE DEF e
  <1>4. SessionOk(d)'
    BY <1>2, <1>3 DEF SessionOk, SignedSession, UnsignedSession
  <1>5. LazyInv'
    BY <1>1, <1>2, <1>3, <1>4 DEF LazyInv
  <1>6. Exact!Begin(s)
    BY <1>1, <1>2, <1>3 DEF Exact!Begin, Exact!Called
  <1> QED
    BY <1>5, <1>6 DEF Exact!Next

LEMMA DeferStep ==
  ASSUME LazyInv, NEW o \in Ops(IF d.signed THEN SignedArgs ELSE Args), s2r_defer(o)
  PROVE  LazyInv' /\ Exact!Next
  <1>1. /\ SessionOk(d) /\ d' = Deferred(o) /\ pool' = pool
        /\ call' = [name |-> "defer", arg |-> o, ok |-> TRUE]
    BY DEF LazyInv, s2r_defer, Called
  <1>2. o \in OpType /\ (d.signed => o.arg \in Int64) /\ (~d.signed => o.arg \in Word)
    <2>1. CASE d.signed
      BY <2>1, Arguments, OpTypes
    <2>2. CASE ~d.signed
      BY <2>2, Arguments, OpTypes
    <2> QED
      BY <2>1, <2>2
  <1> DEFINE e == Deferred(o)
             longer == Append(d.ops, o)
             full == Len(d.ops) = MaxOps
             holds == \A v \in d.ends : Exact!Representable(d.signed, Exact!Through(longer, v))
  <1>3. /\ SessionOk(e) /\ e.signed = d.signed /\ e.ends = d.ends
        /\ full \/ ~holds => e.ops = d.ops /\ e.overflow = TRUE
        /\ ~(full \/ ~holds) => e.ops = longer /\ e.overflow = d.overflow
    BY <1>1, <1>2, DeferredOk
  <1>4. d' = e
    BY <1>1
  <1> HIDE DEF e
  <1>s. SessionOk(e)
    BY <1>3
  <1>5. SessionOk(d)'
    BY <1>s, <1>4 DEF SessionOk, SignedSession, UnsignedSession
  <1>6. LazyInv'
    BY <1>1, <1>3, <1>4, <1>5 DEF LazyInv
  <1>7. Exact!Defer(o)
    <2>1. CASE full \/ ~holds
      <3>1. Exact!Called("defer", o, TRUE) /\ IsSigned(pool') = IsSigned(pool) /\ Values(pool') = Values(pool)
        BY <1>1 DEF Exact!Called
      <3>2. [signed |-> d'.signed, ends |-> d'.ends, ops |-> d'.ops, lost |-> d'.overflow]
              = [signed |-> d.signed, ends |-> d.ends, ops |-> d.ops, lost |-> TRUE]
        BY <1>3, <1>4, <2>1
      <3> QED
        BY <2>1, <3>1, <3>2 DEF Exact!Defer
    <2>2. CASE ~(full \/ ~holds)
      <3>1. Exact!Called("defer", o, TRUE) /\ IsSigned(pool') = IsSigned(pool) /\ Values(pool') = Values(pool)
        BY <1>1 DEF Exact!Called
      <3>2. [signed |-> d'.signed, ends |-> d'.ends, ops |-> d'.ops, lost |-> d'.overflow]
              = [signed |-> d.signed, ends |-> d.ends, ops |-> longer, lost |-> d.overflow]
        BY <1>3, <1>4, <2>2
      <3> QED
        BY <2>2, <3>1, <3>2 DEF Exact!Defer
    <2> QED
      BY <2>1, <2>2
  <1>8. call'.arg = o
    BY <1>1
  <1> QED
    BY <1>6, <1>7, <1>8 DEF Exact!Next

LEMMA CommitStep ==
  ASSUME LazyInv, NEW ok \in BOOLEAN, s2r_defer_commit(ok)
  PROVE  LazyInv' /\ Exact!Next
  <1> DEFINE r == Committed(ok)
  <1>1. /\ Clean(pool) /\ SessionOk(d) /\ (~d.signed => ~IsSigned(pool))
        /\ call' = [name |-> "commit", arg |-> 0, ok |-> ok] /\ d' = d
        /\ pool' = r.pool /\ ret' = r.ret /\ r = Committed(ok)
    BY DEF LazyInv, s2r_defer_commit, Called, Return
  <1> HIDE DEF r
  <1>2. CommitExactly(r, ok)
    BY <1>1, CommittedExact
  <1>3. Len(Values(pool)) = Count(pool)
    BY <1>1, CleanFacts
  <1>4. Clean(pool') /\ IsSigned(pool') = IsSigned(pool) /\ r.ret \in BOOLEAN
    BY <1>1, <1>2 DEF CommitExactly
  <1>5. SessionOk(d)'
    BY <1>1 DEF SessionOk, SignedSession, UnsignedSession
  <1>6. LazyInv'
    BY <1>1, <1>4, <1>5 DEF LazyInv
  <1>7. Exact!Commit(ok)
    <2>1. Exact!Called("commit", 0, ok) /\ IsSigned(pool') = IsSigned(pool)
      BY <1>1, <1>4 DEF Exact!Called
    <2>2. CASE r.ret
      <3>1. /\ ret' /\ ~d.overflow /\ DOMAIN Values(pool') = DOMAIN Values(pool)
            /\ \A i \in DOMAIN Values(pool) :
                 Exact!Within(d.ends, Values(pool)[i]) =>
                   Values(pool')[i] = Exact!Through(d.ops, Values(pool)[i])
        BY <1>1, <1>2, <2>2 DEF CommitExactly
      <3> QED
        BY <1>1, <2>1, <3>1 DEF Exact!Commit
    <2>3. CASE ~r.ret
      <3>1. /\ ~ret' /\ Values(pool') = Values(pool)
            /\ d.overflow \/ d.signed # IsSigned(pool) \/ ~ok \/ TooLong(Len(Values(pool)))
        BY <1>1, <1>2, <1>3, <2>3 DEF CommitExactly
      <3> QED
        BY <1>1, <2>1, <3>1 DEF Exact!Commit
    <2> QED
      BY <2>2, <2>3
  <1> QED
    BY <1>6, <1>7 DEF Exact!Next

LEMMA OtherStep ==
  ASSUME LazyInv, Edited \/ Healed
  PROVE  LazyInv' /\ Exact!Next
  <1>1. Clean(pool) /\ SessionOk(d) /\ (~d.signed => ~IsSigned(pool))
    BY DEF LazyInv
  <1>2. /\ Clean(pool') /\ (IsSigned(pool') => IsSigned(pool))
        /\ call' = [name |-> "other", arg |-> 0, ok |-> TRUE] /\ d' = d
    BY <1>1, EditedClean, HealedClean
  <1>3. SessionOk(d)'
    BY <1>1, <1>2 DEF SessionOk, SignedSession, UnsignedSession
  <1>4. LazyInv'
    BY <1>1, <1>2, <1>3 DEF LazyInv
  <1>5. Exact!Other
    BY <1>2 DEF Exact!Other
  <1> QED
    BY <1>4, <1>5 DEF Exact!Next

LEMMA LazyStep ==
  ASSUME Careful, LazyInv, [Next]_vars
  PROVE  LazyInv' /\ [Exact!Next]_(Exact!vars)
  <1>1. ASSUME NEW ok \in BOOLEAN, scalar_safe(ok)
        PROVE  LazyInv' /\ Exact!Next
    BY <1>1, SafeCalls
  <1>2. ASSUME NEW ok \in BOOLEAN, s2r_defer_commit(ok)
        PROVE  LazyInv' /\ Exact!Next
    BY <1>2, CommitStep
  <1>3. ASSUME NEW s \in BOOLEAN, s2r_defer_begin(s)
        PROVE  LazyInv' /\ Exact!Next
    BY <1>3, BeginStep
  <1>4. ASSUME NEW o \in Ops(IF d.signed THEN SignedArgs ELSE Args), s2r_defer(o)
        PROVE  LazyInv' /\ Exact!Next
    BY <1>4, DeferStep
  <1>5. ASSUME Edited \/ Healed
        PROVE  LazyInv' /\ Exact!Next
    BY <1>5, OtherStep
  <1>6. ASSUME UNCHANGED vars
        PROVE  LazyInv' /\ UNCHANGED Exact!vars
    <2>1. pool' = pool /\ d' = d /\ call' = call /\ ret' = ret
      BY <1>6 DEF vars
    <2>2. SessionOk(d)'
      BY <2>1 DEF LazyInv, SessionOk, SignedSession, UnsignedSession
    <2>3. LazyInv'
      BY <2>1, <2>2 DEF LazyInv
    <2>4. UNCHANGED Exact!vars
      BY <2>1 DEF Exact!vars
    <2> QED
      BY <2>3, <2>4
  <1>7. CASE Next
    BY <1>1, <1>2, <1>3, <1>4, <1>5, <1>7 DEF Next
  <1>8. CASE UNCHANGED vars
    BY <1>6, <1>8
  <1> QED
    BY <1>7, <1>8

\* While sessions are opened on pools of their own kind, the pool is clean and the
\* session has the range its operations took it to: s2r_defer_* and s2r_*_scalar_safe.
LEMMA AlwaysLazy == Careful => (Spec => []LazyInv)
  <1> SUFFICES ASSUME Careful
               PROVE  Spec => []LazyInv
    OBVIOUS
  <1>1. Init => LazyInv
    BY InitLazy
  <1>2. LazyInv /\ [Next]_vars => LazyInv'
    BY LazyStep
  <1> QED
    BY <1>1, <1>2, PTL DEF Spec

\* Arithmetic never wraps: each run of the pool and its session is a run of
\* ExactArithmetic, so the safe calls and a commit of s2r_defer_commit are exact or
\* are refused for a reason, and a session is lost exactly when its range is.
THEOREM ArithmeticIsExact == Careful => (Spec => NeverWraps)
  <1> SUFFICES ASSUME Careful
               PROVE  Spec => NeverWraps
    OBVIOUS
  <1>1. Init => LazyInv /\ Exact!Init
    BY InitLazy
  <1>2. LazyInv /\ [Next]_vars => LazyInv' /\ [Exact!Next]_(Exact!vars)
    BY LazyStep
  <1> QED
    BY <1>1, <1>2, PTL DEF Spec, NeverWraps, Exact!Spec

-----------------------------------------------------------------------------
(* A session gives what the eager calls would.                               *)

LEMMA RepresentableIs ==
  ASSUME NEW s \in BOOLEAN, NEW x \in Int
  PROVE  Exact!Representable(s, x) <=> x \in (IF s THEN Int64 ELSE Word)
  <1>1. Half[K] \in Int /\ Pow(K) \in Int
    BY PowFacts, Conversions
  <1>2. CASE s
    BY <1>1, <1>2 DEF Exact!Representable, WidestLeast, WidestLargest, Int64
  <1>3. CASE ~s
    BY <1>1, <1>3 DEF Exact!Representable, WidestLeast, WidestLargest, Word
  <1> QED
    BY <1>2, <1>3

\* Every value of the range stays representable through every prefix of the chain.
LEMMA WithinRange ==
  ASSUME SessionOk(d), NEW x \in Int, \E u, v \in d.ends : u <= x /\ x <= v
  PROVE  /\ \A i \in 0 .. Len(d.ops) : Exact!Representable(d.signed, Run(d.ops, x)[i])
         /\ ~d.signed => \A i \in 1 .. Len(d.ops) : d.ops[i].arg \in Word
  <1> DEFINE n == Len(d.ops)
             W == IF d.signed THEN Int64 ELSE Word
  <1>1. d.ops \in Seq(OpType) /\ n \in Nat /\ d.signed \in BOOLEAN
    BY SessionFields DEF SessionOk
  <1>2. PICK a, b \in Int : IF d.signed THEN SignedSession(d, a, b) ELSE UnsignedSession(d, a, b)
    BY DEF SessionOk
  <1>3. a <= b /\ d.ends = {a, b}
    <2>1. CASE d.signed
      BY <1>2, <2>1 DEF SignedSession
    <2>2. CASE ~d.signed
      BY <1>2, <2>2 DEF UnsignedSession
    <2> QED
      BY <2>1, <2>2
  <1>4. a <= x /\ x <= b
    <2>1. PICK u, v \in d.ends : u <= x /\ x <= v
      OBVIOUS
    <2> QED
      BY <1>3, <2>1
  <1>5. Half[K] \in Int /\ Pow(K) \in Int
    BY PowFacts, Conversions
  <1>6. ASSUME NEW v \in Int, NEW i \in 0 .. n  PROVE Run(d.ops, v)[i] \in Int
    <2>1. Run(d.ops, v) \in [0 .. n -> Int]
      BY <1>1, <1>6, RunIs
    <2> QED
      BY <1>6, <2>1
  <1>7. ~d.signed => UnsignedSession(d, a, b)
    BY <1>2
  <1>8. ~d.signed => \A i \in 1 .. n : d.ops[i].arg \in Word
    BY <1>7 DEF UnsignedSession
  <1>9. ASSUME NEW i \in 0 .. n  PROVE Run(d.ops, x)[i] \in W
    <2> DEFINE ra == Run(d.ops, a)[i]
               rb == Run(d.ops, b)[i]
               rx == Run(d.ops, x)[i]
    <2>0. ra \in Int /\ rb \in Int /\ rx \in Int
      BY <1>6, <1>9
    <2>1. ASSUME d.signed  PROVE rx \in Int64
      <3>1. SignedSession(d, a, b)
        BY <1>2, <2>1
      <3>2. ra \in Int64 /\ rb \in Int64
        BY <1>9, <3>1 DEF SignedSession
      <3>3. Between(a, x, b)
        BY <1>4 DEF Between
      <3>4. \A j \in 0 .. n : Between(Run(d.ops, a)[j], Run(d.ops, x)[j], Run(d.ops, b)[j])
        BY <1>1, <3>3, RunBetween
      <3>5. Between(ra, rx, rb)
        BY <1>9, <3>4
      <3> HIDE DEF ra, rb, rx
      <3> QED
        BY <1>5, <2>0, <3>2, <3>5 DEF Between, Int64
    <2>2. ASSUME ~d.signed  PROVE rx \in Word
      <3>1. a \in Word /\ \A j \in 1 .. n : d.ops[j].arg \in Word
        BY <1>7, <2>2 DEF UnsignedSession
      <3>2. rb \in Word
        BY <1>7, <1>9, <2>2 DEF UnsignedSession
      <3>3. \A j \in 1 .. n : Natural(d.ops[j])
        BY <1>5, <3>1 DEF Natural, Word
      <3>4. 0 <= x /\ x <= b
        BY <1>4, <1>5, <3>1 DEF Word
      <3>5. \A j \in 0 .. n : 0 <= Run(d.ops, x)[j] /\ Run(d.ops, x)[j] <= Run(d.ops, b)[j]
        BY <1>1, <3>3, <3>4, RunOrder
      <3>6. 0 <= rx /\ rx <= rb
        BY <1>9, <3>5
      <3> HIDE DEF rb, rx
      <3> QED
        BY <1>5, <2>0, <3>2, <3>6 DEF Word
    <2> QED
      BY <2>1, <2>2
  <1>10. ASSUME NEW i \in 0 .. n  PROVE Exact!Representable(d.signed, Run(d.ops, x)[i])
    <2>1. Run(d.ops, x)[i] \in Int
      BY <1>6, <1>10
    <2> DEFINE rx == Run(d.ops, x)[i]
    <2>2. rx \in W /\ rx \in Int
      BY <1>9, <1>10, <2>1
    <2> HIDE DEF rx
    <2>3. Exact!Representable(d.signed, rx)
      BY <1>1, <2>2, RepresentableIs
    <2> QED
      BY <2>3 DEF rx
  <1> QED
    BY <1>8, <1>10

EagerStep(r, o) == IF d.signed THEN SafeSigned(r.pool, o, TRUE) ELSE SafeUnsigned(r.pool, o, TRUE)

\* One eager call on what some column has become.
LEMMA EagerStepIs ==
  ASSUME d.signed \in BOOLEAN, NEW p, Clean(p), NEW o \in OpType, ~d.signed => o.arg \in Word, NEW r, r.pool = p
  PROVE  /\ Exactly(p, EagerStep(r, o), d.signed, o, TRUE)
         /\ EagerStep(r, o) = Result(EagerStep(r, o).pool, EagerStep(r, o).ret)
  <1> DEFINE ok == TRUE
             s == d.signed
  <1>1. ok \in BOOLEAN
    OBVIOUS
  <1>2. CASE d.signed
    <2> DEFINE e == SafeSigned(p, o, ok)
    <2>1. EagerStep(r, o) = e
      BY <1>2 DEF EagerStep
    <2>2. e = Result(e.pool, e.ret)
      BY DEF SafeSigned, Result
    <2>3. Exactly(p, e, TRUE, o, ok)
      <3> HIDE DEF ok
      <3> QED
        BY <1>1, SafeSignedExact
    <2>4. Exactly(p, e, s, o, ok)
      BY <1>2, <2>3
    <2> HIDE DEF e
    <2> QED
      BY <2>1, <2>2, <2>4
  <1>3. CASE ~d.signed
    <2> DEFINE e == SafeUnsigned(p, o, ok)
    <2>1. EagerStep(r, o) = e
      BY <1>3 DEF EagerStep
    <2>2. e = Result(e.pool, e.ret)
      BY DEF SafeUnsigned, Result
    <2>3. Exactly(p, e, FALSE, o, ok)
      <3> HIDE DEF ok
      <3> QED
        BY <1>1, <1>3, SafeUnsignedExact
    <2>4. Exactly(p, e, s, o, ok)
      BY <1>3, <2>3
    <2> HIDE DEF e
    <2> QED
      BY <2>1, <2>2, <2>4
  <1> QED
    BY <1>2, <1>3

\* What the column has become after i of the eager calls.
EagerlyAt(i, r) ==
  /\ Clean(r.pool) /\ r.ret = TRUE /\ IsSigned(r.pool) = IsSigned(pool)
  /\ Abs(pool.size) <= Abs(r.pool.size)
  /\ Values(r.pool) = [j \in DOMAIN Values(pool) |-> Run(d.ops, Values(pool)[j])[i]]

LEMMA EagerlyNext ==
  ASSUME LazyInv, d.signed = IsSigned(pool), Enclosed(d.ends, Values(pool)), ~TooLong(Count(pool)),
         NEW i \in 1 .. Len(d.ops), NEW r, EagerlyAt(i - 1, r),
         NEW r2, r2 = EagerStep(r, d.ops[i])
  PROVE  EagerlyAt(i, r2)
  <1> DEFINE v == Values(pool)
             o == d.ops[i]
             p == r.pool
  <1>1. Clean(pool) /\ SessionOk(d)
    BY DEF LazyInv
  <1>2. d.ops \in Seq(OpType) /\ Len(d.ops) \in Nat /\ d.signed \in BOOLEAN /\ o \in OpType
    BY <1>1, SessionFields DEF SessionOk
  <1>3. i \in 1 .. Len(d.ops) /\ i - 1 \in 0 .. Len(d.ops) /\ i \in 0 .. Len(d.ops)
    BY <1>2
  <1>4. /\ Clean(p) /\ IsSigned(p) = IsSigned(pool) /\ Abs(pool.size) <= Abs(p.size)
        /\ Values(p) = [j \in DOMAIN v |-> Run(d.ops, v[j])[i - 1]]
    BY DEF EagerlyAt
  <1>5. Count(p) = Count(pool) /\ DOMAIN v = 1 .. Count(pool) /\ \A j \in DOMAIN v : v[j] \in Int
    <2>0. DOMAIN v = 1 .. Count(pool) /\ Count(pool) \in Nat /\ v \in Seq(Int) /\ Len(v) = Count(pool)
      BY <1>1, CleanFacts
    <2>1. DOMAIN v = 1 .. Count(pool) /\ Count(pool) \in Nat /\ \A j \in DOMAIN v : v[j] \in Int
      <3> HIDE DEF v
      <3> QED
        BY <2>0
    <2>2. DOMAIN Values(p) = 1 .. Count(p) /\ Count(p) \in Nat
      BY <1>4, CleanFacts
    <2>3. 1 .. Count(p) = 1 .. Count(pool)
      BY <1>4, <2>1, <2>2
    <2> QED
      BY <2>1, <2>2, <2>3
  <1> HIDE DEF v
  <1>6. ASSUME NEW j \in DOMAIN v
        PROVE  /\ v[j] \in Int
               /\ Run(d.ops, v[j])[i] = Exact!Image(o, Values(p)[j])
               /\ Exact!Representable(d.signed, Run(d.ops, v[j])[i])
               /\ ~d.signed => o.arg \in Word
    <2> DEFINE x == v[j]
    <2>1. x \in Int
      BY <1>5, <1>6
    <2>2. \E a, b \in d.ends : a <= x /\ x <= b
      BY <1>6 DEF Enclosed, Exact!Within, v
    <2>3. Values(p)[j] = Run(d.ops, x)[i - 1]
      BY <1>4, <1>6
    <2> HIDE DEF x
    <2>4. Run(d.ops, x)[i] = Exact!Image(o, Run(d.ops, x)[i - 1])
      <3>1. \A k \in 1 .. Len(d.ops) : Run(d.ops, x)[k] = Exact!Image(d.ops[k], Run(d.ops, x)[k - 1])
        BY <1>2, <2>1, RunIs
      <3> QED
        BY <1>3, <3>1
    <2>5. /\ \A k \in 0 .. Len(d.ops) : Exact!Representable(d.signed, Run(d.ops, x)[k])
          /\ ~d.signed => \A k \in 1 .. Len(d.ops) : d.ops[k].arg \in Word
      BY <1>1, <2>1, <2>2, WithinRange
    <2>6. Exact!Representable(d.signed, Run(d.ops, x)[i]) /\ (~d.signed => o.arg \in Word)
      BY <1>3, <2>5
    <2> HIDE DEF o, p
    <2> QED
      BY <2>1, <2>3, <2>4, <2>6 DEF x
  <1>7. ~d.signed => o.arg \in Word
    <2>1. PICK a, b \in Int : IF d.signed THEN SignedSession(d, a, b) ELSE UnsignedSession(d, a, b)
      BY <1>1 DEF SessionOk
    <2>2. ASSUME ~d.signed  PROVE \A k \in 1 .. Len(d.ops) : d.ops[k].arg \in Word
      BY <2>1, <2>2 DEF UnsignedSession
    <2> QED
      BY <1>3, <2>2
  <1>8. Fits(d.signed, o, Values(p))
    <2>1. DOMAIN Values(p) = DOMAIN v
      BY <1>4
    <2> HIDE DEF o, p
    <2> QED
      BY <1>6, <2>1 DEF Fits
  <1>9. Exactly(p, r2, d.signed, o, TRUE)
    <2> HIDE DEF o
    <2> QED
      BY <1>2, <1>4, <1>7, EagerStepIs DEF o
  <1> HIDE DEF o, p
  <1>10. /\ Clean(r2.pool) /\ IsSigned(r2.pool) = IsSigned(p) /\ r2.ret \in BOOLEAN
         /\ Abs(p.size) <= Abs(r2.pool.size)
    BY <1>9 DEF Exactly
  <1>11. r2.ret = TRUE
    <2>1. ASSUME ~r2.ret
          PROVE  d.signed # IsSigned(p) \/ ~Fits(d.signed, o, Values(p)) \/ ~TRUE \/ TooLong(Count(p))
      BY <1>9, <2>1 DEF Exactly
    <2>2. ~TooLong(Count(p)) /\ d.signed = IsSigned(p)
      BY <1>4, <1>5
    <2> QED
      BY <1>8, <1>10, <2>1, <2>2
  <1>12. Values(r2.pool) = [j \in DOMAIN Values(p) |-> Exact!Image(o, Values(p)[j])]
    BY <1>9, <1>11 DEF Exactly
  <1>13. Values(r2.pool) = [j \in DOMAIN v |-> Run(d.ops, v[j])[i]]
    <2>1. DOMAIN Values(p) = DOMAIN v
      BY <1>4
    <2> QED
      BY <1>6, <1>12, <2>1
  <1>14. Abs(pool.size) <= Abs(r2.pool.size)
    <2>1. Abs(pool.size) \in Int /\ Abs(p.size) \in Int /\ Abs(r2.pool.size) \in Int
      <3>1. pool.size \in Sizes /\ p.size \in Sizes /\ r2.pool.size \in Sizes
        BY <1>1, <1>4, <1>10, CleanFacts
      <3> QED
        BY <3>1 DEF Sizes, Abs, Classes
    <2> DEFINE x == Abs(pool.size)
               y == Abs(p.size)
               z == Abs(r2.pool.size)
    <2>2. x \in Int /\ y \in Int /\ z \in Int /\ x <= y /\ y <= z
      BY <1>4, <1>10, <2>1
    <2> HIDE DEF x, y, z
    <2>3. x <= z
      BY <2>2
    <2> QED
      BY <2>3 DEF x, z
  <1> QED
    BY <1>4, <1>10, <1>11, <1>13, <1>14 DEF EagerlyAt, v

LEMMA EagerlyIs ==
  ASSUME LazyInv, d.signed = IsSigned(pool), Enclosed(d.ends, Values(pool)), ~TooLong(Count(pool))
  PROVE  EagerlyAt(Len(d.ops), Eagerly(pool, d.ops))
  <1> DEFINE n == Len(d.ops)
             ops == d.ops
             Move(r, o) == IF r.ret THEN EagerStep(r, o) ELSE r
             P(f) == f = [i \in 0 .. n |-> IF i = 0 THEN Result(pool, TRUE) ELSE Move(f[i - 1], ops[i])]
             C == {q \in PoolType : Clean(q)}
             D == {Result(q, b) : q \in C, b \in BOOLEAN}
             st == [i \in 1 .. n |-> [r \in D |-> Move(r, ops[i])]]
  <1>1. Clean(pool) /\ SessionOk(d)
    BY DEF LazyInv
  <1>0. n \in Nat /\ ops \in Seq(OpType) /\ d.signed \in BOOLEAN /\ \A i \in 1 .. n : ops[i] \in OpType
    <2>1. ops \in Seq(OpType) /\ n \in Nat /\ d.signed \in BOOLEAN
      BY <1>1, SessionFields DEF SessionOk
    <2> QED
      BY <2>1
  <1>w. ASSUME NEW i \in 1 .. n  PROVE ~d.signed => ops[i].arg \in Word
    <2>1. PICK a, b \in Int : IF d.signed THEN SignedSession(d, a, b) ELSE UnsignedSession(d, a, b)
      BY <1>1 DEF SessionOk
    <2>2. ASSUME ~d.signed  PROVE \A k \in 1 .. n : ops[k].arg \in Word
      BY <2>1, <2>2 DEF UnsignedSession
    <2> QED
      BY <1>w, <2>2
  <1>c. \A q : Clean(q) <=> q \in C
    BY CleanFacts DEF InUse
  <1> HIDE DEF C
  <1>d. ASSUME NEW q, Clean(q), NEW b \in BOOLEAN  PROVE Result(q, b) \in D
    BY <1>c, <1>d
  <1>e. ASSUME NEW r \in D  PROVE Clean(r.pool) /\ r.ret \in BOOLEAN
    <2>1. PICK q \in C, b \in BOOLEAN : r = Result(q, b)
      BY <1>e
    <2> QED
      BY <1>c, <2>1 DEF Result
  <1> HIDE DEF D
  <1>2. ASSUME NEW i \in 1 .. n, NEW r \in D  PROVE Move(r, ops[i]) \in D
    <2>1. CASE ~r.ret
      BY <1>2, <2>1
    <2>2. CASE r.ret
      <3> DEFINE p == r.pool
                 o == ops[i]
                 e == EagerStep(r, o)
      <3>1. Clean(p) /\ o \in OpType /\ (~d.signed => o.arg \in Word) /\ r.pool = p
        BY <1>0, <1>2, <1>e, <1>w
      <3> HIDE DEF p, o
      <3>2. Exactly(p, e, d.signed, o, TRUE) /\ e = Result(e.pool, e.ret)
        BY <1>0, <3>1, EagerStepIs
      <3>3. Clean(e.pool) /\ e.ret \in BOOLEAN
        <4> HIDE DEF e
        <4> QED
          BY <3>2 DEF Exactly
      <3>4. e \in D
        <4> HIDE DEF e
        <4> QED
          BY <1>d, <3>2, <3>3
      <3> QED
        BY <2>2, <3>4 DEF o
    <2> QED
      BY <2>1, <2>2
  <1>3. st \in [1 .. n -> [D -> D]]
    <2> HIDE DEF Move, n
    <2> QED
      BY <1>2
  <1>4. PICK f : Stepping(f, n, D, Result(pool, TRUE), st)
    <2>1. Result(pool, TRUE) \in D
      BY <1>1, <1>d
    <2> DEFINE r0 == Result(pool, TRUE)
    <2>2. r0 \in D
      BY <2>1
    <2> HIDE DEF st, n, r0
    <2>3. \E f : Stepping(f, n, D, r0, st)
      BY <1>0, <1>3, <2>2, StepsExist
    <2> QED
      BY <2>3 DEF r0
  <1>5. f \in [0 .. n -> D] /\ f[0] = Result(pool, TRUE) /\ \A i \in 1 .. n : f[i] = st[i][f[i - 1]]
    BY <1>4 DEF Stepping
  <1>6. \A i \in 1 .. n : f[i] = Move(f[i - 1], ops[i])
    <2> HIDE DEF Move
    <2> TAKE i \in 1 .. n
    <2>1. f[i - 1] \in D
      BY <1>0, <1>5
    <2> QED
      BY <1>5, <2>1
  <1> HIDE DEF st
  <1>7. P(f)
    <2> HIDE DEF n, Move
    <2>1. \A i \in 0 .. n : f[i] = IF i = 0 THEN Result(pool, TRUE) ELSE Move(f[i - 1], ops[i])
      <3> TAKE i \in 0 .. n
      <3>1. i = 0 \/ i \in 1 .. n
        BY <1>0
      <3>2. CASE i = 0
        BY <1>5, <3>2
      <3>3. CASE i \in 1 .. n
        <4>1. i # 0
          BY <1>0, <3>3
        <4>2. f[i] = Move(f[i - 1], ops[i])
          BY <1>6, <3>3
        <4> QED
          BY <4>1, <4>2
      <3> QED
        BY <3>1, <3>2, <3>3
    <2> QED
      BY <1>5, <2>1
  <1> DEFINE g == CHOOSE h : P(h)
  <1>8. P(g)
    <2> HIDE DEF P
    <2> QED
      BY <1>7
  <1>9. Eagerly(pool, ops) = g[n]
    BY DEF Eagerly, EagerStep
  <1> HIDE DEF g
  <1>10. \A i \in 0 .. n : g[i] = IF i = 0 THEN Result(pool, TRUE) ELSE Move(g[i - 1], ops[i])
    <2> HIDE DEF Move
    <2> QED
      BY <1>8
  <1> DEFINE S == {i \in 0 .. n : EagerlyAt(i, g[i])}
  <1>11. 0 \in S
    <2>1. g[0] = Result(pool, TRUE) /\ 0 \in 0 .. n
      <3> HIDE DEF n, Move
      <3>1. 0 \in 0 .. n
        BY <1>0
      <3> QED
        BY <1>10, <3>1
    <2>2. Values(pool) = [j \in DOMAIN Values(pool) |-> Run(ops, Values(pool)[j])[0]]
      <3>1. Values(pool) \in Seq(Int)
        BY <1>1, CleanFacts
      <3>2. ASSUME NEW j \in DOMAIN Values(pool)  PROVE Run(ops, Values(pool)[j])[0] = Values(pool)[j]
        <4>1. Values(pool)[j] \in Int
          BY <3>1, <3>2
        <4> QED
          BY <1>0, <4>1, RunIs
      <3> QED
        BY <3>1, <3>2
    <2>3. Abs(pool.size) <= Abs(pool.size)
      <3> DEFINE x == Abs(pool.size)
      <3>1. x \in Int
        <4>1. pool.size \in Sizes
          BY <1>1, CleanFacts
        <4> QED
          BY <4>1 DEF Sizes, Abs, Classes
      <3> HIDE DEF x
      <3>2. x <= x
        BY <3>1
      <3> QED
        BY <3>2 DEF x
    <2>4. EagerlyAt(0, Result(pool, TRUE))
      BY <1>1, <2>2, <2>3 DEF EagerlyAt, Result
    <2>5. EagerlyAt(0, g[0])
      BY <2>1, <2>4
    <2> QED
      BY <2>1, <2>5
  <1>12. ASSUME NEW i \in 1 .. n, i - 1 \in S  PROVE i \in S
    <2> DEFINE r == g[i - 1]
               r2 == g[i]
    <2>1. EagerlyAt(i - 1, r) /\ r.ret = TRUE
      BY <1>12 DEF EagerlyAt
    <2>2. i \in 0 .. n /\ i # 0 /\ i \in 1 .. Len(d.ops)
      BY <1>0
    <2>3. r2 = EagerStep(r, d.ops[i])
      <3>1. r2 = Move(r, ops[i])
        <4> HIDE DEF Move
        <4> QED
          BY <1>10, <2>2
      <3> QED
        BY <2>1, <3>1
    <2> HIDE DEF r, r2
    <2>4. EagerlyAt(i, r2)
      BY <2>1, <2>2, <2>3, EagerlyNext
    <2> QED
      BY <2>2, <2>4 DEF r2
  <1>13. S = 0 .. n
    <2> HIDE DEF S
    <2>1. S \in SUBSET (0 .. n)
      BY DEF S
    <2> HIDE DEF n
    <2> QED
      BY <1>0, <1>11, <1>12, <2>1, UpTo
  <1>14. n \in S
    <2> HIDE DEF S
    <2>1. n \in 0 .. n
      BY <1>0
    <2> QED
      BY <1>13, <2>1
  <1> QED
    BY <1>9, <1>14

\* The values of the column lie between the ends, and the ends are among them.
LEMMA EndsEnclose ==
  ASSUME Clean(pool), d.ends = EndsOf(pool)
  PROVE  /\ Enclosed(d.ends, Values(pool))
         /\ Count(pool) # 0 =>
              \A e \in d.ends : e \in Int /\ \E i \in DOMAIN pool.data : Values(pool)[i] = e
  <1> DEFINE v == Values(pool)
  <1>1. DOMAIN v = DOMAIN pool.data /\ DOMAIN v = 1 .. Count(pool) /\ Count(pool) \in Nat
    BY ValuesDomain, CleanFacts
  <1>2. CASE Count(pool) = 0
    BY <1>1, <1>2 DEF Enclosed, Exact!Within
  <1>3. CASE Count(pool) # 0
    <2> DEFINE lo == Least(ValueSet(pool))
               hi == Greatest(ValueSet(pool))
    <2>1. Spans(v, lo, hi) /\ d.ends = {lo, hi}
      BY <1>3, RangeOf
    <2> HIDE DEF lo, hi, v
    <2>2. /\ lo \in Int /\ hi \in Int /\ \A i \in DOMAIN v : lo <= v[i] /\ v[i] <= hi
          /\ \E i, j \in DOMAIN v : v[i] = lo /\ v[j] = hi
      BY <2>1 DEF Spans
    <2>3. Enclosed(d.ends, v)
      BY <2>1, <2>2 DEF Enclosed, Exact!Within
    <2>4. \A e \in d.ends : e \in Int /\ \E i \in DOMAIN pool.data : v[i] = e
      BY <1>1, <2>1, <2>2
    <2> QED
      BY <2>3, <2>4 DEF v
  <1> QED
    BY <1>2, <1>3

\* A class that holds what the chain makes of the column holds the range of the session.
LEMMA RangeOfEnds ==
  ASSUME SessionOk(d), d.signed = IsSigned(pool), NEW q, Clean(q), IsSigned(q) = IsSigned(pool),
         \A e \in d.ends : \E i \in DOMAIN q.data : Value(q, i) = Exact!Through(d.ops, e)
  PROVE  Abs(q.size) \in Classes /\ RangeFits(Abs(q.size))
  <1> DEFINE k == Abs(q.size)
  <1>1. q.size \in Sizes /\ IsSigned(q) = (q.size < 0)
    BY CleanFacts
  <1>2. k \in Classes /\ k = IF q.size < 0 THEN -q.size ELSE q.size
    <2>1. k \in Classes
      BY <1>1, SizeFacts
    <2>2. k = IF q.size < 0 THEN -q.size ELSE q.size
      BY DEF Abs
    <2> QED
      BY <2>1, <2>2
  <1> HIDE DEF k
  <1>3. ASSUME NEW e \in d.ends  PROVE Holds(q.size, Exact!Through(d.ops, e))
    <2>1. PICK i \in DOMAIN q.data : Value(q, i) = Exact!Through(d.ops, e)
      BY <1>3
    <2>2. Holds(q.size, Value(q, i))
      BY WordOfValue
    <2> QED
      BY <2>1, <2>2
  <1>4. PICK a, b \in Int : IF d.signed THEN SignedSession(d, a, b) ELSE UnsignedSession(d, a, b)
    BY DEF SessionOk
  <1> DEFINE ta == Exact!Through(d.ops, a)
             tb == Exact!Through(d.ops, b)
  <1>5. CASE d.signed
    <2>1. d.ends = {a, b} /\ {d.vmin, d.vmax} = {ta, tb}
      BY <1>4, <1>5 DEF SignedSession
    <2>2. Holds(q.size, ta) /\ Holds(q.size, tb)
      BY <1>3, <2>1
    <2> HIDE DEF ta, tb
    <2>3. (d.vmin = ta /\ d.vmax = tb) \/ (d.vmin = tb /\ d.vmax = ta)
      BY <2>1, PairIs
    <2>4. q.size < 0
      BY <1>1, <1>5
    <2>5. -Half[k] <= ta /\ ta < Half[k] /\ -Half[k] <= tb /\ tb < Half[k]
      BY <1>2, <2>2, <2>4 DEF Holds
    <2>6. RangeFits(k)
      BY <1>5, <2>3, <2>5 DEF RangeFits
    <2> QED
      BY <1>2, <2>6 DEF k
  <1>6. CASE ~d.signed
    <2>1. d.ends = {a, b} /\ d.vmax = tb
      BY <1>4, <1>6 DEF UnsignedSession
    <2>2. Holds(q.size, tb)
      BY <1>3, <2>1
    <2> HIDE DEF tb
    <2>3. ~ q.size < 0
      BY <1>1, <1>6
    <2>4. tb < Pow(k)
      BY <1>2, <2>2, <2>3 DEF Holds
    <2>5. RangeFits(k)
      BY <1>6, <2>1, <2>4 DEF RangeFits
    <2> QED
      BY <1>2, <2>5 DEF k
  <1> QED
    BY <1>5, <1>6

LEMMA LazyDeferred ==
  ASSUME LazyInv
  PROVE  DeferredAsEager
  <1> DEFINE eager == Eagerly(pool, d.ops)
             commit == Committed(TRUE)
  <1> SUFFICES ASSUME ~d.overflow, d.signed = IsSigned(pool), d.ends = EndsOf(pool), ~TooLong(Count(pool))
               PROVE  /\ eager.ret /\ commit.ret
                      /\ Values(commit.pool) = Values(eager.pool)
                      /\ Abs(commit.pool.size) <= Abs(eager.pool.size)
    BY DEF DeferredAsEager
  <1>1. Clean(pool) /\ SessionOk(d) /\ (~d.signed => ~IsSigned(pool))
    BY DEF LazyInv
  <1>2. Enclosed(d.ends, Values(pool))
    BY <1>1, EndsEnclose
  <1> DEFINE n == Len(d.ops)
             v == Values(pool)
  <1>3. EagerlyAt(n, eager)
    BY <1>2, EagerlyIs
  <1>4. d.ops \in Seq(OpType) /\ n \in 0 .. n
    BY <1>1, SessionFields DEF SessionOk
  <1>5. ASSUME NEW x \in Int  PROVE Exact!Through(d.ops, x) = Run(d.ops, x)[n]
    BY <1>4, <1>5, RunIs
  <1> HIDE DEF eager
  <1>6. /\ Clean(eager.pool) /\ eager.ret = TRUE /\ IsSigned(eager.pool) = IsSigned(pool)
        /\ Abs(pool.size) <= Abs(eager.pool.size)
        /\ Values(eager.pool) = [j \in DOMAIN v |-> Run(d.ops, v[j])[n]]
    BY <1>3 DEF EagerlyAt
  <1>v. DOMAIN v = DOMAIN pool.data /\ \A j \in DOMAIN v : v[j] \in Int
    BY <1>1, ValuesDomain, WordOfValue
  <1>7. Values(eager.pool) = [j \in DOMAIN v |-> Exact!Through(d.ops, v[j])]
    <2> HIDE DEF v, n
    <2> QED
      BY <1>5, <1>6, <1>v
  <1> DEFINE ok == TRUE
  <1>8. CommitExactly(commit, ok)
    <2>1. ok \in BOOLEAN /\ commit = Committed(ok)
      OBVIOUS
    <2> HIDE DEF ok, commit
    <2> QED
      BY <1>1, <2>1, CommittedExact
  <1> HIDE DEF commit
  <1>9. commit.ret
    <2>1. commit.ret \in BOOLEAN
      BY <1>8 DEF CommitExactly
    <2>2. ~commit.ret => d.overflow \/ d.signed # IsSigned(pool) \/ ~ok \/ TooLong(Count(pool))
      <3> HIDE DEF ok
      <3> QED
        BY <1>8 DEF CommitExactly
    <2> QED
      BY <2>1, <2>2
  <1>10. Values(commit.pool) = Values(eager.pool)
    <2>1. /\ DOMAIN Values(commit.pool) = DOMAIN v
          /\ \A i \in DOMAIN v : Exact!Within(d.ends, v[i]) =>
               Values(commit.pool)[i] = Exact!Through(d.ops, v[i])
      BY <1>8, <1>9 DEF CommitExactly
    <2>2. \A i \in DOMAIN v : Values(commit.pool)[i] = Exact!Through(d.ops, v[i])
      BY <1>2, <2>1 DEF Enclosed
    <2>3. Values(commit.pool) = [i \in DOMAIN Values(commit.pool) |-> Values(commit.pool)[i]]
      BY DEF Values
    <2>4. Values(commit.pool) = [i \in DOMAIN v |-> Values(commit.pool)[i]]
      BY <2>1, <2>3
    <2> HIDE DEF v
    <2> QED
      BY <1>7, <2>2, <2>4
  <1>11. Abs(commit.pool.size) <= Abs(eager.pool.size)
    <2> DEFINE q == eager.pool
               k == Abs(q.size)
    <2>1. \A m \in Classes :
            Abs(pool.size) <= m /\ (Count(pool) # 0 => RangeFits(m)) => Abs(commit.pool.size) <= m
      BY <1>8, <1>9 DEF CommitExactly
    <2>2. k \in Classes
      <3>1. q.size \in Sizes
        BY <1>6, CleanFacts
      <3> QED
        BY <3>1, SizeFacts
    <2>3. ASSUME Count(pool) # 0  PROVE RangeFits(k)
      <3>1. ASSUME NEW e \in d.ends
            PROVE  \E i \in DOMAIN q.data : Value(q, i) = Exact!Through(d.ops, e)
        <4>1. PICK i \in DOMAIN pool.data : v[i] = e
          BY <1>1, <2>3, <3>1, EndsEnclose
        <4>2. DOMAIN q.data = DOMAIN Values(q) /\ \A j \in DOMAIN q.data : Values(q)[j] = Value(q, j)
          BY ValuesDomain
        <4> HIDE DEF q, v
        <4>3. i \in DOMAIN v /\ DOMAIN Values(q) = DOMAIN v /\ Values(q)[i] = Exact!Through(d.ops, e)
          BY <1>7, <1>v, <4>1 DEF q
        <4> QED
          BY <4>2, <4>3
      <3> HIDE DEF q
      <3>2. Clean(q) /\ IsSigned(q) = IsSigned(pool)
        BY <1>6 DEF q
      <3> QED
        BY <1>1, <3>1, <3>2, RangeOfEnds
    <2>4. Abs(pool.size) <= k
      BY <1>6
    <2> HIDE DEF k
    <2>5. Abs(commit.pool.size) <= k
      BY <2>1, <2>2, <2>3, <2>4
    <2> QED
      BY <2>5 DEF k
  <1> QED
    BY <1>6, <1>9, <1>10, <1>11

\* Deferring is only a saving: on a column with the range its session began with, if
\* there is memory, s2r_defer_commit succeeds with the values of the s2r_*_scalar_safe calls
\* one after another, in a class no wider than theirs.
THEOREM DeferringIsSafe == Careful => (Spec => []DeferredAsEager)
  <1> SUFFICES ASSUME Careful
               PROVE  Spec => []DeferredAsEager
    OBVIOUS
  <1>1. Spec => []LazyInv
    BY AlwaysLazy
  <1>2. LazyInv => DeferredAsEager
    BY LazyDeferred
  <1> QED
    BY <1>1, <1>2, PTL

=============================================================================
