----------------------------- MODULE FileProofs -----------------------------
(***************************************************************************)
(* Columns on disk, for every number and width of classes, every set of    *)
(* files and columns: what a reader returns, after crashes, torn writes    *)
(* and damage, is the column last saved; what was saved can be read; and   *)
(* the ports read it as the library does.                                  *)
(***************************************************************************)
EXTENDS PortFiles, PoolFacts

\* The elements of a class are the words its bytes can hold.
LEMMA ClassPlace ==
  ASSUME NEW size \in Sizes
  PROVE  Pow(Abs(size)) = Place(Bytes(size)) /\ Pow(Abs(size)) <= Pow(K) /\ Pow(K) \in Nat
  <1>1. Abs(size) \in Classes /\ K \in Classes
    BY SizeFacts, ClassAssumption DEF Classes
  <1>2. Bytes(size) = ElemBytes[Abs(size)]
    BY DEF Bytes, Sizes
  <1>3. Pow(Abs(size)) = Place(ElemBytes[Abs(size)])
    BY <1>1, FileAssumption
  <1>4. Pow(Abs(size)) <= Pow(K) /\ Pow(K) \in Nat
    BY <1>1, PowFacts
  <1> QED
    BY <1>2, <1>3, <1>4

\* The payload has the bytes of every element.
LEMMA EncodedType ==
  ASSUME NEW p, InUse(p)
  PROVE  /\ Encoded(p) \in [1 .. Count(p) * Bytes(p.size) -> Byte]
         /\ Len(Encoded(p)) = Count(p) * Bytes(p.size) /\ Encoded(p) \in Seq(Byte)
         /\ Count(p) * Bytes(p.size) \in Nat
  <1> DEFINE n == Count(p)
             e == Bytes(p.size)
             m == n * e
  <1>1. n \in Nat /\ DOMAIN p.data = 1 .. n /\ \A i \in 1 .. n : p.data[i] \in Nat
    BY Fields, PowFacts DEF InUse, Word
  <1>2. e \in Nat \ {0}
    BY SizeFacts DEF InUse, Sound, PoolType, Sizes
  <1>e. Encoded(p) = [b \in 1 .. m |-> ByteOf(p.data[((b - 1) \div e) + 1], (b - 1) % e)]
    BY DEF Encoded
  <1> HIDE DEF n, e
  <1>3. ASSUME NEW b \in 1 .. m  PROVE ByteOf(p.data[((b - 1) \div e) + 1], (b - 1) % e) \in Byte
    <2> DEFINE i == ((b - 1) \div e) + 1
               r == (b - 1) % e
    <2>0. i \in 1 .. n /\ r \in 0 .. e - 1
      <3> USE <1>1, <1>2
      <3>1. b \in 1 .. n * e
        OBVIOUS
      <3> HIDE DEF m
      <3> QED
        BY <3>1, ElementOfByte
    <2>1. i \in 1 .. n /\ r \in Nat
      BY <1>2, <2>0
    <2> HIDE DEF i, r
    <2>2. ByteOf(p.data[i], r) \in Byte
      BY <1>1, <2>1, ByteOfType
    <2> QED
      BY <2>2 DEF i, r
  <1>4. m \in Nat
    BY <1>1, <1>2, SMT
  <1> HIDE DEF m
  <1>5. Encoded(p) \in [1 .. m -> Byte]
    BY <1>e, <1>3
  <1>6. Encoded(p) \in Seq(Byte) /\ Len(Encoded(p)) = m
    BY <1>4, <1>5
  <1> QED
    BY <1>4, <1>5, <1>6 DEF m, n, e

\* A reader of any payload makes words of the class.
LEMMA DecodedType ==
  ASSUME NEW size \in Sizes, NEW bytes \in Seq(Byte)
  PROVE  /\ Decoded(size, bytes) \in Seq(Word)
         /\ Len(Decoded(size, bytes)) = Len(bytes) \div Bytes(size)
         /\ Len(Decoded(size, bytes)) * Bytes(size) <= Len(bytes)
         /\ \A i \in DOMAIN Decoded(size, bytes) : Decoded(size, bytes)[i] < Pow(Abs(size))
  <1> DEFINE e == Bytes(size)
             n == Len(bytes) \div e
             d == [i \in 1 .. n |-> WordOf(SubSeq(bytes, (i - 1) * e + 1, i * e))]
  <1>1. e \in Nat \ {0} /\ Len(bytes) \in Nat
    BY SizeFacts
  <1>d. Decoded(size, bytes) = d
    BY DEF Decoded
  <1>2. n \in Nat /\ n * e <= Len(bytes)
    <2> HIDE DEF e
    <2> QED
      BY <1>1, DivBound
  <1>3. ASSUME NEW i \in 1 .. n
        PROVE  d[i] \in Word /\ d[i] < Pow(Abs(size))
    <2> DEFINE m == (i - 1) * e + 1
               l == i * e
               part == SubSeq(bytes, m, l)
    <2> HIDE DEF e, n
    <2>1. m \in Nat \ {0} /\ l \in Nat /\ l = m + e - 1 /\ l <= n * e /\ n * e \in Nat
      <3>1. 1 \in 1 .. e
        BY <1>1
      <3>2. (i - 1) * e \in Nat /\ i * e \in Nat /\ i * e = (i - 1) * e + e /\ i * e <= n * e
        BY <1>1, <1>2, <3>1, PlaceOfByte
      <3>3. n * e \in Nat
        BY <1>1, <1>2, SMT
      <3> QED
        BY <1>1, <3>2, <3>3
    <2> HIDE DEF m, l
    <2>2. part \in [1 .. e -> Byte]
      <3>1. l <= Len(bytes)
        BY <1>1, <1>2, <2>1
      <3>2. e \in Nat
        BY <1>1
      <3> QED
        BY <2>1, <3>1, <3>2, Stretch
    <2> HIDE DEF part
    <2>3. WordOf(part) \in Nat /\ WordOf(part) < Place(e)
      <3>1. e \in Nat
        BY <1>1
      <3> QED
        BY <2>2, <3>1, WordBound
    <2>4. Place(e) = Pow(Abs(size)) /\ Pow(Abs(size)) <= Pow(K) /\ Pow(K) \in Nat /\ Pow(Abs(size)) \in Int
      BY ClassPlace, SizeFacts, PowFacts DEF e
    <2>5. WordOf(part) \in Word
      BY <2>3, <2>4 DEF Word
    <2>6. d[i] = WordOf(part)
      BY DEF part, m, l, e, n
    <2> QED
      BY <2>3, <2>4, <2>5, <2>6
  <1> HIDE DEF e, n
  <1>4. DOMAIN d = 1 .. n
    OBVIOUS
  <1>5. d \in Seq(Word) /\ Len(d) = n
    BY <1>2, <1>3, <1>4
  <1> HIDE DEF d
  <1> QED
    BY <1>d, <1>2, <1>3, <1>4, <1>5 DEF e, n

\* Reading what was written.
LEMMA DecodedEncoded ==
  ASSUME NEW p, InUse(p)
  PROVE  Decoded(p.size, Encoded(p)) = p.data
  <1> DEFINE n == Count(p)
             e == Bytes(p.size)
             bytes == Encoded(p)
  <1>1. n \in Nat /\ DOMAIN p.data = 1 .. n /\ p.data = [i \in 1 .. n |-> p.data[i]]
    BY Fields DEF InUse, PoolType
  <1>0. \A i \in 1 .. n : p.data[i] \in Nat /\ p.data[i] < Pow(Abs(p.size))
    BY <1>1, Fields, PowFacts DEF InUse, Word, Sound
  <1>2. e \in Nat \ {0} /\ p.size \in Sizes
    BY SizeFacts DEF InUse, Sound, PoolType, Sizes
  <1>3. bytes = [b \in 1 .. n * e |-> ByteOf(p.data[((b - 1) \div e) + 1], (b - 1) % e)]
    BY DEF Encoded
  <1>4. bytes \in Seq(Byte) /\ Len(bytes) = n * e
    BY EncodedType
  <1>5. Decoded(p.size, bytes) = [i \in 1 .. Len(bytes) \div e |-> WordOf(SubSeq(bytes, (i - 1) * e + 1, i * e))]
    BY DEF Decoded
  <1> HIDE DEF n, e, bytes
  <1>6. Len(bytes) \div e = n
    <2> DEFINE v == n * e
               r == 0
    <2>1. v \in Int /\ r \in 0 .. e - 1 /\ v = n * e + r
      BY <1>1, <1>2, SMT
    <2> HIDE DEF v, r
    <2>2. v \div e = n
      BY <1>1, <1>2, <2>1, DivUnique
    <2> QED
      BY <1>4, <2>2 DEF v
  <1>7. ASSUME NEW i \in 1 .. n  PROVE WordOf(SubSeq(bytes, (i - 1) * e + 1, i * e)) = p.data[i]
    <2> DEFINE m == (i - 1) * e + 1
               l == i * e
               part == SubSeq(bytes, m, l)
    <2>1. m \in Nat \ {0} /\ l \in Nat /\ l = m + e - 1 /\ l <= Len(bytes)
      <3>1. 1 \in 1 .. e
        BY <1>2
      <3>2. (i - 1) * e \in Nat /\ i * e \in Nat /\ i * e = (i - 1) * e + e /\ i * e <= n * e
        BY <1>1, <1>2, <3>1, PlaceOfByte
      <3> QED
        BY <1>2, <1>4, <3>2
    <2>2. part \in [1 .. e -> Byte] /\ \A j \in 1 .. e : part[j] = bytes[m + j - 1]
      <3> HIDE DEF m, l
      <3>1. e \in Nat /\ bytes \in Seq(Byte)
        BY <1>2, <1>4
      <3>2. m \in Nat \ {0} /\ l \in Nat /\ l = m + e - 1 /\ l <= Len(bytes)
        BY <2>1
      <3>3. /\ SubSeq(bytes, m, l) \in [1 .. e -> Byte]
            /\ \A j \in 1 .. e : SubSeq(bytes, m, l)[j] = bytes[m + j - 1]
        BY ONLY <3>1, <3>2, Stretch, SMTT(60)
      <3> QED
        BY ONLY <3>3 DEF part
    <2>3. ASSUME NEW j \in 1 .. e  PROVE part[j] = ByteOf(p.data[i], j - 1)
      <3> DEFINE k == (i - 1) * e
                 b == k + j
      <3>0. k \in Nat /\ m = k + 1
        BY <1>2, SMT
      <3>1. b \in 1 .. n * e /\ (b - 1) \div e = i - 1 /\ (b - 1) % e = j - 1
        BY <1>1, <1>2, PlaceOfByte
      <3> HIDE DEF k, m, part
      <3>2. m + j - 1 = b
        BY <3>0
      <3> HIDE DEF b
      <3>3. part[j] = bytes[b]
        BY <2>2, <3>2
      <3>4. bytes[b] = ByteOf(p.data[((b - 1) \div e) + 1], (b - 1) % e)
        BY <1>3, <3>1
      <3>5. ((b - 1) \div e) + 1 = i
        BY <3>1
      <3> QED
        BY <3>1, <3>3, <3>4, <3>5
    <2> HIDE DEF part
    <2>4. WordOf(part) = p.data[i]
      <3>1. p.data[i] < Place(e)
        BY <1>0, <1>2, ClassPlace DEF e
      <3>2. p.data[i] \in Nat /\ e \in Nat
        BY <1>0, <1>2
      <3> QED
        BY <2>2, <2>3, <3>1, <3>2, WordBack
    <2> QED
      BY <2>4 DEF part
  <1> QED
    BY <1>1, <1>5, <1>6, <1>7 DEF bytes

-----------------------------------------------------------------------------
(* Readers.                                                                 *)

\* What is in memory fits in a size_t with room to spare.
LEMMA MemoryBound ==
  /\ Memory \in Nat /\ SizeMax \in Nat /\ Align \in Nat \ {0}
  /\ Memory + Align - 1 <= SizeMax /\ HeaderItems + Memory + Trailer <= SizeMax
  <1> DEFINE e == ElemBytes[1]
             l == 2 * Memory + InitialCap + 2
  <1>1. 1 \in Classes
    BY ClassAssumption DEF Classes
  <1>2. e \in Nat \ {0} /\ e * l + Align <= SizeMax + 1
    BY <1>1, ClassAssumption, AddressAssumption DEF Classes
  <1>3. l \in Nat /\ Memory <= l
    BY MemoryAssumption, AddressAssumption
  <1> HIDE DEF e, l
  <1>4. l <= e * l /\ e * l \in Nat
    BY <1>2, <1>3
  <1> DEFINE m == e * l
  <1>5. m \in Nat /\ l <= m /\ m + Align <= SizeMax + 1
    BY <1>2, <1>4
  <1> HIDE DEF m
  <1>6. Memory + Align - 1 <= SizeMax
    BY <1>3, <1>5, MemoryAssumption, AddressAssumption
  <1> QED
    BY <1>6, MemoryAssumption, AddressAssumption, FileAssumption

\* Quotients keep the order.
LEMMA DivGrows ==
  ASSUME NEW n \in Nat \ {0}, NEW a \in Nat, NEW b \in Nat, a <= b
  PROVE  a \div n <= b \div n
  <1> DEFINE qa == a \div n
             ra == a % n
             qb == b \div n
             rb == b % n
  <1>1. qa \in Int /\ a = qa * n + ra /\ ra \in 0 .. n - 1
    BY DivMod
  <1>2. qb \in Int /\ b = qb * n + rb /\ rb \in 0 .. n - 1
    BY DivMod
  <1> HIDE DEF qa, ra, qb, rb
  <1>3. qa <= qb
    <2> SUFFICES ASSUME qb <= qa - 1  PROVE FALSE
      BY <1>1, <1>2
    <2>1. qb * n <= (qa - 1) * n /\ (qa - 1) * n = qa * n - n
      BY <1>1, <1>2, SMT
    <2>2. qa * n \in Int /\ qb * n \in Int
      BY <1>1, <1>2, SMT
    <2> DEFINE x == qa * n
               y == qb * n
    <2>3. a = x + ra /\ b = y + rb /\ y <= x - n /\ x \in Int /\ y \in Int
      BY <1>1, <1>2, <2>1, <2>2
    <2> HIDE DEF x, y
    <2> QED
      BY <1>1, <1>2, <2>3
  <1> QED
    BY <1>3 DEF qa, qb

\* A block for what is in memory is in memory: the memory is whole units.
LEMMA AlignedFits ==
  ASSUME NEW a \in Nat, a <= Memory
  PROVE  AlignUp(a) <= Memory /\ AlignUp(a) \in Nat /\ a <= AlignUp(a)
  <1> DEFINE n == Align
             v == a + n - 1
             w == Memory + n - 1
             q == v \div n
             k == Memory \div n
             l == SizeMax + 1
  <1>1. n \in Nat \ {0} /\ Memory \in Nat /\ SizeMax \in Nat /\ w <= SizeMax
    BY MemoryBound
  <1>2. v \in Nat /\ w \in Nat /\ v <= w /\ v \in 0 .. l - 1 /\ l \in Nat \ {0}
    BY <1>1
  <1>3. v % l = v
    <2> HIDE DEF v, l
    <2> QED
      BY <1>2, ModSame
  <1>4. AlignUp(a) = v - (v % n)
    <2>1. AlignUp(a) = (v % l) - ((v % l) % n)
      BY DEF AlignUp
    <2> QED
      BY <1>3, <2>1
  <1>5. k \in Int /\ Memory = k * n
    <2>1. k \in Int /\ Memory = k * n + (Memory % n)
      BY <1>1, DivMod
    <2>2. Memory % n = 0
      BY FileAssumption
    <2> HIDE DEF k, n
    <2>3. k * n \in Int
      BY <1>1, <2>1
    <2> QED
      BY <2>1, <2>2, <2>3
  <1>6. q \in Int /\ v = q * n + (v % n) /\ v % n \in 0 .. n - 1
    <2> HIDE DEF v
    <2> QED
      BY <1>1, <1>2, DivMod
  <1>7. q <= k
    <2>1. q <= w \div n
      <3> HIDE DEF v, w, n
      <3> QED
        BY <1>1, <1>2, DivGrows
    <2>2. w \div n = k
      <3> DEFINE r == n - 1
      <3>1. r \in 0 .. n - 1 /\ w = k * n + r /\ w \in Int
        BY <1>1, <1>2, <1>5
      <3> HIDE DEF r, w, n, k
      <3> QED
        BY <1>1, <1>5, <3>1, DivUnique
    <2> QED
      BY <2>1, <2>2
  <1> HIDE DEF q, k, l
  <1>8. q * n <= k * n /\ q * n \in Int
    <2> HIDE DEF n
    <2> QED
      BY <1>1, <1>5, <1>6, <1>7, SMT
  <1>9. AlignUp(a) = q * n /\ a <= q * n
    <2> DEFINE x == q * n
               y == v % n
    <2>1. v = x + y /\ y \in 0 .. n - 1 /\ x \in Int /\ AlignUp(a) = v - y /\ v = a + n - 1
      BY <1>4, <1>6, <1>8
    <2> HIDE DEF x, y, v, n
    <2> QED
      BY <1>1, <2>1 DEF x
  <1> DEFINE x == q * n
  <1>10. x <= Memory /\ AlignUp(a) = x /\ a <= x /\ x \in Int
    BY <1>5, <1>8, <1>9
  <1> HIDE DEF x
  <1> QED
    BY <1>1, <1>10

\* A created pool got the block it asked for.
LEMMA InitFits ==
  ASSUME NEW heap \in Int, NEW size \in Sizes, NEW cap \in Nat, NEW ok \in BOOLEAN
  PROVE  /\ PoolInit(heap, size, cap, ok).ret /\ Aligns(cap * Bytes(size)) => cap * Bytes(size) <= Memory
         /\ ok /\ cap * Bytes(size) <= Memory => PoolInit(heap, size, cap, ok).ret
  <1> DEFINE m == cap * Bytes(size)
             bytes == AlignUp(m)
             r == PoolInit(heap, size, cap, ok)
             fresh == [Zeroed(heap) EXCEPT !.size = size, !.flags = SignFlag(size), !.capacity = cap]
             q == [fresh EXCEPT !.buf = "heap", !.byte_cap = bytes, !.heap = @ + 1]
  <1>1. r = IF cap = 0 THEN Result(fresh, TRUE)
            ELSE IF m > SizeMax \/ ~CanAlloc(ok, bytes) THEN Result(fresh, FALSE) ELSE Result(q, TRUE)
    BY DEF PoolInit
  <1>0. m \in Nat /\ Memory \in Nat /\ SizeMax \in Nat /\ Memory <= SizeMax
    <2>1. Bytes(size) \in Nat
      BY SizeFacts
    <2>2. m \in Nat
      <3> DEFINE e == Bytes(size)
      <3> HIDE DEF e
      <3> QED
        BY <2>1, SMT DEF e
    <2> HIDE DEF m
    <2> QED
      BY <2>2, MemoryBound
  <1>2. cap = 0 => m = 0
    BY SizeFacts
  <1>3. m <= Memory => bytes <= Memory
    <2> HIDE DEF m
    <2> QED
      BY <1>0, AlignedFits
  <1>4. Aligns(m) /\ m <= SizeMax /\ bytes <= Memory => m <= Memory
    <2> SUFFICES ASSUME Aligns(m), m <= SizeMax, bytes <= Memory  PROVE m <= Memory
      OBVIOUS
    <2> HIDE DEF m
    <2>1. m <= AlignUp(m) /\ AlignUp(m) \in Nat
      BY <1>0, GrantedEnough, AlignUpBound
    <2> QED
      BY <1>0, <2>1
  <1> HIDE DEF m, bytes, fresh, q, r
  <1>5. r.ret => cap = 0 \/ (~ m > SizeMax /\ bytes <= Memory)
    BY <1>1 DEF CanAlloc, Result
  <1>6. cap = 0 \/ (~ m > SizeMax /\ ok /\ bytes <= Memory) => r.ret
    BY <1>1 DEF CanAlloc, Result
  <1>7. r.ret /\ Aligns(m) => m <= Memory
    BY <1>0, <1>2, <1>4, <1>5
  <1>8. ok /\ m <= Memory => r.ret
    BY <1>0, <1>3, <1>6
  <1> QED
    BY <1>7, <1>8 DEF m, r

\* A column that fits in memory, and claims an order only if it has it.
Fits(p)     == Count(p) * Bytes(p.size) <= Memory
Storable(p) == InUse(p) /\ OrderKnown(p) /\ Fits(p)

\* What is in a file, damaged or not.
ImageRecord(img) ==
  img = [magic |-> img.magic, size |-> img.size, count |-> img.count, payload |-> img.payload,
         flags |-> img.flags, fmt |-> img.fmt, reserved |-> img.reserved, crc |-> img.crc]
ImageType(img) ==
  /\ ImageRecord(img)
  /\ img.payload \in Seq(Byte) /\ Len(img.payload) <= Memory
  /\ img.count \in Nat /\ img.size \in -K .. K /\ img.flags \in SUBSET Flags

\* The pool a reader fills from an image.
Declared(img) == img.count * Bytes(img.size)
Fills(img, flags, q) ==
  /\ InUse(q) /\ Fits(q)
  /\ q.data = Decoded(img.size, SubSeq(img.payload, 1, Declared(img)))
  /\ q.size = img.size /\ q.flags = flags /\ Count(q) = img.count
  /\ \/ q.buf = "null" /\ q.heap = 0
     \/ q.buf = "heap" /\ q.heap = 1

\* A read fills a pool with what was announced, or memory ran out.
LEMMA ReadEffect ==
  ASSUME NEW d, ImageType(d.image), GoodSize(d.image.size),
         Declared(d.image) <= Len(d.image.payload),
         NEW flags \in SUBSET Flags, NEW ok \in BOOLEAN
  PROVE  LET r == Read(0, d, flags, ok) IN
         \/ r = Refused(0) /\ ~ok
         \/ r.ret = TRUE /\ Fills(d.image, flags, r.pool)
  <1> DEFINE img == d.image
             size == img.size
             n == img.count
             e == Bytes(size)
             m == n * e
             bytes == SubSeq(img.payload, 1, m)
             data == Decoded(size, bytes)
             h == 0
             s == PoolInit(h, size, n, ok)
             q == [s.pool EXCEPT !.data = data, !.flags = flags]
             r == Read(0, d, flags, ok)
  <1>1. /\ img.payload \in Seq(Byte) /\ Len(img.payload) \in Nat
        /\ Len(img.payload) <= Memory /\ n \in Nat
    BY DEF ImageType
  <1>2. size \in Sizes
    BY DEF ImageType, GoodSize, Sizes
  <1>3. e \in Nat \ {0}
    BY <1>2, SizeFacts
  <1>4. m \in Nat /\ m <= Len(img.payload)
    <2>1. m <= Len(img.payload)
      BY DEF Declared
    <2> QED
      BY <1>1, <1>3, <2>1
  <1>r. r = IF ~s.ret THEN Refused(0) ELSE Result(q, TRUE)
    BY DEF Read
  <1>h. h \in Int /\ h = 0
    OBVIOUS
  <1> HIDE DEF h, img, size, n, e
  <1>5. bytes \in Seq(Byte) /\ Len(bytes) = m
    <2> HIDE DEF m
    <2> QED
      BY <1>1, <1>4, Prefix
  <1>6. m \div e = n
    <2> DEFINE x == 0
    <2>1. m \in Int /\ x \in 0 .. e - 1 /\ m = n * e + x
      BY <1>1, <1>3, <1>4
    <2>2. n \in Int
      BY <1>1
    <2> HIDE DEF m, x
    <2> QED
      BY ONLY <1>3, <2>1, <2>2, DivUnique
  <1>7. m <= Memory /\ Aligns(m)
    <2> HIDE DEF m
    <2> QED
      BY <1>1, <1>4, MemoryBound DEF Aligns
  <1>8. /\ data \in Seq(Word) /\ Len(data) = n
        /\ \A i \in DOMAIN data : data[i] < Pow(Abs(size))
    <2> HIDE DEF bytes
    <2> QED
      BY <1>2, <1>5, <1>6, DecodedType DEF e
  <1>9. ok => s.ret
    <2>1. n * Bytes(size) <= Memory
      BY <1>7 DEF e
    <2> QED
      BY <1>1, <1>2, <1>h, <2>1, InitFits
  <1>10. s.ret => Fills(d.image, flags, q)
    <2> SUFFICES ASSUME s.ret  PROVE Fills(d.image, flags, q)
      OBVIOUS
    <2>1. Fresh(h, size, s.pool) /\ s.pool \in PoolType
      BY <1>1, <1>2, <1>h, PoolInitEffect, PoolInitInUse
    <2> DEFINE q1 == [s.pool EXCEPT !.data = data]
               q2 == [q1 EXCEPT !.flags = flags]
    <2>2. InUse(q1)
      <3> HIDE DEF data
      <3>1. PoolInit(h, size, Len(data), ok).ret /\ s = PoolInit(h, size, Len(data), ok)
        BY <1>8
      <3>2. Aligns(Len(data) * Bytes(size))
        BY <1>7, <1>8 DEF e
      <3> HIDE DEF s
      <3> QED
        BY <1>2, <1>8, <1>h, <3>1, <3>2, FilledInUse
    <2> HIDE DEF s, data
    <2>3. q1 \in PoolType
      BY <2>2 DEF InUse
    <2>4. q1.data = data /\ q1.size = s.pool.size /\ q1.buf = s.pool.buf /\ q1.heap = s.pool.heap
      BY <2>1 DEF PoolType
    <2>5. q = q2
      BY <2>1 DEF PoolType
    <2> HIDE DEF q1, q
    <2>6. InUse(q2)
      BY <2>2, FlagInUse
    <2>7. /\ q2.data = q1.data /\ q2.size = q1.size /\ q2.flags = flags
          /\ q2.buf = q1.buf /\ q2.heap = q1.heap
      BY <2>3 DEF PoolType
    <2> HIDE DEF q2
    <2>8. /\ q.data = data /\ q.size = size /\ q.flags = flags /\ InUse(q)
          /\ \/ q.buf = "null" /\ q.heap = h
             \/ q.buf = "heap" /\ q.heap = h + 1
      BY <2>1, <2>4, <2>5, <2>6, <2>7 DEF Fresh
    <2>9. Count(q) = n
      BY <1>8, <2>8 DEF Count
    <2>10. Fits(q)
      BY <1>7, <2>8, <2>9 DEF Fits, e
    <2>11. q.data = Decoded(img.size, SubSeq(img.payload, 1, Declared(img)))
      BY <2>8 DEF data, bytes, Declared, size, n, e
    <2>12. q.size = img.size /\ q.flags = flags /\ Count(q) = img.count
      BY <2>8, <2>9 DEF size, n
    <2>13. \/ q.buf = "null" /\ q.heap = 0
           \/ q.buf = "heap" /\ q.heap = 1
      <3>1. h = 0 /\ h + 1 = 1
        BY <1>h
      <3> QED
        BY <2>8, <3>1
    <2> QED
      BY <2>8, <2>10, <2>11, <2>12, <2>13 DEF Fills, img
  <1> HIDE DEF s, q, r
  <1>11. CASE s.ret
    <2>1. r = Result(q, TRUE)
      BY <1>r, <1>11
    <2>2. r.ret = TRUE /\ r.pool = q
      BY <2>1 DEF Result
    <2> QED
      BY <1>10, <1>11, <2>2 DEF r
  <1>12. CASE ~s.ret
    BY <1>r, <1>9, <1>12 DEF r
  <1> QED
    BY <1>11, <1>12

\* A refusal leaves an empty structure.
LEMMA RefusedIs ==
  Refused(0).ret = FALSE /\ Refused(0).pool = Zeroed(0)
  BY DEF Refused, Result

\* The payload and the checksum announced are the file.
LengthExact(d) ==
  CountFits(d.image) /\ PayloadBytes(d.image) = Len(d.image.payload) /\ d.len = Whole(d.image)

\* An exact length is that of the elements announced.
LEMMA ExactAnnounced ==
  ASSUME NEW d, ImageType(d.image), GoodSize(d.image.size), LengthExact(d)
  PROVE  Declared(d.image) = Len(d.image.payload)
  <1> DEFINE n == d.image.count
             e == Bytes(d.image.size)
             m == n * e
             q == SizeMax \div e
  <1>1. n \in Nat /\ e \in Nat \ {0}
    <2>1. d.image.size \in Sizes
      BY DEF ImageType, GoodSize, Sizes
    <2> QED
      BY <2>1, SizeFacts DEF ImageType
  <1>2. n <= q /\ SizeT(m) = Len(d.image.payload)
    BY DEF LengthExact, CountFits, PayloadBytes
  <1>3. q \in Nat /\ q * e <= SizeMax /\ SizeMax \in Nat
    <2> HIDE DEF e
    <2> QED
      BY <1>1, DivBound, MemoryAssumption
  <1> HIDE DEF n, e, q
  <1>4. m \in Nat /\ n * e <= q * e /\ q * e \in Int
    BY <1>1, <1>2, <1>3, SMT
  <1>5. m <= SizeMax
    BY <1>3, <1>4
  <1>6. m = Declared(d.image)
    BY DEF Declared, n, e
  <1> HIDE DEF m
  <1>7. SizeT(m) = m
    <2> DEFINE k == 0
               l == SizeMax + 1
    <2>1. k \in Int /\ l \in Nat \ {0} /\ m \in 0 .. l - 1 /\ m \in Int
      BY <1>3, <1>4, <1>5
    <2>2. m = k * l + m
      BY <1>4, <2>1
    <2> HIDE DEF k, l
    <2>3. m % l = m
      BY <2>1, <2>2, ModUnique
    <2> QED
      BY <2>3 DEF SizeT, l
  <1> QED
    BY <1>2, <1>6, <1>7

\* The length of a file with a checksum, and what a size_t makes of it.
LEMMA LengthWithChecksum ==
  ASSUME NEW img, ImageType(img), Len(img.crc) = Trailer
  PROVE  /\ Whole(img) = HeaderItems + Len(img.payload) + Trailer /\ Whole(img) \in Nat
         /\ SizeT(Whole(img)) = Whole(img) /\ HeaderItems + Trailer <= Whole(img)
         /\ Whole(img) <= HeaderItems + Memory + Trailer
  <1> DEFINE n == Len(img.payload)
             v == HeaderItems + n + Trailer
             l == SizeMax + 1
  <1>1. n \in Nat /\ n <= Memory
    BY DEF ImageType
  <1>3. Whole(img) = v
    BY DEF Whole
  <1> HIDE DEF n
  <1>4. v \in Nat /\ HeaderItems + Trailer <= v /\ v <= HeaderItems + Memory + Trailer /\ v \in 0 .. l - 1
        /\ l \in Nat \ {0}
    BY <1>1, MemoryBound DEF HeaderItems, Trailer
  <1>5. SizeT(v) = v
    <2> HIDE DEF v
    <2>1. v % l = v
      <3> HIDE DEF l
      <3> QED
        BY <1>4, ModSame
    <2> QED
      BY <2>1 DEF SizeT, l
  <1> HIDE DEF v
  <1>6. Whole(img) = v
    BY <1>3
  <1> QED
    BY <1>4, <1>5, <1>6 DEF v, n

LEMMA ChecksumLength ==
  ASSUME NEW img, CrcGood(img)
  PROVE  Len(img.crc) = Trailer
  BY DEF CrcGood, Crc, Trailer

\* A size_t is no larger than the number it stands for.
LEMMA SizeTBelow ==
  ASSUME NEW n \in Nat
  PROVE  SizeT(n) \in 0 .. SizeMax /\ SizeT(n) <= n
  <1> DEFINE l == SizeMax + 1
  <1>1. l \in Nat \ {0} /\ SizeMax \in Nat /\ l - 1 = SizeMax
    BY MemoryAssumption
  <1> HIDE DEF l
  <1>2. n % l \in Nat /\ n % l <= n /\ n % l \in 0 .. l - 1
    BY <1>1, ModBelow, ModRange
  <1> QED
    BY <1>1, <1>2 DEF SizeT, l

\* What is in memory is counted by a size_t.
LEMMA CountedExactly ==
  ASSUME NEW n \in Nat, NEW e \in Nat \ {0}, n * e <= Memory
  PROVE  n <= SizeMax \div e /\ SizeT(n * e) = n * e
  <1> DEFINE m == n * e
             q == SizeMax \div e
             l == SizeMax + 1
  <1>1. m \in Nat
    BY SMT
  <1>2. m = n * e
    OBVIOUS
  <1>3. m <= SizeMax /\ SizeMax \in Nat
    <2>1. m <= Memory
      OBVIOUS
    <2> HIDE DEF m
    <2> QED
      BY <1>1, <2>1, MemoryBound
  <1>4. q \in Nat /\ SizeMax = (q * e) + (SizeMax % e) /\ (SizeMax % e) \in 0 .. e - 1
    <2> HIDE DEF m
    <2>1. q \in Nat
      BY <1>3, DivBound
    <2>2. SizeMax = (q * e) + (SizeMax % e) /\ (SizeMax % e) \in 0 .. e - 1
      BY <1>3, DivMod
    <2> QED
      BY <2>1, <2>2
  <1> HIDE DEF m, q, l
  <1>5. n <= q
    <2> SUFFICES ASSUME n >= q + 1  PROVE FALSE
      BY <1>4
    <2>1. n * e >= (q + 1) * e /\ (q + 1) * e = (q * e) + e
      BY <1>4, SMT
    <2> QED
      BY <1>2, <1>3, <1>4, <2>1
  <1>6. l \in Nat \ {0} /\ m \in 0 .. l - 1
    BY <1>1, <1>3 DEF l
  <1>7. m % l = m
    BY <1>6, ModSame
  <1> QED
    BY <1>2, <1>5, <1>7 DEF SizeT, l, q

\* A payload that is as long as announced is counted right.
LEMMA DeclaredCounted ==
  ASSUME NEW img, ImageType(img), GoodSize(img.size), Declared(img) = Len(img.payload)
  PROVE  CountFits(img) /\ PayloadBytes(img) = Len(img.payload)
  <1> DEFINE n == img.count
             e == Bytes(img.size)
             l == Len(img.payload)
  <1>1. n \in Nat /\ l <= Memory /\ img.size \in Sizes
    BY DEF ImageType, GoodSize, Sizes
  <1>2. e \in Nat \ {0}
    BY <1>1, SizeFacts
  <1>3. n * e = l
    BY DEF Declared
  <1>4. CountFits(img) <=> n <= SizeMax \div e
    BY DEF CountFits
  <1>5. PayloadBytes(img) = SizeT(n * e)
    BY DEF PayloadBytes
  <1> HIDE DEF n, e, l
  <1>6. n <= SizeMax \div e /\ SizeT(n * e) = n * e
    BY <1>1, <1>2, <1>3, CountedExactly
  <1> QED
    BY <1>3, <1>4, <1>5, <1>6 DEF l

\* What s2r_load_portable reads through to its end is exact.
LEMMA LoaderExact ==
  ASSUME NEW d, ImageType(d.image), d.len \in Nat
  PROVE  LoaderAccepts(d) <=> (HeaderGood(d.image) /\ LengthExact(d) /\ CrcGood(d.image))
  <1> DEFINE n == PayloadBytes(d.image)
             w == Whole(d.image)
             l == Len(d.image.payload)
  <1>1. ASSUME LoaderAccepts(d)
        PROVE  HeaderGood(d.image) /\ LengthExact(d) /\ CrcGood(d.image)
    <2>1. /\ HeaderGood(d.image) /\ CountFits(d.image) /\ n = l /\ CrcGood(d.image)
          /\ ~ d.len > HeaderItems + n + Trailer /\ d.len >= w
      BY <1>1 DEF LoaderAccepts, CrcMatches
    <2>2. w = HeaderItems + l + Trailer /\ w \in Nat
      BY <2>1, LengthWithChecksum, ChecksumLength
    <2> HIDE DEF n, w, l
    <2>3. d.len = w
      BY <2>1, <2>2
    <2> QED
      BY <2>1, <2>3 DEF LengthExact, n, w, l
  <1>2. ASSUME HeaderGood(d.image), LengthExact(d), CrcGood(d.image)
        PROVE  LoaderAccepts(d)
    <2>1. CountFits(d.image) /\ n = l /\ d.len = w
      BY <1>2 DEF LengthExact
    <2>2. w = HeaderItems + l + Trailer /\ w \in Nat
      BY <1>2, LengthWithChecksum, ChecksumLength
    <2> HIDE DEF n, w, l
    <2>3. HeaderItems + n + Trailer <= d.len /\ ~ d.len > HeaderItems + n + Trailer /\ d.len >= w
      BY <2>1, <2>2
    <2> QED
      BY <1>2, <2>1, <2>3 DEF LoaderAccepts, CrcMatches, n, w, l
  <1> QED
    BY <1>1, <1>2

\* So is what s2r_map_open verifies: a length that wraps is that of no file.
LEMMA MapExact ==
  ASSUME NEW d, ImageType(d.image), d.len \in Nat, d.there
  PROVE  MapAccepts(d, TRUE) <=>
           (d.image.magic = "V33" /\ HeaderGood(d.image) /\ LengthExact(d) /\ CrcGood(d.image))
  <1> DEFINE n == PayloadBytes(d.image)
             w == Whole(d.image)
             l == Len(d.image.payload)
             v == HeaderItems + n + Trailer
  <1>1. ASSUME MapAccepts(d, TRUE)
        PROVE  d.image.magic = "V33" /\ HeaderGood(d.image) /\ LengthExact(d) /\ CrcGood(d.image)
    <2>1. /\ d.image.magic = "V33" /\ HeaderGood(d.image) /\ CountFits(d.image)
          /\ n = l /\ CrcGood(d.image) /\ SizeT(v) = d.len /\ d.len >= w
      BY <1>1 DEF MapAccepts, CrcMatches
    <2>2. w = HeaderItems + l + Trailer /\ w \in Nat /\ SizeT(w) = w
      BY <2>1, LengthWithChecksum, ChecksumLength
    <2>3. v = w
      BY <2>1, <2>2
    <2> HIDE DEF n, w, l, v
    <2>4. d.len = w
      BY <2>1, <2>2, <2>3
    <2> QED
      BY <2>1, <2>4 DEF LengthExact, n, w, l
  <1>2. ASSUME d.image.magic = "V33", HeaderGood(d.image), LengthExact(d), CrcGood(d.image)
        PROVE  MapAccepts(d, TRUE)
    <2>1. CountFits(d.image) /\ n = l /\ d.len = w
      BY <1>2 DEF LengthExact
    <2>2. /\ w = HeaderItems + l + Trailer /\ w \in Nat /\ SizeT(w) = w
          /\ HeaderItems + Trailer <= w /\ w <= HeaderItems + Memory + Trailer
      BY <1>2, LengthWithChecksum, ChecksumLength
    <2>3. v = w
      BY <2>1, <2>2
    <2> HIDE DEF n, w, l, v
    <2>4. /\ SizeT(v) = d.len /\ d.len >= HeaderItems + Trailer
          /\ d.len <= HeaderItems + Memory + Trailer /\ d.len >= w
      BY <2>1, <2>2, <2>3 DEF HeaderItems, Trailer
    <2> QED
      BY <1>2, <2>1, <2>4 DEF MapAccepts, CrcMatches, n, w, l, v
  <1> QED
    BY <1>1, <1>2

\* Verified or not, the payload of a mapping is in memory, and what lies between the
\* header and the checksum.
LEMMA MapLength ==
  ASSUME NEW d, d.len \in Nat, NEW verify \in BOOLEAN, MapAccepts(d, verify),
         d.image.count * Bytes(d.image.size) \in Nat
  PROVE  /\ PayloadBytes(d.image) \in Nat /\ PayloadBytes(d.image) <= Memory
         /\ d.len = HeaderItems + PayloadBytes(d.image) + Trailer
  <1> DEFINE n == PayloadBytes(d.image)
             v == n + 4
             l == SizeMax + 1
  <1>1. n \in 0 .. SizeMax
    <2> DEFINE m == d.image.count * Bytes(d.image.size)
    <2>1. m \in Nat /\ n = SizeT(m)
      BY DEF PayloadBytes
    <2> HIDE DEF m, n
    <2> QED
      BY <2>1, SizeTBelow
  <1>2. /\ SizeT(HeaderItems + n + Trailer) = d.len /\ d.len >= 4 /\ d.len <= Memory + 4
    BY MemoryBound DEF MapAccepts, HeaderItems, Trailer
  <1>3. HeaderItems + n + Trailer = v
    BY <1>1, MemoryBound DEF HeaderItems, Trailer
  <1>s. SizeT(v) = v % l
    BY DEF SizeT
  <1>l. v = n + 4 /\ l = SizeMax + 1 /\ SizeMax \in Nat
    BY MemoryBound
  <1> HIDE DEF n, v, l
  <1>4. v \in Nat /\ l \in Nat \ {0}
    BY <1>1, <1>l
  <1>5. v % l = d.len
    BY <1>2, <1>3, <1>s
  <1>6. CASE v <= l - 1
    <2>1. v \in 0 .. l - 1
      BY <1>4, <1>6
    <2>2. v % l = v
      BY <1>4, <2>1, ModSame
    <2>3. d.len = v
      BY <1>5, <2>2
    <2>4. n <= Memory
      BY <1>1, <1>2, <1>l, <2>3, MemoryBound
    <2> QED
      BY <1>1, <1>3, <2>3, <2>4, MemoryBound DEF n
  <1>7. CASE l <= v
    <2> DEFINE u == v - l
    <2>1. u \in Nat /\ u <= 3 /\ v = l + u
      BY <1>1, <1>4, <1>7, <1>l
    <2> HIDE DEF u
    <2>2. v % l = u % l
      BY <1>4, <2>1, SMT
    <2>3. u % l \in Nat /\ u % l <= u
      BY <1>4, <2>1, ModBelow
    <2> QED
      BY <1>2, <1>5, <2>1, <2>2, <2>3
  <1> QED
    BY <1>4, <1>6, <1>7

\* The bytes found are the payload, when there are as many.
LEMMA FoundIs ==
  ASSUME NEW d, d.image.payload \in Seq(Byte)
  PROVE  /\ Found(d, Len(d.image.payload)) = d.image.payload
         /\ \A n \in Nat : Found(d, n) \in Seq(Byte) /\ Len(Found(d, n)) = n
  <1> DEFINE p == d.image.payload
  <1>1. p \in Seq(Byte) /\ DOMAIN p = 1 .. Len(p) /\ \A b \in DOMAIN p : p[b] \in Byte
    OBVIOUS
  <1>2. p = [b \in 1 .. Len(p) |-> p[b]]
    BY <1>1
  <1>3. Found(d, Len(p)) = [b \in 1 .. Len(p) |-> p[b]]
    BY <1>1 DEF Found
  <1>4. 0 \in Byte
    BY PowFacts, ClassAssumption DEF Byte, Classes
  <1>5. ASSUME NEW n \in Nat  PROVE Found(d, n) \in Seq(Byte) /\ Len(Found(d, n)) = n
    <2>1. Found(d, n) = [b \in 1 .. n |-> IF b \in DOMAIN p THEN p[b] ELSE 0]
      BY DEF Found
    <2> HIDE DEF p
    <2>2. \A b \in 1 .. n : (IF b \in DOMAIN p THEN p[b] ELSE 0) \in Byte
      BY <1>1, <1>4
    <2> QED
      BY <2>1, <2>2
  <1> QED
    BY <1>2, <1>3, <1>5

\* Each reader gives what the image announces, or nothing at all.
LEMMA LoadEffect ==
  ASSUME NEW d, d.there => ImageType(d.image), NEW ok \in BOOLEAN
  PROVE  LET r == s2r_load(0, d, ok) IN
         \/ r = Refused(0)
         \/ /\ r.ret = TRUE /\ Fills(d.image, d.image.flags, r.pool)
            /\ d.there /\ d.image.magic = "V32"
            /\ GoodSize(d.image.size) /\ HasPayload(d, Declared(d.image))
  <1> DEFINE r == s2r_load(0, d, ok)
             s == Read(0, d, d.image.flags, ok)
             good == /\ d.there /\ d.image.magic = "V32"
                     /\ GoodSize(d.image.size) /\ HasPayload(d, Declared(d.image))
  <1>1. r = Refused(0) \/ (r = s /\ good)
    BY DEF s2r_load, Declared
  <1>2. CASE good /\ r = s
    <2>1. d.image.flags \in SUBSET Flags /\ Declared(d.image) <= Len(d.image.payload)
      BY <1>2 DEF ImageType, HasPayload
    <2>2. \/ s = Refused(0) /\ ~ok
          \/ s.ret = TRUE /\ Fills(d.image, d.image.flags, s.pool)
      BY <1>2, <2>1, ReadEffect
    <2> HIDE DEF r, s
    <2>3. \/ r = Refused(0)
          \/ r.ret = TRUE /\ Fills(d.image, d.image.flags, r.pool)
      BY <1>2, <2>2
    <2> QED
      BY <1>2, <2>3 DEF r
  <1> QED
    BY <1>1, <1>2

\* s2r_load_portable of a file of either format.
LEMMA LoadPortableEffect ==
  ASSUME NEW d, d.there => ImageType(d.image) /\ d.len \in Nat, NEW ok \in BOOLEAN
  PROVE  LET r == s2r_load_portable(0, d, ok) IN
         \/ r = Refused(0)
         \/ /\ r.ret = TRUE /\ Fills(d.image, FormatFlags(d.image.flags), r.pool) /\ d.there
            /\ \/ /\ d.image.magic = "V32"
                  /\ GoodSize(d.image.size) /\ HasPayload(d, Declared(d.image))
               \/ d.image.magic = "V33" /\ HeaderGood(d.image) /\ LengthExact(d) /\ CrcGood(d.image)
  <1> DEFINE r == s2r_load_portable(0, d, ok)
             fl == FormatFlags(d.image.flags)
             s == Read(0, d, fl, ok)
             old == /\ d.image.magic = "V32"
                    /\ GoodSize(d.image.size) /\ HasPayload(d, Declared(d.image))
             new == d.image.magic = "V33" /\ HeaderGood(d.image) /\ LengthExact(d) /\ CrcGood(d.image)
  <1>1. r = Refused(0) \/ (r = s /\ d.there /\ (old \/ new))
    <2>1. r = Refused(0) \/ (r = s /\ d.there /\ (old \/ (d.image.magic = "V33" /\ LoaderAccepts(d))))
      BY DEF s2r_load_portable, Declared
    <2> HIDE DEF r, s, old
    <2> QED
      BY <2>1, LoaderExact
  <1>2. CASE r = s /\ d.there /\ (old \/ new)
    <2>1. fl \in SUBSET Flags
      BY <1>2 DEF ImageType, FormatFlags
    <2>2. GoodSize(d.image.size)
      BY <1>2 DEF HeaderGood
    <2>3. Declared(d.image) <= Len(d.image.payload)
      <3>1. CASE old
        BY <3>1 DEF HasPayload
      <3>2. CASE new
        <4>1. Declared(d.image) = Len(d.image.payload) /\ Len(d.image.payload) \in Nat
          BY <1>2, <2>2, <3>2, ExactAnnounced DEF ImageType
        <4> QED
          BY <4>1
      <3> QED
        BY <1>2, <3>1, <3>2
    <2> HIDE DEF fl
    <2>4. \/ s = Refused(0) /\ ~ok
          \/ s.ret = TRUE /\ Fills(d.image, fl, s.pool)
      BY <1>2, <2>1, <2>2, <2>3, ReadEffect
    <2> HIDE DEF r, s, old, new
    <2>5. \/ r = Refused(0)
          \/ r.ret = TRUE /\ Fills(d.image, fl, r.pool)
      BY <1>2, <2>4
    <2> QED
      BY <1>2, <2>5 DEF r, old, new, fl
  <1> QED
    BY <1>1, <1>2

\* The pool over a mapping of a file.
Maps(d, q) ==
  /\ Honest(q) /\ Fits(q) /\ "EXTERNAL" \in q.flags
  /\ q.data = Decoded(d.image.size, Found(d, PayloadBytes(d.image))) /\ q.size = d.image.size
  /\ q.flags = SignFlag(d.image.size) \cup {"READONLY", "EXTERNAL"}

\* s2r_map_open.
LEMMA MapEffect ==
  ASSUME NEW d, d.there => ImageType(d.image) /\ d.len \in Nat, NEW verify \in BOOLEAN
  PROVE  LET r == s2r_map_open(0, d, verify) IN
         \/ r = Refused(0) /\ ~MapAccepts(d, verify)
         \/ r.ret = TRUE /\ MapAccepts(d, verify) /\ Maps(d, r.pool)
  <1> DEFINE r == s2r_map_open(0, d, verify)
             size == d.image.size
             n == PayloadBytes(d.image)
             data == Decoded(size, Found(d, n))
             q == Mapped(0, size, data)
  <1>1. CASE ~MapAccepts(d, verify)
    BY <1>1 DEF s2r_map_open
  <1>2. CASE MapAccepts(d, verify)
    <2>1. ImageType(d.image) /\ GoodSize(size) /\ d.len \in Nat
      BY <1>2 DEF MapAccepts, HeaderGood
    <2>2. size \in Sizes /\ d.image.payload \in Seq(Byte) /\ d.image.count \in Nat
      BY <2>1 DEF ImageType, GoodSize, Sizes
    <2>a. n \in Nat /\ n <= Memory
      <3>1. d.image.count * Bytes(d.image.size) \in Nat
        <4> DEFINE e == Bytes(d.image.size)
        <4>1. e \in Nat
          BY <2>2, SizeFacts
        <4> HIDE DEF e
        <4>2. d.image.count * e \in Nat
          BY <2>2, <4>1, SMT
        <4> QED
          BY <4>2 DEF e
      <3> QED
        BY <1>2, <2>1, <3>1, MapLength
    <2>b. Found(d, n) \in Seq(Byte) /\ Len(Found(d, n)) = n
      <3> HIDE DEF n
      <3> QED
        BY <2>2, <2>a, FoundIs
    <2>3. /\ data \in Seq(Word) /\ Len(data) * Bytes(size) <= n
          /\ \A i \in DOMAIN data : data[i] < Pow(Abs(size))
      <3> DEFINE bytes == Found(d, n)
      <3>1. bytes \in Seq(Byte) /\ Len(bytes) = n
        BY <2>b
      <3> HIDE DEF bytes, n
      <3>2. /\ Decoded(size, bytes) \in Seq(Word) /\ Len(Decoded(size, bytes)) * Bytes(size) <= n
            /\ \A i \in DOMAIN Decoded(size, bytes) : Decoded(size, bytes)[i] < Pow(Abs(size))
        BY <2>2, <3>1, DecodedType
      <3> QED
        BY <3>2 DEF bytes
    <2>4. r = Result(q, TRUE)
      BY <1>2 DEF s2r_map_open
    <2>5. r.ret = TRUE /\ r.pool = q
      BY <2>4 DEF Result
    <2> HIDE DEF size, data, r, n
    <2>c. Len(data) * Bytes(size) <= Memory
      <3> DEFINE a == Len(data) * Bytes(size)
      <3>1. a \in Nat /\ a <= n
        BY <2>2, <2>3, SizeFacts
      <3> HIDE DEF a
      <3> QED
        BY <2>a, <3>1, MemoryBound DEF a
    <2>6. InUse(q)
      <3> DEFINE h == 0
      <3>1. h \in Int
        OBVIOUS
      <3> HIDE DEF h
      <3>2. InUse(Mapped(h, size, data))
        BY <2>2, <2>3, <2>c, <3>1, MappedInUse
      <3> QED
        BY <3>2 DEF h
    <2>7. Honest(q) /\ "EXTERNAL" \in q.flags
      BY <2>6, MappedHonest
    <2>8. q.data = data /\ q.size = size /\ q.flags = SignFlag(size) \cup {"READONLY", "EXTERNAL"}
      BY MappedEffect
    <2> HIDE DEF q
    <2>9. Fits(q)
      BY <2>8, <2>c DEF Fits, Count
    <2> QED
      BY <1>2, <2>5, <2>7, <2>8, <2>9 DEF Maps, r, size, data, n
  <1> QED
    BY <1>1, <1>2

\* When the length is exact, the pool has the payload.
LEMMA MapsPayload ==
  ASSUME NEW d, d.image.payload \in Seq(Byte), PayloadBytes(d.image) = Len(d.image.payload),
         NEW q, Maps(d, q)
  PROVE  q.data = Decoded(d.image.size, d.image.payload)
  BY FoundIs DEF Maps

-----------------------------------------------------------------------------
(* The program's column.                                                    *)

\* It is gone, or owned and storable with true facts, or a mapping of a file.
PoolOK(p, o) ==
  /\ o \in {"none", "pool"} \cup Files
  /\ o = "none" => p = Zeroed(0)
  /\ o # "none" => Truthful(p) /\ Fits(p)
  /\ o = "pool" => p.flags \cap {"READONLY", "EXTERNAL"} = {}
  /\ o \in Files => "EXTERNAL" \in p.flags

\* An owned column.
LEMMA OwnedOK ==
  ASSUME NEW p, Truthful(p), Fits(p), p.flags \cap {"READONLY", "EXTERNAL"} = {}
  PROVE  PoolOK(p, "pool")
  BY FileAssumption DEF PoolOK

\* The constructors allocate for the elements they store.
LEMMA AutoFits ==
  ASSUME NEW h \in Int, NEW arr \in Seq(Word), NEW ok \in BOOLEAN, FromArrayAuto(h, arr, ok).ret,
         Askable(Len(arr))
  PROVE  Fits(FromArrayAuto(h, arr, ok).pool)
  <1> DEFINE vs == {arr[i] : i \in DOMAIN arr}
             c == Classify(vs)
             n == Len(arr)
             s == PoolInit(h, c, n, ok)
             q == [s EXCEPT !.pool.data = arr]
             r == FromArrayAuto(h, arr, ok)
  <1>1. \A i \in DOMAIN arr : arr[i] \in Word
    OBVIOUS
  <1>2. UFits(K, vs)
    <2>1. Pow(K) \in Nat
      BY Conversions, PowFacts
    <2> QED
      BY <1>1, <2>1 DEF UFits, Word
  <1>3. c \in Classes
    <2> HIDE DEF vs
    <2> QED
      BY <1>2, Conversions, ClassifyFits
  <1> HIDE DEF c
  <1>4. c \in Sizes /\ n \in Nat
    BY <1>3, ClassAssumption DEF Classes, Sizes
  <1>5. Fresh(h, c, s.pool) /\ s.pool.data = <<>>
    BY <1>4, PoolInitEffect
  <1>6. Fresh(h, c, q.pool) /\ q.pool.data = arr /\ q.ret = s.ret
    <2> DEFINE qq == q
    <2>1. qq = WithData(PoolInit(h, c, n, ok), arr)
      BY DEF WithData
    <2> HIDE DEF qq, n
    <2>2. Fresh(h, c, qq.pool) /\ qq.pool.data = arr /\ qq.ret = PoolInit(h, c, n, ok).ret
      BY <1>4, <2>1, FilledEffect
    <2> QED
      BY <2>2 DEF qq
  <1>7. r = IF arr # <<>> /\ s.ret THEN q ELSE s
    BY DEF FromArrayAuto, c
  <1>8. s.ret => n * Bytes(c) <= Memory
    <2>1. Aligns(n * Bytes(c))
      BY <1>4, AskableAligns
    <2> QED
      BY <1>4, <2>1, InitFits
  <1>9. Len(<<>>) = 0 /\ (arr = <<>> => n = 0)
    OBVIOUS
  <1> HIDE DEF s, q, n
  <1>10. s.ret /\ (r = q \/ (r = s /\ arr = <<>>))
    BY <1>6, <1>7 DEF r
  <1>11. r.pool.data = arr /\ r.pool.size = c
    BY <1>5, <1>6, <1>10 DEF Fresh
  <1> HIDE DEF r
  <1>12. Fits(r.pool)
    BY <1>8, <1>10, <1>11 DEF Fits, Count, n
  <1> QED
    BY <1>12 DEF r

\* The same for the signed constructor.
LEMMA SignedAutoFits ==
  ASSUME NEW h \in Int, NEW arr \in Seq(Int64), NEW ok \in BOOLEAN, FromArraySignedAuto(h, arr, ok).ret,
         Askable(Len(arr))
  PROVE  Fits(FromArraySignedAuto(h, arr, ok).pool)
  <1> DEFINE vs == {arr[i] : i \in DOMAIN arr}
             size == ClassifySigned(vs)
             n == Len(arr)
             data == [i \in DOMAIN arr |-> Raw(-size, arr[i])]
             s == PoolInit(h, size, n, ok)
             q == [s EXCEPT !.pool.data = data]
             r == FromArraySignedAuto(h, arr, ok)
  <1>1. /\ \A i \in DOMAIN arr : arr[i] \in Int64
        /\ n \in Nat /\ DOMAIN arr = 1 .. n
    OBVIOUS
  <1>2. SFits(K, vs)
    BY <1>1, Conversions DEF SFits, Int64
  <1>3. -size \in Classes /\ size \in Int
    <2> HIDE DEF vs
    <2> QED
      BY <1>2, Conversions, ClassifySignedFits
  <1> HIDE DEF size
  <1>4. size \in Sizes
    BY <1>3, ClassAssumption DEF Classes, Sizes
  <1>5. Fresh(h, size, s.pool) /\ s.pool.data = <<>>
    BY <1>1, <1>4, PoolInitEffect
  <1>6. Fresh(h, size, q.pool) /\ q.pool.data = data /\ q.ret = s.ret
    <2> DEFINE qq == q
    <2>1. qq = WithData(PoolInit(h, size, n, ok), data)
      BY DEF WithData
    <2> HIDE DEF qq, data, n
    <2>2. Fresh(h, size, qq.pool) /\ qq.pool.data = data /\ qq.ret = PoolInit(h, size, n, ok).ret
      BY <1>1, <1>4, <2>1, FilledEffect
    <2> QED
      BY <2>2 DEF qq
  <1>7. r = IF arr # <<>> /\ s.ret THEN q ELSE s
    BY DEF FromArraySignedAuto, size
  <1>8. s.ret => n * Bytes(size) <= Memory
    <2>1. Aligns(n * Bytes(size))
      BY <1>4, AskableAligns
    <2> QED
      BY <1>1, <1>4, <2>1, InitFits
  <1>9. Len(data) = n /\ (arr = <<>> => data = <<>>)
    BY <1>1
  <1> HIDE DEF s, q, n, data
  <1>10. s.ret /\ (r = q \/ (r = s /\ data = <<>>))
    BY <1>6, <1>7, <1>9 DEF r
  <1>11. r.pool.data = data /\ r.pool.size = size
    BY <1>5, <1>6, <1>10 DEF Fresh
  <1> HIDE DEF r
  <1>12. Fits(r.pool)
    BY <1>8, <1>9, <1>10, <1>11 DEF Fits, Count
  <1> QED
    BY <1>12 DEF r

\* A column just built.
LEMMA BuiltOK ==
  ASSUME NEW a \in Arrays, NEW r, r.ret,
         r \in {FromArrayAuto(0, a, TRUE), FromArraySignedAuto(0, [i \in DOMAIN a |-> I64(a[i])], TRUE)}
  PROVE  PoolOK(r.pool, "pool")
  <1>1. a \in Seq(Word) /\ 0 \in Int /\ TRUE \in BOOLEAN /\ Askable(Len(a)) /\ Len(a) \in Nat
    BY FileAssumption
  <1> DEFINE b == [i \in DOMAIN a |-> I64(a[i])]
             h == 0
             ok == TRUE
  <1>2. b \in Seq(Int64) /\ Len(b) = Len(a)
    <2>1. \A i \in DOMAIN a : a[i] \in Word
      BY <1>1
    <2>2. \A i \in DOMAIN a : I64(a[i]) \in Int64
      BY <2>1, Conversions
    <2>3. DOMAIN a = 1 .. Len(a) /\ Len(a) \in Nat
      BY <1>1
    <2> QED
      BY <2>2, <2>3
  <1>3. h \in Int /\ ok \in BOOLEAN
    OBVIOUS
  <1>6. Askable(Len(b))
    BY <1>1, <1>2
  <1> HIDE DEF b
  <1>4. CASE r = FromArrayAuto(0, a, TRUE)
    <2>1. r = FromArrayAuto(h, a, ok)
      BY <1>4
    <2>2. Honest(r.pool)
      BY <1>1, <2>1, <1>3, FromArrayAutoHonest
    <2> HIDE DEF h, ok
    <2>3. Fits(r.pool)
      BY <1>1, <1>3, <2>1, AutoFits
    <2>4. AutoBuilt(h, a, r)
      BY <1>1, <1>3, <2>1, FromArrayAutoEffect
    <2>5. \E size : r.pool.flags = SignFlag(size)
      BY <2>4 DEF AutoBuilt, Fresh
    <2> QED
      BY <2>2, <2>3, <2>5, OwnedOK DEF SignFlag, Honest, Truthful
  <1>5. CASE r = FromArraySignedAuto(0, b, TRUE)
    <2>1. r = FromArraySignedAuto(h, b, ok)
      BY <1>5
    <2>2. Honest(r.pool)
      BY <1>2, <1>6, <1>3, <2>1, FromArraySignedAutoHonest
    <2> HIDE DEF h, ok
    <2>3. Fits(r.pool)
      BY <1>2, <1>3, <1>6, <2>1, SignedAutoFits
    <2>4. \E size \in Sizes : size < 0 /\ Fresh(h, size, r.pool)
      BY <1>2, <1>3, <2>1, FromArraySignedAutoEffect
    <2>5. \E size : r.pool.flags = SignFlag(size)
      BY <2>4 DEF Fresh
    <2> QED
      BY <2>2, <2>3, <2>5, OwnedOK DEF SignFlag, Honest, Truthful
  <1> QED
    BY <1>4, <1>5 DEF b

\* Recording a fact.
LEMMA NotedOK ==
  ASSUME NEW p, PoolOK(p, "pool"), NEW q, Truthful(q), NEW f \in FactFlags, Flagged(p, q, f)
  PROVE  PoolOK(q, "pool")
  <1>1. q.data = p.data /\ q.size = p.size /\ q.flags = p.flags \cup {f}
    BY DEF Flagged, SameElements
  <1>2. Fits(q)
    BY <1>1 DEF PoolOK, Fits, Count
  <1>3. q.flags \cap {"READONLY", "EXTERNAL"} = {}
    BY <1>1 DEF PoolOK, FactFlags
  <1> QED
    BY <1>2, <1>3, OwnedOK

\* s2r_mark_sorted.
LEMMA MarkedOK ==
  ASSUME NEW p, PoolOK(p, "pool")
  PROVE  PoolOK(MarkSorted(p), "pool")
  <1>1. Truthful(p) /\ InUse(p)
    BY DEF PoolOK, Truthful
  <1>2. Truthful(MarkSorted(p))
    BY <1>1, MarkSortedTruthful DEF Noting
  <1>3. "SORTED" \in FactFlags
    BY DEF FactFlags
  <1> DEFINE q == MarkSorted(p)
  <1>4. q = p \/ Flagged(p, q, "SORTED")
    BY <1>1, MarkSortedEffect
  <1> HIDE DEF q
  <1>5. PoolOK(q, "pool")
    BY <1>2, <1>3, <1>4, NotedOK DEF q
  <1> QED
    BY <1>5 DEF q

\* s2r_summarize.
LEMMA SummarizedOK ==
  ASSUME NEW p, PoolOK(p, "pool"), NEW q \in Summarize(p)
  PROVE  PoolOK(q, "pool")
  <1>1. Truthful(p) /\ InUse(p)
    BY DEF PoolOK, Truthful
  <1>2. Truthful(q)
    BY <1>1, SummarizeTruthful DEF Noting
  <1>3. "SUMMARY" \in FactFlags
    BY DEF FactFlags
  <1>4. CASE q = p
    BY <1>4
  <1>5. CASE \E mn, mx, sm : q = Recorded(p, mn, mx, sm)
    <2>1. Flagged(p, q, "SUMMARY")
      BY <1>1, <1>5, RecordedEffect
    <2> QED
      BY <1>2, <1>3, <2>1, NotedOK
  <1> QED
    BY <1>4, <1>5 DEF Summarize

\* s2r_demote, which may leave the flag of a signed column.
LEMMA DemotedOK ==
  ASSUME NEW p, PoolOK(p, "pool"), NEW c \in Classes
  PROVE  PoolOK(Demote(p, c, TRUE).pool, "pool")
  <1> DEFINE ok == TRUE
             r == Demote(p, c, ok)
             q == r.pool
  <1>1. Truthful(p) /\ InUse(p) /\ c \in Sizes /\ ok \in BOOLEAN
    BY ClassAssumption DEF PoolOK, Truthful, Classes, Sizes
  <1> HIDE DEF ok
  <1>2. InUse(q)
    BY <1>1, DemoteInUse
  <1>3. r.ret => Count(p) * Bytes(c) <= Memory
    <2> DEFINE x == Count(p) * Bytes(c)
    <2>1. r.ret => AlignUp(x) <= Memory
      BY DEF Demote, Result, CanAlloc
    <2>2. x \in Nat
      <3>1. Count(p) \in Nat /\ Bytes(c) \in Nat
        BY <1>1, CountSmall, SizeFacts
      <3> DEFINE a == Count(p)
                 b == Bytes(c)
      <3> HIDE DEF a, b
      <3>2. a * b \in Nat
        BY <3>1, SMT DEF a, b
      <3> QED
        BY <3>2 DEF a, b
    <2>3. x <= AlignUp(x)
      BY <1>1, RoomFor
    <2> HIDE DEF x, r
    <2>4. AlignUp(x) \in Nat
      BY <2>2, AlignUpBound
    <2> QED
      BY <2>1, <2>2, <2>3, <2>4, MemoryBound DEF x
  <1>r. r = Demote(p, c, ok)
    OBVIOUS
  <1> HIDE DEF r
  <1>4. \/ q = p /\ ~r.ret
        \/ /\ r.ret /\ Refitted(p, q) /\ q.size = c /\ c > 0
           /\ q.flags = p.flags /\ q.data = p.data
    BY <1>1, <1>r, DemoteEffect
  <1>5. CASE q = p
    BY <1>5 DEF r, ok
  <1>6. CASE r.ret /\ Refitted(p, q) /\ q.size = c /\ q.flags = p.flags
    <2> HIDE DEF q
    <2>1. q.flags \cap {"READONLY", "EXTERNAL"} = {}
      BY <1>6 DEF PoolOK
    <2>2. Moved(p, q) /\ SameRecord(p, q) /\ Values(q) = Values(p) /\ Count(q) = Count(p)
      BY <1>6 DEF Refitted
    <2>3. Placed(q)
      BY <1>1, <1>6, <2>1, <2>2, MovedPlaced DEF Truthful
    <2>4. /\ RunningSum(q) = RunningSum(p)
          /\ InOrder(q) <=> InOrder(p)
          /\ \A w : (IsMinimum(q, w) <=> IsMinimum(p, w)) /\ (IsMaximum(q, w) <=> IsMaximum(p, w))
      BY <1>1, <1>2, <2>2, SameFacts
    <2>5. OrderKnown(q) /\ Summarised(q)
      BY <1>1, <1>6, <2>2, <2>4 DEF Truthful, OrderKnown, Summarised, SameRecord
    <2>6. Fits(q)
      BY <1>3, <1>6, <2>2 DEF Fits
    <2>7. Truthful(q)
      BY <1>2, <2>3, <2>5 DEF Truthful
    <2>8. PoolOK(q, "pool")
      BY <2>1, <2>6, <2>7, OwnedOK
    <2> QED
      BY <2>8 DEF q, r, ok
  <1> QED
    BY <1>4, <1>5, <1>6

\* Releasing an owned column leaves no block; a mapping has none.
LEMMA ReleasedOK ==
  ASSUME NEW p, NEW o, PoolOK(p, o), o # "none"
  PROVE  /\ o = "pool" => PoolFree(p).heap = 0
         /\ o # "pool" => p.heap = 0
  <1>0. Placed(p) /\ p \in PoolType
    BY DEF PoolOK, Truthful, InUse
  <1>1. Placed(p) /\ p \in PoolType /\ p.heap \in Int /\ p.buf \in {"null", "heap", "mapping"}
    BY <1>0, Fields
  <1>2. CASE o = "pool"
    <2>1. "EXTERNAL" \notin p.flags /\ p.buf # "mapping"
      BY <1>1, <1>2 DEF PoolOK, Placed
    <2>2. \/ p.buf = "null" /\ p.heap = 0
          \/ p.buf = "heap" /\ p.heap = 1
      BY <1>1, <2>1 DEF Placed
    <2>3. PoolFree(p).heap = IF p.buf # "null" /\ "EXTERNAL" \notin p.flags THEN p.heap - 1 ELSE p.heap
      BY <1>1, PoolFreeEffect
    <2> QED
      BY <1>2, <2>1, <2>2, <2>3
  <1>3. CASE o # "pool"
    <2>1. "EXTERNAL" \in p.flags
      BY <1>3 DEF PoolOK
    <2> QED
      BY <1>1, <1>3, <2>1 DEF Placed
  <1> QED
    BY <1>2, <1>3

-----------------------------------------------------------------------------
(* The files.                                                               *)

ImageOf(p, magic) == IF magic = "V33" THEN Portable(p) ELSE Legacy(p)
RecordOf(p, magic) ==
  [values |-> Values(p), signed |-> IsSigned(p), size |-> p.size, magic |-> magic,
   agrees |-> (p.size < 0) = ("SIGNED" \in p.flags)]

\* A file d, to which s was saved: it holds the image of a storable column or, if it
\* can be damaged once, that image with an item altered.
Remembers(d, s, p, magic) ==
  /\ Storable(p) /\ magic \in {"V32", "V33"} /\ s = RecordOf(p, magic)
  /\ d = Stored(d.image, d.len) /\ ImageType(d.image) /\ d.len \in Nat
  /\ MaxDamage <= 1 => d.image \in {ImageOf(p, magic)} \cup Altered(ImageOf(p, magic))
Exact(d, p, magic) == d.image = ImageOf(p, magic) /\ d.len <= Whole(d.image)
FileOK(d, s, f, hits) ==
  d = NoFile \/ \E p, magic : Remembers(d, s, p, magic) /\ (f \notin hits => Exact(d, p, magic))

\* The items of an image.
LEMMA ImageFields ==
  ASSUME NEW p, NEW magic \in {"V32", "V33"}, NEW img, img = ImageOf(p, magic)
  PROVE  /\ img = [magic |-> magic, size |-> p.size, count |-> Count(p), payload |-> Encoded(p),
                   flags |-> img.flags, fmt |-> img.fmt, reserved |-> 0, crc |-> img.crc]
         /\ img.magic = magic /\ img.size = p.size /\ img.count = Count(p) /\ img.payload = Encoded(p)
         /\ img.reserved = 0
         /\ img.flags = IF magic = "V33" THEN FormatFlags(p.flags) ELSE p.flags
         /\ img.fmt = IF magic = "V33" THEN 1 ELSE 0
         /\ img.crc = IF magic = "V33" THEN Crc(Encoded(p)) ELSE <<>>
  <1> DEFINE e == Encoded(p)
             n == Count(p)
             c == Crc(e)
             fl == FormatFlags(p.flags)
  <1>1. CASE magic = "V33"
    <2>1. img = [magic |-> "V33", size |-> p.size, count |-> n, payload |-> e,
                 flags |-> fl, fmt |-> 1, reserved |-> 0, crc |-> c]
      BY <1>1 DEF ImageOf, Portable, Image
    <2> HIDE DEF e, n, c, fl
    <2> QED
      BY <1>1, <2>1 DEF e, n, c, fl
  <1>2. CASE magic = "V32"
    <2>1. img = [[magic |-> "V32", size |-> p.size, count |-> n, payload |-> e,
                  flags |-> p.flags, fmt |-> 0, reserved |-> 0, crc |-> c] EXCEPT !.crc = <<>>]
      BY <1>2 DEF ImageOf, Legacy, Image
    <2> HIDE DEF e, n, c, fl
    <2>2. img = [magic |-> "V32", size |-> p.size, count |-> n, payload |-> e,
                 flags |-> p.flags, fmt |-> 0, reserved |-> 0, crc |-> <<>>]
      BY <2>1
    <2> QED
      BY <1>2, <2>2 DEF e, n
  <1> QED
    BY <1>1, <1>2

\* The image of a storable column can be read.
LEMMA ImageOK ==
  ASSUME NEW p, Storable(p), NEW magic \in {"V32", "V33"}, NEW img, img = ImageOf(p, magic)
  PROVE  /\ ImageType(img) /\ GoodSize(img.size) /\ Declared(img) = Len(img.payload)
         /\ Whole(img) \in Nat /\ HeaderItems + Len(img.payload) <= Whole(img)
         /\ Decoded(img.size, img.payload) = p.data
         /\ SubSeq(img.payload, 1, Declared(img)) = img.payload
  <1>1. /\ img.size = p.size /\ img.count = Count(p) /\ img.payload = Encoded(p)
        /\ img.flags = IF magic = "V33" THEN FormatFlags(p.flags) ELSE p.flags
        /\ img.crc = IF magic = "V33" THEN Crc(Encoded(p)) ELSE <<>>
    <2>1. img.size = p.size /\ img.count = Count(p) /\ img.payload = Encoded(p)
      BY ONLY ImageFields, magic \in {"V32", "V33"}, img = ImageOf(p, magic), ZenonT(30)
    <2>2. img.flags = IF magic = "V33" THEN FormatFlags(p.flags) ELSE p.flags
      BY ONLY ImageFields, magic \in {"V32", "V33"}, img = ImageOf(p, magic), ZenonT(30)
    <2>3. img.crc = IF magic = "V33" THEN Crc(Encoded(p)) ELSE <<>>
      BY ONLY ImageFields, magic \in {"V32", "V33"}, img = ImageOf(p, magic), ZenonT(30)
    <2> QED
      BY ONLY <2>1, <2>2, <2>3
  <1>2. InUse(p) /\ p \in PoolType /\ Fits(p) /\ p.size # 0
    BY DEF Storable, InUse, Sound
  <1>3. p.size \in Sizes /\ p.flags \in SUBSET Flags /\ Count(p) \in Nat
    BY <1>2, Fields DEF Sizes
  <1>4. /\ Len(Encoded(p)) = Count(p) * Bytes(p.size) /\ Encoded(p) \in Seq(Byte)
        /\ Count(p) * Bytes(p.size) \in Nat
    BY <1>2, EncodedType
  <1>5. ImageType(img)
    <2>1. img.payload \in Seq(Byte) /\ Len(img.payload) <= Memory
      BY <1>1, <1>2, <1>4 DEF Fits
    <2>2. img.count \in Nat /\ img.size \in -K .. K
      BY <1>1, <1>3 DEF Sizes
    <2>3. img.flags \in SUBSET Flags
      BY <1>1, <1>3 DEF FormatFlags
    <2>4. ImageRecord(img)
      <3>1. img = [magic |-> magic, size |-> p.size, count |-> Count(p), payload |-> Encoded(p),
                   flags |-> img.flags, fmt |-> img.fmt, reserved |-> 0, crc |-> img.crc]
        BY ImageFields
      <3> DEFINE n == Count(p)
                 e == Encoded(p)
      <3> HIDE DEF n, e
      <3>2. img = [magic |-> magic, size |-> p.size, count |-> n, payload |-> e,
                   flags |-> img.flags, fmt |-> img.fmt, reserved |-> 0, crc |-> img.crc]
        BY <3>1 DEF n, e
      <3> QED
        BY <3>2 DEF ImageRecord
    <2> QED
      BY <2>1, <2>2, <2>3, <2>4 DEF ImageType
  <1>6. GoodSize(img.size)
    BY <1>1, <1>3, SizeFacts DEF GoodSize, Sizes
  <1>7. Declared(img) = Len(img.payload) /\ Declared(img) \in Nat
    BY <1>1, <1>4 DEF Declared
  <1>8. Len(img.crc) \in 0 .. 1
    BY <1>1 DEF Crc
  <1>9. Whole(img) \in Nat /\ HeaderItems + Len(img.payload) <= Whole(img)
    <2> DEFINE x == Len(img.payload)
               y == Len(img.crc)
    <2>1. x \in Nat /\ y \in Nat /\ Whole(img) = 3 + x + y
      BY <1>7, <1>8 DEF Whole, HeaderItems
    <2> HIDE DEF x, y
    <2>2. Whole(img) \in Nat /\ 3 + x <= Whole(img)
      BY <2>1
    <2> QED
      BY <2>2 DEF x, HeaderItems
  <1>10. Decoded(img.size, img.payload) = p.data
    BY <1>1, <1>2, DecodedEncoded
  <1>11. SubSeq(img.payload, 1, Declared(img)) = img.payload
    <2> DEFINE a == Declared(img)
    <2>1. a \in Nat /\ a <= Len(img.payload) /\ a = Len(img.payload) /\ img.payload \in Seq(Byte)
      BY <1>1, <1>4, <1>7
    <2> HIDE DEF a
    <2>2. SubSeq(img.payload, 1, a) = img.payload
      BY <2>1, Prefix
    <2> QED
      BY <2>2 DEF a
  <1> QED
    BY <1>5, <1>6, <1>7, <1>9, <1>10, <1>11

\* An image with one item replaced.
Changed(img, v) ==
  {[img EXCEPT !.magic = v],
   [img EXCEPT !.fmt = v],
   [img EXCEPT !.reserved = v],
   [img EXCEPT !.size = v],
   [img EXCEPT !.flags = v],
   [img EXCEPT !.count = v],
   [img EXCEPT !.payload = v],
   [img EXCEPT !.crc = v]}

\* It is an image still.
LEMMA ChangedRecord ==
  ASSUME NEW img, ImageRecord(img), NEW v, NEW a \in Changed(img, v)
  PROVE  ImageRecord(a)
  <1>1. CASE a = [img EXCEPT !.magic = v]
    <2>1. a = [magic |-> v, size |-> img.size, count |-> img.count, payload |-> img.payload,
              flags |-> img.flags, fmt |-> img.fmt, reserved |-> img.reserved, crc |-> img.crc]
      BY <1>1 DEF ImageRecord
    <2> QED
      BY <2>1 DEF ImageRecord
  <1>2. CASE a = [img EXCEPT !.fmt = v]
    <2>1. a = [magic |-> img.magic, size |-> img.size, count |-> img.count, payload |-> img.payload,
              flags |-> img.flags, fmt |-> v, reserved |-> img.reserved, crc |-> img.crc]
      BY <1>2 DEF ImageRecord
    <2> QED
      BY <2>1 DEF ImageRecord
  <1>3. CASE a = [img EXCEPT !.reserved = v]
    <2>1. a = [magic |-> img.magic, size |-> img.size, count |-> img.count, payload |-> img.payload,
              flags |-> img.flags, fmt |-> img.fmt, reserved |-> v, crc |-> img.crc]
      BY <1>3 DEF ImageRecord
    <2> QED
      BY <2>1 DEF ImageRecord
  <1>4. CASE a = [img EXCEPT !.size = v]
    <2>1. a = [magic |-> img.magic, size |-> v, count |-> img.count, payload |-> img.payload,
              flags |-> img.flags, fmt |-> img.fmt, reserved |-> img.reserved, crc |-> img.crc]
      BY <1>4 DEF ImageRecord
    <2> QED
      BY <2>1 DEF ImageRecord
  <1>5. CASE a = [img EXCEPT !.flags = v]
    <2>1. a = [magic |-> img.magic, size |-> img.size, count |-> img.count, payload |-> img.payload,
              flags |-> v, fmt |-> img.fmt, reserved |-> img.reserved, crc |-> img.crc]
      BY <1>5 DEF ImageRecord
    <2> QED
      BY <2>1 DEF ImageRecord
  <1>6. CASE a = [img EXCEPT !.count = v]
    <2>1. a = [magic |-> img.magic, size |-> img.size, count |-> v, payload |-> img.payload,
              flags |-> img.flags, fmt |-> img.fmt, reserved |-> img.reserved, crc |-> img.crc]
      BY <1>6 DEF ImageRecord
    <2> QED
      BY <2>1 DEF ImageRecord
  <1>7. CASE a = [img EXCEPT !.payload = v]
    <2>1. a = [magic |-> img.magic, size |-> img.size, count |-> img.count, payload |-> v,
              flags |-> img.flags, fmt |-> img.fmt, reserved |-> img.reserved, crc |-> img.crc]
      BY <1>7 DEF ImageRecord
    <2> QED
      BY <2>1 DEF ImageRecord
  <1>8. CASE a = [img EXCEPT !.crc = v]
    <2>1. a = [magic |-> img.magic, size |-> img.size, count |-> img.count, payload |-> img.payload,
              flags |-> img.flags, fmt |-> img.fmt, reserved |-> img.reserved, crc |-> v]
      BY <1>8 DEF ImageRecord
    <2> QED
      BY <2>1 DEF ImageRecord
  <1> QED
    BY <1>1, <1>2, <1>3, <1>4, <1>5, <1>6, <1>7, <1>8 DEF Changed

\* An item altered leaves the others.
LEMMA AlteredFields ==
  ASSUME NEW img, NEW a \in Altered(img), ImageType(img)
  PROVE  /\ ImageType(a)
         /\ \/ a.magic = "unknown"
            \/ a.magic = img.magic /\ (a.fmt = img.fmt + 1 \/ a.reserved = img.reserved + 1)
            \/ /\ a.magic = img.magic
               /\ \/ /\ a.count = img.count /\ a.payload = img.payload /\ a.flags = img.flags
                  \/ /\ a.size = img.size /\ a.count = img.count /\ a.payload = img.payload
                     /\ \E x \in {"SIGNED", "EXTERNAL"} : a.flags = (img.flags \ {x}) \cup ({x} \ img.flags)
                  \/ a.size = img.size /\ a.payload = img.payload /\ a.flags = img.flags
                  \/ a.size = img.size /\ a.count = img.count /\ a.flags = img.flags /\ a.crc = img.crc
  <1>r. img = [magic |-> img.magic, size |-> img.size, count |-> img.count, payload |-> img.payload,
               flags |-> img.flags, fmt |-> img.fmt, reserved |-> img.reserved, crc |-> img.crc]
    BY DEF ImageType, ImageRecord
  <1>7. \A n \in 0 .. img.count + 1 : n \in Nat
    BY DEF ImageType
  <1>8. \A c \in Classes : img.count + ((SizeMax + 1) \div ElemBytes[c]) \in Nat
    <2> TAKE c \in Classes
    <2>1. (SizeMax + 1) \div ElemBytes[c] \in Nat
      <3> DEFINE l == SizeMax + 1
                 e == ElemBytes[c]
      <3>1. l \in Nat /\ e \in Nat \ {0}
        BY PowFacts, MemoryAssumption
      <3> HIDE DEF l, e
      <3>2. l \div e \in Nat
        BY <3>1, DivBound
      <3> QED
        BY <3>2 DEF l, e
    <2> QED
      BY <2>1 DEF ImageType
  <1>9. \/ a \in {[img EXCEPT !.magic = "unknown"], [img EXCEPT !.fmt = @ + 1],
                  [img EXCEPT !.reserved = @ + 1]}
        \/ \E s \in -K .. K : a = [img EXCEPT !.size = s]
        \/ \E x \in {"SIGNED", "EXTERNAL"} : a = [img EXCEPT !.flags = (@ \ {x}) \cup ({x} \ @)]
        \/ \E n \in 0 .. img.count + 1 : a = [img EXCEPT !.count = n]
        \/ \E c \in Classes : a = [img EXCEPT !.count = @ + ((SizeMax + 1) \div ElemBytes[c])]
        \/ \E i \in DOMAIN img.payload, v \in Byte : a = [img EXCEPT !.payload[i] = v]
        \/ a = [img EXCEPT !.crc = Crc(Append(img.payload, 0))]
    BY DEF Altered
  <1>0. ImageRecord(a)
    <2>1. \E v : a \in Changed(img, v)
      BY <1>9 DEF Changed
    <2> QED
      BY <2>1, ChangedRecord DEF ImageType
  <1>1. CASE a \in {[img EXCEPT !.magic = "unknown"], [img EXCEPT !.fmt = @ + 1],
                    [img EXCEPT !.reserved = @ + 1]}
    BY <1>0, <1>r, <1>1 DEF ImageType
  <1>2. CASE \E s \in -K .. K : a = [img EXCEPT !.size = s]
    BY <1>0, <1>r, <1>2 DEF ImageType
  <1>3. CASE \E x \in {"SIGNED", "EXTERNAL"} : a = [img EXCEPT !.flags = (@ \ {x}) \cup ({x} \ @)]
    <2>1. PICK x \in {"SIGNED", "EXTERNAL"} : a = [img EXCEPT !.flags = (img.flags \ {x}) \cup ({x} \ img.flags)]
      BY <1>3
    <2> DEFINE fl == (img.flags \ {x}) \cup ({x} \ img.flags)
    <2>2. fl \in SUBSET Flags
      BY DEF ImageType, Flags
    <2>3. fl = (img.flags \ {x}) \cup ({x} \ img.flags)
      OBVIOUS
    <2> HIDE DEF fl
    <2>4. /\ a.magic = img.magic /\ a.size = img.size /\ a.count = img.count
          /\ a.payload = img.payload /\ a.flags = fl
      BY <1>r, <2>1, <2>3
    <2> QED
      BY <1>0, <2>2, <2>3, <2>4 DEF ImageType
  <1>4. CASE \E n \in Nat : a = [img EXCEPT !.count = n]
    BY <1>0, <1>r, <1>4 DEF ImageType
  <1>5. CASE \E i \in DOMAIN img.payload, v \in Byte : a = [img EXCEPT !.payload[i] = v]
    <2>1. PICK i \in DOMAIN img.payload, v \in Byte : a = [img EXCEPT !.payload[i] = v]
      BY <1>5
    <2> DEFINE pl == [img.payload EXCEPT ![i] = v]
    <2>2. a = [img EXCEPT !.payload = pl]
      BY <1>r, <2>1
    <2>3. pl \in Seq(Byte) /\ Len(pl) = Len(img.payload)
      BY DEF ImageType
    <2> HIDE DEF pl
    <2>4. /\ a.magic = img.magic /\ a.size = img.size /\ a.count = img.count
          /\ a.payload = pl /\ a.flags = img.flags /\ a.crc = img.crc
      BY <1>r, <2>2
    <2> QED
      BY <1>0, <2>3, <2>4 DEF ImageType
  <1>6. CASE \E c : a = [img EXCEPT !.crc = c]
    BY <1>0, <1>r, <1>6 DEF ImageType
  <1>10. (\E c \in Classes : a = [img EXCEPT !.count = @ + ((SizeMax + 1) \div ElemBytes[c])])
           => \E n \in Nat : a = [img EXCEPT !.count = n]
    BY <1>8
  <1>11. (\E n \in 0 .. img.count + 1 : a = [img EXCEPT !.count = n])
           => \E n \in Nat : a = [img EXCEPT !.count = n]
    BY <1>7
  <1>12. (a = [img EXCEPT !.crc = Crc(Append(img.payload, 0))]) => \E c : a = [img EXCEPT !.crc = c]
    OBVIOUS
  <1> QED
    BY <1>1, <1>2, <1>3, <1>4, <1>5, <1>6, <1>9, <1>10, <1>11, <1>12

-----------------------------------------------------------------------------
(* What is read back.                                                       *)

\* The same words, in the same class and signedness, read the same.
LEMMA SameAs ==
  ASSUME NEW p, NEW q, NEW magic, q.data = p.data, q.size = p.size \/ p.data = <<>>,
         IsSigned(q) = IsSigned(p)
  PROVE  Same(q, RecordOf(p, magic))
  <1>1. Values(q) = Values(p)
    <2>1. CASE q.size = p.size
      BY <2>1, SameReading DEF SameElements
    <2>2. CASE p.data = <<>>
      <3>1. DOMAIN p.data = {} /\ DOMAIN q.data = {}
        BY <2>2
      <3> QED
        BY <3>1 DEF Values
    <2> QED
      BY <2>1, <2>2
  <1> DEFINE s == RecordOf(p, magic)
  <1>2. s.values = Values(p) /\ s.signed = IsSigned(p)
    BY DEF RecordOf
  <1> HIDE DEF s
  <1>3. Same(q, s)
    BY <1>1, <1>2 DEF Same
  <1> QED
    BY <1>3 DEF s

\* A class is told by the bytes of its elements.
LEMMA BytesTell ==
  ASSUME NEW a \in Sizes, NEW b \in Sizes, Bytes(a) = Bytes(b)
  PROVE  Abs(a) = Abs(b)
  <1> DEFINE c == Abs(a)
             d == Abs(b)
  <1>1. c \in Classes /\ d \in Classes
    BY SizeFacts
  <1>2. Pow(c) = Pow(d)
    BY ClassPlace
  <1> HIDE DEF c, d
  <1>3. Half[c] \in Nat \ {0} /\ Half[d] \in Nat \ {0} /\ Half[c] = Half[d]
    BY <1>1, <1>2, PowFacts DEF Pow
  <1>4. (c < d => 2 * Half[c] <= Half[d]) /\ (d < c => 2 * Half[d] <= Half[c])
    BY <1>1, ClassAssumption DEF Classes
  <1>5. ~(c < d) /\ ~(d < c)
    BY <1>3, <1>4
  <1>6. c = d
    BY <1>1, <1>5 DEF Classes
  <1> QED
    BY <1>6 DEF c, d

\* No bytes, no elements.
LEMMA NoElements ==
  ASSUME NEW size \in Sizes, NEW bytes \in Seq(Byte), Len(bytes) = 0
  PROVE  Decoded(size, bytes) = <<>>
  <1> DEFINE d == Decoded(size, bytes)
             e == Bytes(size)
             n == Len(d)
  <1>1. d \in Seq(Word) /\ n * e <= 0 /\ e \in Nat \ {0}
    BY DecodedType, SizeFacts
  <1>2. n \in Nat
    BY <1>1
  <1> HIDE DEF e
  <1>3. n = 0
    <2> HIDE DEF n
    <2> SUFFICES ASSUME n >= 1  PROVE FALSE
      BY <1>2
    <2>1. n * e >= e /\ n * e \in Int
      BY <1>1, <1>2, SMT
    <2> DEFINE x == n * e
    <2>2. x >= e /\ x \in Int /\ x <= 0
      BY <1>1, <2>1
    <2> HIDE DEF x
    <2> QED
      BY <1>1, <2>2
  <1> HIDE DEF d
  <1>4. d = <<>>
    BY <1>1, <1>3
  <1> QED
    BY <1>4 DEF d

\* What an image that is accepted says of the column.
Tells(img, p) ==
  /\ ImageType(img) /\ GoodSize(img.size) /\ Declared(img) = Len(img.payload)
  /\ Decoded(img.size, img.payload) = p.data
  /\ img.size = p.size \/ p.data = <<>>
  /\ (img.size < 0) = IsSigned(p) /\ ("SIGNED" \in img.flags) = IsSigned(p)

\* A damaged portable file that is accepted tells what was saved, when the class and
\* the sign flag agreed.
LEMMA AcceptedTells ==
  ASSUME NEW d, NEW s, NEW p, NEW magic, Remembers(d, s, p, magic), MaxDamage <= 1,
         s.agrees, d.image.magic = "V33", HeaderGood(d.image), LengthExact(d), CrcGood(d.image)
  PROVE  Tells(d.image, p)
  <1> DEFINE img == ImageOf(p, magic)
             a == d.image
  <1>1. /\ Storable(p) /\ magic \in {"V32", "V33"} /\ s = RecordOf(p, magic) /\ ImageType(a)
        /\ a = img \/ a \in Altered(img)
    BY DEF Remembers
  <1>2. /\ img = [magic |-> img.magic, size |-> img.size, count |-> img.count, payload |-> img.payload,
                  flags |-> img.flags, fmt |-> img.fmt, reserved |-> img.reserved, crc |-> img.crc]
        /\ img.magic = magic /\ img.size = p.size /\ img.count = Count(p) /\ img.payload = Encoded(p)
        /\ img.reserved = 0
        /\ img.flags = IF magic = "V33" THEN FormatFlags(p.flags) ELSE p.flags
        /\ img.fmt = IF magic = "V33" THEN 1 ELSE 0
        /\ img.crc = IF magic = "V33" THEN Crc(Encoded(p)) ELSE <<>>
    <2> DEFINE im == img
    <2>1. im = ImageOf(p, magic)
      OBVIOUS
    <2> HIDE DEF im
    <2>2. /\ im.magic = magic /\ im.size = p.size /\ im.count = Count(p) /\ im.payload = Encoded(p)
          /\ im.reserved = 0
          /\ im.flags = IF magic = "V33" THEN FormatFlags(p.flags) ELSE p.flags
          /\ im.fmt = IF magic = "V33" THEN 1 ELSE 0
          /\ im.crc = IF magic = "V33" THEN Crc(Encoded(p)) ELSE <<>>
      BY <1>1, <2>1, ImageFields
    <2>3. im = [magic |-> magic, size |-> p.size, count |-> Count(p), payload |-> Encoded(p),
                flags |-> im.flags, fmt |-> im.fmt, reserved |-> 0, crc |-> im.crc]
      BY <1>1, <2>1, ImageFields
    <2>4. im = [magic |-> im.magic, size |-> im.size, count |-> im.count, payload |-> im.payload,
                flags |-> im.flags, fmt |-> im.fmt, reserved |-> im.reserved, crc |-> im.crc]
      BY <2>2, <2>3
    <2> QED
      BY <2>2, <2>4 DEF im
  <1>3. /\ ImageType(img) /\ GoodSize(img.size) /\ Declared(img) = Len(img.payload)
        /\ Decoded(img.size, img.payload) = p.data
    BY <1>1, ImageOK
  <1> HIDE DEF img
  <1>4. /\ a.fmt = 1 /\ a.reserved = 0 /\ GoodSize(a.size)
        /\ (a.size < 0) = ("SIGNED" \in a.flags)
        /\ Declared(a) = Len(a.payload) /\ a.crc = Crc(a.payload)
    BY <1>1, ExactAnnounced DEF HeaderGood, CrcGood
  <1>5. (p.size < 0) = ("SIGNED" \in p.flags)
    BY <1>1 DEF RecordOf
  <1>6. IsSigned(p) = (p.size < 0)
    BY <1>5 DEF IsSigned
  <1>7. img.magic = "V33" => ("SIGNED" \in img.flags) = IsSigned(p)
    BY <1>2, <1>5, <1>6 DEF FormatFlags
  <1>8. CASE a = img
    BY <1>3, <1>4, <1>6, <1>7, <1>8, <1>2 DEF Tells
  <1>9. CASE a \in Altered(img)
    <2>1. /\ \/ a.magic = "unknown"
             \/ a.magic = img.magic /\ (a.fmt = img.fmt + 1 \/ a.reserved = img.reserved + 1)
             \/ /\ a.magic = img.magic
                /\ \/ /\ a.count = img.count /\ a.payload = img.payload /\ a.flags = img.flags
                   \/ /\ a.size = img.size /\ a.count = img.count /\ a.payload = img.payload
                      /\ \E x \in {"SIGNED", "EXTERNAL"} : a.flags = (img.flags \ {x}) \cup ({x} \ img.flags)
                   \/ a.size = img.size /\ a.payload = img.payload /\ a.flags = img.flags
                   \/ a.size = img.size /\ a.count = img.count /\ a.flags = img.flags /\ a.crc = img.crc
      BY <1>2, <1>3, <1>9, AlteredFields
    <2>2. a.magic = img.magic /\ magic = "V33"
      BY <1>2, <2>1
    <2>3. ~(a.fmt = img.fmt + 1 \/ a.reserved = img.reserved + 1)
      BY <1>2, <1>4, <2>2
    <2>4. ("SIGNED" \in img.flags) = IsSigned(p) /\ img.size = p.size
      BY <1>2, <1>7, <2>2
    <2>5. CASE a.size = img.size /\ a.payload = img.payload
      <3>1. (a.size < 0) = IsSigned(p) /\ ("SIGNED" \in a.flags) = IsSigned(p)
        BY <1>4, <1>6, <2>4, <2>5
      <3>2. Decoded(a.size, a.payload) = p.data
        BY <1>3, <2>5
      <3> QED
        BY <1>1, <1>4, <2>4, <2>5, <3>1, <3>2 DEF Tells
    <2>6. CASE a.count = img.count /\ a.payload = img.payload /\ a.flags = img.flags
      <3>1. ("SIGNED" \in a.flags) = IsSigned(p) /\ (a.size < 0) = IsSigned(p)
        BY <1>4, <2>4, <2>6
      <3>2. a.size \in Sizes /\ p.size \in Sizes
        BY <1>1, <1>3, <1>4, <2>4 DEF ImageType, GoodSize, Sizes
      <3>3. Count(p) * Bytes(a.size) = Count(p) * Bytes(p.size)
        BY <1>2, <1>3, <1>4, <2>6 DEF Declared
      <3>4. InUse(p) /\ Count(p) \in Nat /\ p.data \in Seq(Word)
        BY <1>1, Fields DEF Storable, InUse
      <3>5. CASE Count(p) = 0
        <4>1. p.data = <<>>
          BY <3>4, <3>5 DEF Count
        <4>2. Len(a.payload) = 0
          <5>1. Count(p) * Bytes(p.size) = 0
            BY <3>2, <3>5, SizeFacts
          <5> QED
            BY <1>2, <2>6, <3>4, <5>1, EncodedType
        <4>3. Decoded(a.size, a.payload) = <<>>
          BY <1>1, <3>2, <4>2, NoElements DEF ImageType
        <4> QED
          BY <1>1, <1>4, <3>1, <4>1, <4>3 DEF Tells
      <3>6. CASE Count(p) # 0
        <4> DEFINE n == Count(p)
                   x == Bytes(a.size)
                   y == Bytes(p.size)
        <4>1. n \in Nat \ {0} /\ x \in Nat \ {0} /\ y \in Nat \ {0} /\ n * x = n * y
          BY <3>2, <3>3, <3>4, <3>6, SizeFacts
        <4> HIDE DEF n, x, y
        <4>2. x = y
          <5>1. CASE x < y
            <6>1. n * x < n * y
              BY <4>1, <5>1, SMT
            <6>2. n * x \in Int /\ n * y \in Int
              BY <4>1, SMT
            <6> QED
              BY <4>1, <6>1, <6>2
          <5>2. CASE y < x
            <6>1. n * y < n * x
              BY <4>1, <5>2, SMT
            <6>2. n * x \in Int /\ n * y \in Int
              BY <4>1, SMT
            <6> QED
              BY <4>1, <6>1, <6>2
          <5> QED
            BY <4>1, <5>1, <5>2
        <4>3. Abs(a.size) = Abs(p.size)
          BY <3>2, <4>2, BytesTell DEF x, y
        <4>4. a.size \in Int /\ p.size \in Int /\ (a.size < 0 <=> p.size < 0)
          BY <1>6, <3>1, <3>2, ClassAssumption DEF Sizes
        <4>5. a.size = p.size
          BY <4>3, <4>4 DEF Abs
        <4>6. a.size = img.size /\ a.payload = img.payload
          BY <2>4, <2>6, <4>5
        <4> QED
          BY <2>5, <4>6
      <3> QED
        BY <3>5, <3>6
    <2>7. CASE a.size = img.size /\ a.crc = img.crc
      <3>1. Crc(a.payload) = Crc(img.payload)
        BY <1>2, <1>4, <2>2, <2>7
      <3>2. a.payload = img.payload
        BY <3>1 DEF Crc
      <3> QED
        BY <2>5, <2>7, <3>2
    <2> QED
      BY <2>1, <2>2, <2>3, <2>5, <2>6, <2>7, <1>2
  <1> QED
    BY <1>1, <1>8, <1>9

\* A pool filled or mapped from such an image is the column.
LEMMA FillsSame ==
  ASSUME NEW img, NEW p, NEW q, NEW magic, NEW flags, Fills(img, flags, q),
         ImageType(img), Declared(img) = Len(img.payload), Decoded(img.size, img.payload) = p.data,
         img.size = p.size \/ p.data = <<>>,
         (img.size < 0 \/ "SIGNED" \in flags) = IsSigned(p)
  PROVE  Same(q, RecordOf(p, magic)) /\ q.data = p.data
  <1> DEFINE m == Declared(img)
  <1>1. img.payload \in Seq(Byte) /\ m = Len(img.payload) /\ m \in Nat
    BY DEF ImageType
  <1>2. SubSeq(img.payload, 1, m) = img.payload
    <2> HIDE DEF m
    <2>1. m <= Len(img.payload)
      BY <1>1
    <2> QED
      BY <1>1, <2>1, Prefix
  <1>3. q.data = p.data /\ q.size = img.size /\ q.flags = flags
    BY <1>2 DEF Fills
  <1>4. IsSigned(q) = IsSigned(p)
    BY <1>3 DEF IsSigned
  <1> QED
    BY <1>3, <1>4, SameAs

\* The same for a mapped one.
LEMMA MapsSame ==
  ASSUME NEW d, NEW p, NEW q, NEW magic, Maps(d, q),
         d.image.payload \in Seq(Byte), PayloadBytes(d.image) = Len(d.image.payload),
         Decoded(d.image.size, d.image.payload) = p.data,
         d.image.size = p.size \/ p.data = <<>>, (d.image.size < 0) = IsSigned(p)
  PROVE  Same(q, RecordOf(p, magic))
  <1>1. q.data = p.data /\ q.size = d.image.size /\ Agrees(q)
    BY MapsPayload DEF Maps, Honest
  <1>2. IsSigned(q) = IsSigned(p)
    BY <1>1 DEF IsSigned, Agrees
  <1> QED
    BY <1>1, <1>2, SameAs

\* A file that is not damaged, and its image.
Untouched(d, s, p, magic) == Remembers(d, s, p, magic) /\ Exact(d, p, magic)
AsSaved(d, s, p, magic) ==
  /\ s = RecordOf(p, magic) /\ magic \in {"V32", "V33"} /\ Storable(p)
  /\ ImageType(d.image) /\ GoodSize(d.image.size)
  /\ Declared(d.image) = Len(d.image.payload) /\ Decoded(d.image.size, d.image.payload) = p.data
  /\ d.image.magic = magic /\ d.image.size = p.size /\ d.image.count = Count(p)
  /\ d.image.reserved = 0
  /\ d.image.flags = IF magic = "V33" THEN FormatFlags(p.flags) ELSE p.flags
  /\ d.image.fmt = IF magic = "V33" THEN 1 ELSE 0
  /\ d.image.crc = IF magic = "V33" THEN Crc(Encoded(p)) ELSE <<>>
  /\ d.image.payload = Encoded(p)
  /\ Whole(d.image) \in Nat /\ HeaderItems + Len(d.image.payload) <= Whole(d.image)
  /\ d.there = TRUE /\ d.len \in Nat /\ d.len <= Whole(d.image)

\* Its items are those of the column.
LEMMA UndamagedImage ==
  ASSUME NEW d, NEW s, NEW p, NEW magic, Untouched(d, s, p, magic)
  PROVE  AsSaved(d, s, p, magic)
  <1>1. /\ Storable(p) /\ magic \in {"V32", "V33"} /\ s = RecordOf(p, magic)
        /\ d.image = ImageOf(p, magic) /\ d.len <= Whole(d.image) /\ d.len \in Nat
    BY DEF Untouched, Remembers, Exact
  <1>2. d.there = TRUE
    <2>1. d = Stored(d.image, d.len)
      BY DEF Untouched, Remembers
    <2> QED
      BY <2>1 DEF Stored
  <1> DEFINE im == d.image
  <1>3. im = ImageOf(p, magic)
    BY <1>1
  <1> HIDE DEF im
  <1>4. /\ ImageType(im) /\ GoodSize(im.size) /\ Declared(im) = Len(im.payload)
        /\ Whole(im) \in Nat /\ HeaderItems + Len(im.payload) <= Whole(im)
        /\ Decoded(im.size, im.payload) = p.data
    BY <1>1, <1>3, ImageOK
  <1>5. /\ im.magic = magic /\ im.size = p.size /\ im.count = Count(p) /\ im.payload = Encoded(p)
        /\ im.reserved = 0
        /\ im.flags = IF magic = "V33" THEN FormatFlags(p.flags) ELSE p.flags
        /\ im.fmt = IF magic = "V33" THEN 1 ELSE 0
        /\ im.crc = IF magic = "V33" THEN Crc(Encoded(p)) ELSE <<>>
    BY <1>1, <1>3, ImageFields
  <1> QED
    BY <1>1, <1>2, <1>4, <1>5 DEF im, AsSaved

\* s2r_load of a file that is not damaged.
LEMMA LoadedSame ==
  ASSUME NEW d, NEW s, NEW p, NEW magic, Untouched(d, s, p, magic), NEW ok \in BOOLEAN,
         NEW r, r = s2r_load(0, d, ok), r.ret
  PROVE  /\ Same(r.pool, s) /\ magic = "V32" /\ r.pool.data = p.data
         /\ Fills(d.image, p.flags, r.pool) /\ d.image.flags = p.flags
  <1>1. /\ s = RecordOf(p, magic) /\ magic \in {"V32", "V33"}
        /\ ImageType(d.image) /\ Declared(d.image) = Len(d.image.payload)
        /\ Decoded(d.image.size, d.image.payload) = p.data
        /\ d.image.magic = magic /\ d.image.size = p.size
        /\ d.image.flags = IF magic = "V33" THEN FormatFlags(p.flags) ELSE p.flags
    <2>1. AsSaved(d, s, p, magic)
      BY UndamagedImage
    <2> QED
      BY <2>1 DEF AsSaved
  <1>2. Fills(d.image, d.image.flags, r.pool) /\ d.image.magic = "V32"
    <2>1. \/ r = Refused(0)
          \/ r.ret = TRUE /\ Fills(d.image, d.image.flags, r.pool) /\ d.image.magic = "V32"
      BY <1>1, LoadEffect
    <2> QED
      BY <2>1, RefusedIs
  <1>3. magic = "V32" /\ d.image.flags = p.flags
    BY <1>1, <1>2
  <1>4. (d.image.size < 0 \/ "SIGNED" \in d.image.flags) = IsSigned(p)
    BY <1>1, <1>3 DEF IsSigned
  <1>5. Same(r.pool, RecordOf(p, magic)) /\ r.pool.data = p.data
    BY <1>1, <1>2, <1>4, FillsSame
  <1> QED
    BY <1>1, <1>2, <1>3, <1>5

\* s2r_load_portable.
LEMMA PortableSame ==
  ASSUME NEW d, NEW s, NEW p, NEW magic, Untouched(d, s, p, magic), NEW ok \in BOOLEAN,
         NEW r, r = s2r_load_portable(0, d, ok), r.ret
  PROVE  Same(r.pool, s)
  <1>1. /\ s = RecordOf(p, magic) /\ magic \in {"V32", "V33"} /\ d.len \in Nat
        /\ ImageType(d.image) /\ Declared(d.image) = Len(d.image.payload)
        /\ Decoded(d.image.size, d.image.payload) = p.data
        /\ d.image.magic = magic /\ d.image.size = p.size
        /\ d.image.flags = IF magic = "V33" THEN FormatFlags(p.flags) ELSE p.flags
    <2>1. AsSaved(d, s, p, magic)
      BY UndamagedImage
    <2> QED
      BY <2>1 DEF AsSaved
  <1> DEFINE fl == FormatFlags(d.image.flags)
  <1>2. Fills(d.image, fl, r.pool)
    <2>1. \/ r = Refused(0)
          \/ r.ret = TRUE /\ Fills(d.image, fl, r.pool)
      BY <1>1, LoadPortableEffect
    <2> QED
      BY <2>1, RefusedIs
  <1>3. "SIGNED" \in fl <=> "SIGNED" \in p.flags
    BY <1>1 DEF FormatFlags
  <1> HIDE DEF fl
  <1>4. (d.image.size < 0 \/ "SIGNED" \in fl) = IsSigned(p)
    BY <1>1, <1>3 DEF IsSigned
  <1> QED
    BY <1>1, <1>2, <1>4, FillsSame

\* s2r_map_open, without comparing the checksum.
LEMMA MappedSame ==
  ASSUME NEW d, NEW s, NEW p, NEW magic, Untouched(d, s, p, magic), NEW verify \in BOOLEAN,
         NEW r, r = s2r_map_open(0, d, verify), r.ret
  PROVE  Same(r.pool, s)
  <1>1. /\ s = RecordOf(p, magic) /\ magic \in {"V32", "V33"} /\ ImageType(d.image)
        /\ GoodSize(d.image.size) /\ Declared(d.image) = Len(d.image.payload) /\ d.len \in Nat
        /\ Decoded(d.image.size, d.image.payload) = p.data
        /\ d.image.magic = magic /\ d.image.size = p.size
        /\ d.image.flags = IF magic = "V33" THEN FormatFlags(p.flags) ELSE p.flags
    <2>1. AsSaved(d, s, p, magic)
      BY UndamagedImage
    <2> QED
      BY <2>1 DEF AsSaved
  <1>2. Maps(d, r.pool) /\ MapAccepts(d, verify)
    <2>1. \/ r = Refused(0)
          \/ r.ret = TRUE /\ MapAccepts(d, verify) /\ Maps(d, r.pool)
      BY <1>1, MapEffect
    <2> QED
      BY <2>1, RefusedIs
  <1>3. magic = "V33" /\ (d.image.size < 0) = ("SIGNED" \in d.image.flags)
    BY <1>1, <1>2 DEF MapAccepts, HeaderGood
  <1>4. (p.size < 0) = IsSigned(p)
    BY <1>1, <1>3 DEF IsSigned, FormatFlags
  <1>5. PayloadBytes(d.image) = Len(d.image.payload) /\ d.image.payload \in Seq(Byte)
    BY <1>1, DeclaredCounted DEF ImageType
  <1>6. Same(r.pool, RecordOf(p, magic))
    BY <1>1, <1>2, <1>4, <1>5, MapsSame
  <1> QED
    BY <1>1, <1>6

\* Damaged or torn, a portable file that is read with its checksum.
LEMMA DamagedSame ==
  ASSUME NEW d, NEW s, NEW p, NEW magic, Remembers(d, s, p, magic), MaxDamage <= 1,
         s.agrees, d.image.magic = "V33", NEW r, r.ret,
         r \in {s2r_load_portable(0, d, TRUE), s2r_map_open(0, d, TRUE)}
  PROVE  Same(r.pool, s)
  <1>1. s = RecordOf(p, magic) /\ ImageType(d.image) /\ d.len \in Nat /\ d = Stored(d.image, d.len)
    BY DEF Remembers
  <1>t. d.there
    <2>1. d = Stored(d.image, d.len)
      BY <1>1
    <2>2. d.there = TRUE
      BY <2>1 DEF Stored
    <2> QED
      BY <2>2
  <1>2. CASE r = s2r_load_portable(0, d, TRUE)
    <2> DEFINE fl == FormatFlags(d.image.flags)
    <2>1. \/ r = Refused(0)
          \/ /\ r.ret = TRUE /\ Fills(d.image, fl, r.pool)
             /\ \/ d.image.magic = "V32"
                \/ HeaderGood(d.image) /\ LengthExact(d) /\ CrcGood(d.image)
      BY <1>1, <1>2, LoadPortableEffect
    <2>2. Fills(d.image, fl, r.pool) /\ HeaderGood(d.image) /\ LengthExact(d) /\ CrcGood(d.image)
      BY <2>1, RefusedIs
    <2>3. Tells(d.image, p)
      BY <2>2, AcceptedTells
    <2>4. "SIGNED" \in fl <=> "SIGNED" \in d.image.flags
      BY DEF FormatFlags
    <2> HIDE DEF fl
    <2>5. (d.image.size < 0 \/ "SIGNED" \in fl) = IsSigned(p)
      BY <2>3, <2>4 DEF Tells
    <2>6. /\ Declared(d.image) = Len(d.image.payload) /\ Decoded(d.image.size, d.image.payload) = p.data
          /\ d.image.size = p.size \/ p.data = <<>>
      BY <2>3 DEF Tells
    <2>7. Same(r.pool, RecordOf(p, magic))
      BY <1>1, <2>2, <2>5, <2>6, FillsSame
    <2> QED
      BY <1>1, <2>7
  <1>3. CASE r = s2r_map_open(0, d, TRUE)
    <2>1. \/ r = Refused(0)
          \/ r.ret = TRUE /\ MapAccepts(d, TRUE) /\ Maps(d, r.pool)
      BY <1>1, <1>3, MapEffect
    <2>2. Maps(d, r.pool) /\ HeaderGood(d.image) /\ LengthExact(d) /\ CrcGood(d.image)
      BY <1>1, <1>t, <2>1, RefusedIs, MapExact
    <2>3. Tells(d.image, p)
      BY <2>2, AcceptedTells
    <2>4. /\ Decoded(d.image.size, d.image.payload) = p.data
          /\ d.image.size = p.size \/ p.data = <<>>
          /\ (d.image.size < 0) = IsSigned(p)
      BY <2>3 DEF Tells
    <2>5. Same(r.pool, RecordOf(p, magic))
      <3>1. d.image.payload \in Seq(Byte) /\ PayloadBytes(d.image) = Len(d.image.payload)
        BY <1>1, <2>2 DEF ImageType, LengthExact
      <3> QED
        BY <2>2, <2>4, <3>1, MapsSame
    <2> QED
      BY <1>1, <2>5
  <1> QED
    BY <1>2, <1>3

-----------------------------------------------------------------------------
(* The steps.                                                               *)

DiskInv ==
  /\ PoolOK(pool, owner)
  /\ disk = [f \in Files |-> disk[f]] /\ saved = [f \in Files |-> saved[f]]
  /\ writing # "none" => writing \in Files /\ disk[writing] # NoFile
  /\ damage = [hit |-> damage.hit, left |-> damage.left]
  /\ damage.left \in 0 .. MaxDamage
  /\ MaxDamage <= 1 => damage.hit = {} \/ damage.left = 0
  /\ \A f \in Files : FileOK(disk[f], saved[f], f, damage.hit)

\* A file there is, with its image and its length.
IsFile(d, img, len) == d.there = TRUE /\ d.image = img /\ d.len = len /\ d # NoFile

\* What was stored can be looked at.
LEMMA StoredFields ==
  ASSUME NEW img, NEW len
  PROVE  IsFile(Stored(img, len), img, len)
  <1>1. /\ Stored(img, len).there = TRUE
        /\ Stored(img, len).image = img /\ Stored(img, len).len = len
    BY DEF Stored
  <1>2. NoFile.there = FALSE
    BY DEF NoFile
  <1> HIDE DEF Stored
  <1> QED
    BY <1>1, <1>2 DEF IsFile

\* An image or a length replaced.
LEMMA StoredExcept ==
  ASSUME NEW img, NEW len, NEW a, NEW n, NEW d, d = Stored(img, len)
  PROVE  /\ [d EXCEPT !.image = a] = Stored(a, len)
         /\ [d EXCEPT !.len = n] = Stored(img, n)
  <1> DEFINE t == TRUE
             x == [d EXCEPT !.image = a]
             y == [d EXCEPT !.len = n]
  <1>1. d = [there |-> t, image |-> img, len |-> len]
    BY DEF Stored
  <1> HIDE DEF t
  <1>2. x = [there |-> t, image |-> a, len |-> len] /\ y = [there |-> t, image |-> img, len |-> n]
    BY <1>1
  <1> HIDE DEF x, y
  <1>3. x = Stored(a, len) /\ y = Stored(img, n)
    BY <1>2 DEF Stored, t
  <1> QED
    BY <1>3 DEF x, y

\* What a file there is, is typed.
LEMMA FileThere ==
  ASSUME NEW d, NEW s, NEW f, NEW hits, FileOK(d, s, f, hits)
  PROVE  /\ d.there \/ d # NoFile => ImageType(d.image) /\ d.len \in Nat
         /\ d.there \in BOOLEAN
         /\ d.there => d # NoFile
         /\ ~d.there => d = NoFile
  <1>1. NoFile.there = FALSE
    BY DEF NoFile
  <1>2. CASE d = NoFile
    BY <1>1, <1>2
  <1>3. ASSUME NEW p, NEW magic, Remembers(d, s, p, magic)
        PROVE  d.there = TRUE /\ ImageType(d.image) /\ d.len \in Nat /\ d # NoFile
    <2>1. d = Stored(d.image, d.len) /\ ImageType(d.image) /\ d.len \in Nat
      BY <1>3 DEF Remembers
    <2>2. IsFile(Stored(d.image, d.len), d.image, d.len)
      BY StoredFields
    <2> QED
      BY <2>1, <2>2 DEF IsFile
  <1> QED
    BY <1>1, <1>2, <1>3 DEF FileOK

\* The invariant holds at the start.
LEMMA InitDisk == Init => DiskInv
  <1> SUFFICES ASSUME Init  PROVE DiskInv
    OBVIOUS
  <1>1. PoolOK(pool, owner)
    BY FileAssumption DEF Init, PoolOK
  <1>2. /\ disk = [f \in Files |-> NoFile] /\ saved = [f \in Files |-> Nothing] /\ writing = "none"
        /\ damage = [hit |-> {}, left |-> MaxDamage]
    BY DEF Init
  <1>3. damage.hit = {} /\ damage.left = MaxDamage /\ MaxDamage \in 0 .. MaxDamage
    BY <1>2, FileAssumption
  <1>4. disk = [f \in Files |-> disk[f]] /\ saved = [f \in Files |-> saved[f]]
    BY <1>2
  <1>5. \A f \in Files : FileOK(disk[f], saved[f], f, damage.hit)
    BY <1>2 DEF FileOK
  <1>6. damage = [hit |-> damage.hit, left |-> damage.left]
    BY <1>2, <1>3
  <1> QED
    BY <1>1, <1>2, <1>3, <1>4, <1>5, <1>6 DEF DiskInv

\* Only the program's column changed.
LEMMA PoolStep ==
  ASSUME DiskInv, PoolOK(pool', owner'), UNCHANGED <<disk, saved, damage>>,
         writing' = writing \/ writing' = "none"
  PROVE  DiskInv'
  BY DEF DiskInv

\* Each action keeps it: those on the program's own column,
LEMMA BuildStep ==
  ASSUME DiskInv, Build
  PROVE  DiskInv'
  <1>1. pool.heap = 0
    BY DEF DiskInv, Build, PoolOK, Zeroed
  <1>2. PICK a \in Arrays :
          \E r \in {FromArrayAuto(0, a, TRUE), FromArraySignedAuto(0, [i \in DOMAIN a |-> I64(a[i])], TRUE)} :
            r.ret /\ pool' = r.pool
    BY <1>1 DEF Build
  <1>3. PoolOK(pool', "pool")
    BY <1>2, BuiltOK
  <1> QED
    BY <1>3, PoolStep DEF Build

\* those that record a fact,
LEMMA MarkStep ==
  ASSUME DiskInv, MarkFacts
  PROVE  DiskInv'
  <1>1. PoolOK(pool, "pool") /\ owner = "pool"
    BY DEF DiskInv, MarkFacts
  <1>2. PoolOK(pool', "pool")
    BY <1>1, MarkedOK, SummarizedOK DEF MarkFacts, OnlyPool
  <1> QED
    BY <1>1, <1>2, PoolStep DEF MarkFacts, OnlyPool

\* s2r_demote,
LEMMA DemotedStep ==
  ASSUME DiskInv, Demoted
  PROVE  DiskInv'
  <1>1. PoolOK(pool, "pool") /\ owner = "pool"
    BY DEF DiskInv, Demoted
  <1>2. PoolOK(pool', "pool")
    BY <1>1, DemotedOK DEF Demoted, OnlyPool
  <1> QED
    BY <1>1, <1>2, PoolStep DEF Demoted, OnlyPool

\* s2r_free and s2r_map_close,
LEMMA ReleaseStep ==
  ASSUME DiskInv, Release
  PROVE  DiskInv'
  <1>1. PoolOK(pool, owner) /\ owner # "none" /\ owner' = "none"
    BY DEF DiskInv, Release
  <1>2. pool' = IF owner = "pool" THEN Zeroed(PoolFree(pool).heap) ELSE Zeroed(pool.heap)
    BY DEF Release
  <1>3. pool' = Zeroed(0)
    BY <1>1, <1>2, ReleasedOK
  <1>4. PoolOK(pool', owner')
    BY <1>1, <1>3, FileAssumption DEF PoolOK
  <1> QED
    BY <1>4, PoolStep DEF Release

\* a crash,
LEMMA CrashStep ==
  ASSUME DiskInv, Crash
  PROVE  DiskInv'
  <1>1. PoolOK(pool', owner')
    BY FileAssumption DEF Crash, PoolOK
  <1> QED
    BY <1>1, PoolStep DEF Crash

\* and the return from a save.
LEMMA SaveEndsStep ==
  ASSUME DiskInv, SaveEnds
  PROVE  DiskInv'
  <1>1. PoolOK(pool', owner')
    BY DEF DiskInv, SaveEnds
  <1> QED
    BY <1>1, PoolStep DEF SaveEnds

\* A save begins: the file is that of the column, with nothing in it.
LEMMA SaveBeginStep ==
  ASSUME DiskInv, NEW f \in Files, NEW magic \in {"V32", "V33"}, SaveBegin(f, magic)
  PROVE  DiskInv'
  <1> DEFINE img == IF magic = "V33" THEN Portable(pool) ELSE Legacy(pool)
             rec == [values |-> Values(pool), signed |-> IsSigned(pool), size |-> pool.size, magic |-> magic,
                     agrees |-> (pool.size < 0) = ("SIGNED" \in pool.flags)]
             new == Stored(img, 0)
             suicide == owner = f /\ Count(pool) > 0
  <1>1. /\ owner # "none"
        /\ disk' = [disk EXCEPT ![f] = new] /\ saved' = [saved EXCEPT ![f] = rec]
        /\ damage' = [damage EXCEPT !.hit = @ \ {f}]
        /\ writing' = IF suicide THEN "none" ELSE f
        /\ pool' = IF suicide THEN Zeroed(0) ELSE pool
        /\ owner' = IF suicide THEN "none" ELSE owner
    BY DEF SaveBegin
  <1>2. img = ImageOf(pool, magic) /\ rec = RecordOf(pool, magic)
    BY DEF ImageOf, RecordOf
  <1> HIDE DEF img, rec, suicide
  <1>3. Storable(pool)
    BY <1>1 DEF DiskInv, PoolOK, Truthful, Storable
  <1>4. ImageType(img) /\ Whole(img) \in Nat
    BY <1>2, <1>3, ImageOK
  <1>5. new.image = img /\ new.len = 0 /\ new # NoFile
    <2> DEFINE len == 0
    <2> HIDE DEF len
    <2>1. IsFile(Stored(img, len), img, len)
      BY StoredFields
    <2> QED
      BY <2>1 DEF len, IsFile
  <1>6. new = Stored(new.image, new.len)
    BY <1>5
  <1> HIDE DEF new
  <1>7. Remembers(new, rec, pool, magic) /\ Exact(new, pool, magic)
    BY <1>2, <1>3, <1>4, <1>5, <1>6 DEF Remembers, Exact
  <1>8. \A hits : FileOK(new, rec, f, hits)
    BY <1>7 DEF FileOK
  <1>9. /\ damage' = [hit |-> damage.hit \ {f}, left |-> damage.left]
        /\ damage'.hit = damage.hit \ {f} /\ damage'.left = damage.left
    <2>1. damage = [hit |-> damage.hit, left |-> damage.left]
      BY DEF DiskInv
    <2> QED
      BY <1>1, <2>1
  <1>10. /\ disk' = [g \in Files |-> IF g = f THEN new ELSE disk[g]]
         /\ saved' = [g \in Files |-> IF g = f THEN rec ELSE saved[g]]
    BY <1>1 DEF DiskInv
  <1>11. \A g \in Files : FileOK(disk[g], saved[g], g, damage.hit)
    BY DEF DiskInv
  <1>12. \A g \in Files : FileOK(disk'[g], saved'[g], g, damage'.hit)
    <2> TAKE g \in Files
    <2>1. CASE g = f
      BY <1>8, <1>10, <2>1
    <2>2. CASE g # f
      <3>1. disk'[g] = disk[g] /\ saved'[g] = saved[g] /\ (g \in damage'.hit <=> g \in damage.hit)
        BY <1>9, <1>10, <2>2
      <3> QED
        BY <1>11, <3>1 DEF FileOK
    <2> QED
      BY <2>1, <2>2
  <1>13. disk' = [g \in Files |-> disk'[g]] /\ saved' = [g \in Files |-> saved'[g]]
    BY <1>10
  <1>14. writing' # "none" => writing' \in Files /\ disk'[writing'] # NoFile
    BY <1>1, <1>5, <1>10
  <1>15. PoolOK(pool', owner')
    <2>1. CASE suicide
      BY <1>1, <2>1, FileAssumption DEF PoolOK
    <2>2. CASE ~suicide
      BY <1>1, <2>2 DEF DiskInv
    <2> QED
      BY <2>1, <2>2
  <1>16. /\ damage'.left \in 0 .. MaxDamage /\ damage' = [hit |-> damage'.hit, left |-> damage'.left]
         /\ MaxDamage <= 1 => damage'.hit = {} \/ damage'.left = 0
    BY <1>9 DEF DiskInv
  <1> QED
    BY <1>12, <1>13, <1>14, <1>15, <1>16 DEF DiskInv

\* One file changed.
LEMMA FileStep ==
  ASSUME DiskInv, NEW f \in Files, NEW d, disk' = [disk EXCEPT ![f] = d], d # NoFile,
         UNCHANGED <<pool, owner, writing, saved>>,
         damage' = [hit |-> damage'.hit, left |-> damage'.left], damage'.left \in 0 .. MaxDamage,
         MaxDamage <= 1 => damage'.hit = {} \/ damage'.left = 0,
         damage'.hit \ {f} = damage.hit \ {f}, FileOK(d, saved[f], f, damage'.hit)
  PROVE  DiskInv'
  <1>1. disk' = [g \in Files |-> IF g = f THEN d ELSE disk[g]]
    BY DEF DiskInv
  <1>2. \A g \in Files : FileOK(disk[g], saved[g], g, damage.hit)
    BY DEF DiskInv
  <1>3. \A g \in Files : FileOK(disk'[g], saved'[g], g, damage'.hit)
    <2> TAKE g \in Files
    <2>1. CASE g = f
      BY <1>1, <2>1
    <2>2. CASE g # f
      <3>1. disk'[g] = disk[g] /\ saved'[g] = saved[g] /\ (g \in damage'.hit <=> g \in damage.hit)
        BY <1>1, <2>2
      <3> QED
        BY <1>2, <3>1 DEF FileOK
    <2> QED
      BY <2>1, <2>2
  <1>4. disk' = [g \in Files |-> disk'[g]] /\ saved' = [g \in Files |-> saved'[g]]
    BY <1>1 DEF DiskInv
  <1>5. writing' # "none" => writing' \in Files /\ disk'[writing'] # NoFile
    BY <1>1 DEF DiskInv
  <1>6. PoolOK(pool', owner')
    BY DEF DiskInv
  <1> QED
    BY <1>3, <1>4, <1>5, <1>6 DEF DiskInv

\* A byte more is in the file.
LEMMA SaveWritesStep ==
  ASSUME DiskInv, SaveWrites
  PROVE  DiskInv'
  <1> DEFINE f == writing
             d == disk[f]
             n == d.len + 1
             new == [d EXCEPT !.len = n]
  <1>1. /\ f \in Files /\ d # NoFile /\ d.len < Whole(d.image)
        /\ disk' = [disk EXCEPT ![f].len = @ + 1]
        /\ UNCHANGED <<pool, owner, writing, saved, damage>>
    BY DEF SaveWrites, Idle, DiskInv
  <1>2. FileOK(d, saved[f], f, damage.hit)
    BY <1>1 DEF DiskInv
  <1>3. PICK p, magic : Remembers(d, saved[f], p, magic) /\ (f \notin damage.hit => Exact(d, p, magic))
    BY <1>1, <1>2 DEF FileOK
  <1>4. disk' = [disk EXCEPT ![f] = new]
    BY <1>1 DEF DiskInv
  <1>5. d = Stored(d.image, d.len) /\ d.len \in Nat
    BY <1>3 DEF Remembers
  <1>6. new = Stored(d.image, n)
    <2> HIDE DEF n, d
    <2> QED
      BY <1>5, StoredExcept
  <1> HIDE DEF new
  <1>7. new.image = d.image /\ new.len = n /\ new # NoFile /\ n \in Nat
    <2>1. IsFile(Stored(d.image, n), d.image, n)
      BY StoredFields
    <2> HIDE DEF d
    <2> QED
      BY <1>5, <1>6, <2>1 DEF IsFile
  <1>8. Remembers(new, saved[f], p, magic)
    BY <1>3, <1>6, <1>7 DEF Remembers
  <1>9. f \notin damage.hit => Exact(new, p, magic)
    <2> SUFFICES ASSUME f \notin damage.hit  PROVE Exact(new, p, magic)
      OBVIOUS
    <2>1. Storable(p) /\ magic \in {"V32", "V33"} /\ d.image = ImageOf(p, magic)
      BY <1>3 DEF Remembers, Exact
    <2>2. Whole(d.image) \in Nat
      BY <2>1, ImageOK
    <2>3. n <= Whole(d.image)
      BY <1>1, <1>5, <2>2
    <2> QED
      BY <1>7, <2>1, <2>3 DEF Exact
  <1>10. FileOK(new, saved[f], f, damage.hit)
    BY <1>8, <1>9 DEF FileOK
  <1>11. /\ damage' = damage /\ damage = [hit |-> damage.hit, left |-> damage.left]
         /\ damage.left \in 0 .. MaxDamage /\ (MaxDamage <= 1 => damage.hit = {} \/ damage.left = 0)
    BY <1>1 DEF DiskInv
  <1>12. UNCHANGED <<pool, owner, writing, saved>>
    BY <1>1
  <1> HIDE DEF f
  <1>13. FileOK(new, saved[f], f, damage'.hit)
    BY <1>10, <1>11
  <1>14. /\ damage' = [hit |-> damage'.hit, left |-> damage'.left] /\ damage'.left \in 0 .. MaxDamage
         /\ MaxDamage <= 1 => damage'.hit = {} \/ damage'.left = 0
         /\ damage'.hit \ {f} = damage.hit \ {f}
    BY <1>11
  <1> QED
    BY <1>1, <1>4, <1>7, <1>12, <1>13, <1>14, FileStep

\* Damage alters one item, or the length.
LEMMA DamageStep ==
  ASSUME DiskInv, NEW f \in Files, Damage(f)
  PROVE  DiskInv'
  <1> DEFINE d == disk[f]
             hits == damage.hit \cup {f}
             left == damage.left - 1
  <1>1. /\ damage.left > 0 /\ d.there /\ UNCHANGED <<pool, owner, writing, saved>>
        /\ damage' = [hit |-> hits, left |-> left]
        /\ \/ \E img \in Altered(d.image) : disk' = [disk EXCEPT ![f].image = img]
           \/ \E n \in 0 .. d.len + 1 : disk' = [disk EXCEPT ![f].len = n]
    BY DEF Damage
  <1>2. /\ damage.left \in 0 .. MaxDamage /\ (MaxDamage <= 1 => damage.hit = {} \/ damage.left = 0)
        /\ FileOK(d, saved[f], f, damage.hit) /\ disk = [g \in Files |-> disk[g]]
    BY DEF DiskInv
  <1>3. d # NoFile
    BY <1>1, <1>2, FileThere
  <1>4. PICK p, magic : Remembers(d, saved[f], p, magic) /\ (f \notin damage.hit => Exact(d, p, magic))
    BY <1>2, <1>3 DEF FileOK
  <1>5. damage'.hit = hits /\ damage'.left = left /\ damage' = [hit |-> damage'.hit, left |-> damage'.left]
    BY <1>1
  <1>6. /\ damage'.left \in 0 .. MaxDamage /\ (MaxDamage <= 1 => damage'.hit = {} \/ damage'.left = 0)
        /\ damage'.hit \ {f} = damage.hit \ {f} /\ f \in damage'.hit
    BY <1>1, <1>2, <1>5, FileAssumption
  <1>7. MaxDamage <= 1 => d.image = ImageOf(p, magic)
    BY <1>1, <1>2, <1>4 DEF Exact
  <1>8. /\ d = Stored(d.image, d.len) /\ d.len \in Nat /\ ImageType(d.image)
        /\ Storable(p) /\ magic \in {"V32", "V33"}
        /\ d.image \in {ImageOf(p, magic)} \cup Altered(ImageOf(p, magic)) \/ ~(MaxDamage <= 1)
    BY <1>4 DEF Remembers
  <1> HIDE DEF d, hits, left
  <1>9. ASSUME NEW new, NEW img, NEW len \in Nat, new = Stored(img, len), ImageType(img),
               MaxDamage <= 1 => img \in {ImageOf(p, magic)} \cup Altered(ImageOf(p, magic)),
               disk' = [disk EXCEPT ![f] = new]
        PROVE  DiskInv'
    <2>0. IsFile(Stored(img, len), img, len)
      BY StoredFields
    <2>1. new.image = img /\ new.len = len /\ new # NoFile
      BY <1>9, <2>0 DEF IsFile
    <2>2. Remembers(new, saved[f], p, magic)
      BY <1>4, <1>9, <2>1 DEF Remembers
    <2>3. FileOK(new, saved[f], f, damage'.hit)
      BY <1>6, <2>2 DEF FileOK
    <2>4. UNCHANGED <<pool, owner, writing, saved>>
      BY <1>1
    <2> QED
      BY <1>5, <1>6, <1>9, <2>1, <2>3, <2>4, FileStep
  <1>10. CASE \E img \in Altered(d.image) : disk' = [disk EXCEPT ![f].image = img]
    <2>1. PICK img \in Altered(d.image) : disk' = [disk EXCEPT ![f].image = img]
      BY <1>10
    <2> DEFINE new == [d EXCEPT !.image = img]
    <2>2. disk' = [disk EXCEPT ![f] = new]
      BY <1>2, <2>1 DEF d
    <2>3. new = Stored(img, d.len)
      BY <1>8, StoredExcept
    <2> HIDE DEF new
    <2>4. ImageType(img)
      BY <1>8, <2>1, AlteredFields
    <2>5. MaxDamage <= 1 => img \in {ImageOf(p, magic)} \cup Altered(ImageOf(p, magic))
      BY <1>7, <2>1
    <2> QED
      BY <1>8, <1>9, <2>2, <2>3, <2>4, <2>5
  <1>11. CASE \E n \in 0 .. d.len + 1 : disk' = [disk EXCEPT ![f].len = n]
    <2>1. PICK n \in 0 .. d.len + 1 : disk' = [disk EXCEPT ![f].len = n]
      BY <1>11
    <2> DEFINE new == [d EXCEPT !.len = n]
    <2>2. disk' = [disk EXCEPT ![f] = new]
      BY <1>2, <2>1 DEF d
    <2>3. new = Stored(d.image, n) /\ n \in Nat
      BY <1>8, StoredExcept
    <2> HIDE DEF new
    <2>4. MaxDamage <= 1 => d.image \in {ImageOf(p, magic)} \cup Altered(ImageOf(p, magic))
      BY <1>8
    <2> QED
      BY <1>8, <1>9, <2>2, <2>3, <2>4
  <1> QED
    BY <1>1, <1>10, <1>11 DEF d
-----------------------------------------------------------------------------
(* Loading.                                                                 *)

\* What Load and its kind leave: nothing, or a column that is in order.
LEMMA LoadedStep ==
  ASSUME DiskInv, NEW r, NEW o, Loaded(r, o),
         r = Refused(0) \/ (r.ret = TRUE /\ PoolOK(r.pool, o))
  PROVE  DiskInv'
  <1>1. pool' = r.pool /\ owner' = (IF r.ret THEN o ELSE "none") /\ UNCHANGED <<disk, writing, saved, damage>>
    BY DEF Loaded
  <1>2. PoolOK(pool', owner')
    <2>1. CASE r = Refused(0)
      <3>1. pool' = Zeroed(0) /\ owner' = "none"
        BY <1>1, <2>1, RefusedIs
      <3> QED
        BY <3>1, FileAssumption DEF PoolOK
    <2>2. CASE r.ret = TRUE /\ PoolOK(r.pool, o)
      BY <1>1, <2>2
    <2> QED
      BY <2>1, <2>2
  <1> QED
    BY <1>1, <1>2, PoolStep

\* The structure loaded into has no block.
LEMMA NothingHeld ==
  ASSUME DiskInv, owner = "none"
  PROVE  pool.heap = 0
  BY DEF DiskInv, PoolOK, Zeroed

\* A pool filled from a file, whose flags say no more than its sign and its order,
\* is one the program may keep.
LEMMA FilledOK ==
  ASSUME NEW img, NEW flags, NEW q, Fills(img, flags, q), OrderKnown(q),
         flags \cap {"READONLY", "EXTERNAL", "SUMMARY"} = {}
  PROVE  PoolOK(q, "pool")
  <1>1. /\ InUse(q) /\ Fits(q) /\ q.flags = flags
        /\ \/ q.buf = "null" /\ q.heap = 0
           \/ q.buf = "heap" /\ q.heap = 1
    BY DEF Fills
  <1>2. Placed(q)
    BY <1>1 DEF Placed
  <1>3. Summarised(q)
    BY <1>1 DEF Summarised
  <1>4. Truthful(q)
    BY <1>1, <1>2, <1>3 DEF Truthful
  <1> QED
    BY <1>1, <1>4, OwnedOK

\* A file there is and that is not damaged has been saved.
LEMMA UndamagedIs ==
  ASSUME DiskInv, NEW f \in Files, disk[f].there, f \notin damage.hit
  PROVE  \E p, magic : Untouched(disk[f], saved[f], p, magic)
  <1>1. FileOK(disk[f], saved[f], f, damage.hit) /\ disk[f] # NoFile
    BY FileThere DEF DiskInv
  <1> QED
    BY <1>1 DEF FileOK, Untouched

\* What a file holds can be read.
LEMMA FileTyped ==
  ASSUME DiskInv, NEW f \in Files
  PROVE  /\ disk[f].there \in BOOLEAN
         /\ disk[f].there => ImageType(disk[f].image) /\ disk[f].len \in Nat
  <1>1. FileOK(disk[f], saved[f], f, damage.hit)
    BY DEF DiskInv
  <1> QED
    BY <1>1, FileThere

\* What s2r_load is given by a careful caller brings back its order with it.
LEMMA LoadStep ==
  ASSUME DiskInv, Careful, NEW f \in Files, NEW ok \in BOOLEAN, Load(f, ok)
  PROVE  DiskInv'
  <1> DEFINE d == disk[f]
             r == s2r_load(0, d, ok)
  <1>1. owner = "none"
    BY DEF Load, Loaded
  <1>2. Loaded(r, "pool")
    BY <1>1, NothingHeld DEF Load
  <1>3. d.there => f \notin damage.hit /\ d.image.flags \subseteq {"SIGNED", "SORTED"}
    BY DEF Load
  <1>4. d.there => ImageType(d.image)
    BY FileTyped
  <1>5. r = Refused(0) \/ (r.ret = TRUE /\ d.there)
    BY <1>4, LoadEffect
  <1>6. ASSUME r.ret = TRUE, d.there  PROVE PoolOK(r.pool, "pool")
    <2>1. PICK p, magic : Untouched(d, saved[f], p, magic)
      BY <1>3, <1>6, UndamagedIs
    <2> HIDE DEF d
    <2>2. r = s2r_load(0, d, ok) /\ r.ret
      BY <1>6
    <2> HIDE DEF r
    <2>3. /\ Same(r.pool, saved[f]) /\ r.pool.data = p.data
          /\ Fills(d.image, p.flags, r.pool) /\ d.image.flags = p.flags
      BY <2>1, <2>2, LoadedSame
    <2>4. saved[f] = RecordOf(p, magic) /\ Storable(p)
      <3>1. AsSaved(d, saved[f], p, magic)
        BY <2>1, UndamagedImage
      <3> QED
        BY <3>1 DEF AsSaved
    <2>5. saved[f].values = Values(p)
      BY <2>4 DEF RecordOf
    <2>6. Values(r.pool) = Values(p) /\ Count(r.pool) = Count(p)
      BY <2>3, <2>5 DEF Same, Count
    <2>7. InUse(r.pool) /\ InUse(p) /\ OrderKnown(p) /\ r.pool.flags = p.flags
      BY <2>3, <2>4 DEF Fills, Storable
    <2>8. InOrder(r.pool) <=> InOrder(p)
      BY <2>6, <2>7, SameFacts
    <2>9. OrderKnown(r.pool)
      BY <2>7, <2>8 DEF OrderKnown
    <2>10. p.flags \cap {"READONLY", "EXTERNAL", "SUMMARY"} = {}
      BY <1>3, <1>6, <2>3
    <2> QED
      BY <2>3, <2>9, <2>10, FilledOK
  <1> HIDE DEF r
  <1> QED
    BY <1>2, <1>5, <1>6, LoadedStep

\* s2r_load_portable, which believes no flag but the sign.
LEMMA LoadPortableStep ==
  ASSUME DiskInv, NEW f \in Files, NEW ok \in BOOLEAN, LoadPortable(f, ok)
  PROVE  DiskInv'
  <1> DEFINE d == disk[f]
             r == s2r_load_portable(0, d, ok)
             fl == FormatFlags(d.image.flags)
  <1>1. owner = "none"
    BY DEF LoadPortable, Loaded
  <1>2. Loaded(r, "pool")
    BY <1>1, NothingHeld DEF LoadPortable
  <1>3. d.there => ImageType(d.image) /\ d.len \in Nat
    BY FileTyped
  <1>4. r = Refused(0) \/ (r.ret = TRUE /\ Fills(d.image, fl, r.pool))
    BY <1>3, LoadPortableEffect
  <1>5. fl \cap {"READONLY", "EXTERNAL", "SUMMARY"} = {} /\ "SORTED" \notin fl
    BY DEF FormatFlags
  <1> HIDE DEF r, fl
  <1>6. ASSUME Fills(d.image, fl, r.pool)  PROVE PoolOK(r.pool, "pool")
    <2>1. r.pool.flags = fl
      BY <1>6 DEF Fills
    <2>2. OrderKnown(r.pool)
      BY <1>5, <2>1 DEF OrderKnown
    <2> QED
      BY <1>5, <1>6, <2>2, FilledOK
  <1> QED
    BY <1>2, <1>4, <1>6, LoadedStep

\* s2r_map_open.
LEMMA MapOpenStep ==
  ASSUME DiskInv, NEW f \in Files, NEW verify \in BOOLEAN, MapOpen(f, verify)
  PROVE  DiskInv'
  <1> DEFINE d == disk[f]
             r == s2r_map_open(0, d, verify)
  <1>1. owner = "none"
    BY DEF MapOpen, Loaded
  <1>2. Loaded(r, f)
    BY <1>1, NothingHeld DEF MapOpen
  <1>3. d.there => ImageType(d.image) /\ d.len \in Nat
    BY FileTyped
  <1>4. r = Refused(0) \/ (r.ret = TRUE /\ Maps(d, r.pool))
    BY <1>3, MapEffect
  <1> HIDE DEF r
  <1>5. ASSUME Maps(d, r.pool)  PROVE PoolOK(r.pool, f)
    <2>1. Honest(r.pool) /\ Fits(r.pool) /\ "EXTERNAL" \in r.pool.flags
      BY <1>5 DEF Maps
    <2>2. Truthful(r.pool)
      BY <2>1 DEF Honest, Truthful
    <2>3. f # "none" /\ f # "pool"
      BY FileAssumption
    <2> QED
      BY <2>1, <2>2, <2>3 DEF PoolOK
  <1> QED
    BY <1>2, <1>4, <1>5, LoadedStep

\* Every step keeps the invariant.
LEMMA NextDisk == Careful => (DiskInv /\ [Next]_vars => DiskInv')
  <1> SUFFICES ASSUME Careful, DiskInv, [Next]_vars  PROVE DiskInv'
    OBVIOUS
  <1>1. CASE Build
    BY <1>1, BuildStep
  <1>2. CASE MarkFacts
    BY <1>2, MarkStep
  <1>3. CASE Demoted
    BY <1>3, DemotedStep
  <1>4. CASE Release
    BY <1>4, ReleaseStep
  <1>5. CASE \E f \in Files, magic \in {"V32", "V33"} : SaveBegin(f, magic)
    BY <1>5, SaveBeginStep
  <1>6. CASE SaveWrites
    BY <1>6, SaveWritesStep
  <1>7. CASE SaveEnds
    BY <1>7, SaveEndsStep
  <1>8. CASE Crash
    BY <1>8, CrashStep
  <1>9. CASE \E f \in Files, b \in BOOLEAN : Load(f, b) \/ LoadPortable(f, b) \/ MapOpen(f, b)
    <2>1. PICK f \in Files, b \in BOOLEAN : Load(f, b) \/ LoadPortable(f, b) \/ MapOpen(f, b)
      BY <1>9
    <2> QED
      BY <2>1, LoadStep, LoadPortableStep, MapOpenStep
  <1>10. CASE \E f \in Files : Damage(f)
    BY <1>10, DamageStep
  <1>11. CASE UNCHANGED vars
    BY <1>11 DEF vars, DiskInv
  <1> QED
    BY <1>1, <1>2, <1>3, <1>4, <1>5, <1>6, <1>7, <1>8, <1>9, <1>10, <1>11 DEF Next

\* The inductive invariant holds, if s2r_load is used with care.
LEMMA DiskInvariance == Careful => (Spec => []DiskInv)
  <1> SUFFICES ASSUME Careful  PROVE Spec => []DiskInv
    OBVIOUS
  <1>1. DiskInv /\ [Next]_vars => DiskInv'
    BY NextDisk
  <1> QED
    BY <1>1, InitDisk, PTL DEF Spec
-----------------------------------------------------------------------------
(* What the readers accept.                                                 *)

\* A portable file is loaded if it would be mapped, and not otherwise.
LEMMA PortableAccepts ==
  ASSUME NEW d, ImageType(d.image), d.there = TRUE, d.len \in Nat, d.image.magic = "V33"
  PROVE  s2r_load_portable(0, d, TRUE).ret = MapAccepts(d, TRUE)
  <1> DEFINE r == s2r_load_portable(0, d, TRUE)
             fl == FormatFlags(d.image.flags)
             ok == TRUE
             acc == HeaderGood(d.image) /\ LengthExact(d) /\ CrcGood(d.image)
  <1>1. MapAccepts(d, TRUE) = (HeaderItems <= d.len /\ acc)
    <2>1. MapAccepts(d, TRUE) \in BOOLEAN /\ acc \in BOOLEAN
      BY DEF MapAccepts, HeaderGood, LengthExact, CrcGood, CountFits
    <2>2. MapAccepts(d, TRUE) <=> acc
      BY MapExact
    <2>3. acc => HeaderItems <= d.len
      <3> SUFFICES ASSUME acc  PROVE HeaderItems <= d.len
        OBVIOUS
      <3>1. d.len = Whole(d.image) /\ HeaderItems + Trailer <= Whole(d.image)
        BY LengthWithChecksum, ChecksumLength DEF LengthExact
      <3> QED
        BY <3>1 DEF HeaderItems, Trailer
    <2> HIDE DEF acc
    <2> QED
      BY <2>1, <2>2, <2>3
  <1>2. (d.len < HeaderItems) = ~(HeaderItems <= d.len)
    BY DEF HeaderItems
  <1>3. r = IF d.len < HeaderItems THEN Refused(0) ELSE IF acc THEN Read(0, d, fl, TRUE) ELSE Refused(0)
    <2>1. r = IF d.len < HeaderItems THEN Refused(0)
              ELSE IF LoaderAccepts(d) THEN Read(0, d, fl, TRUE) ELSE Refused(0)
      BY DEF s2r_load_portable
    <2>2. LoaderAccepts(d) <=> acc
      BY LoaderExact
    <2> HIDE DEF acc, r, fl
    <2> QED
      BY <2>1, <2>2
  <1>4. acc => Read(0, d, fl, TRUE).ret = TRUE
    <2> SUFFICES ASSUME acc  PROVE Read(0, d, fl, TRUE).ret = TRUE
      OBVIOUS
    <2>1. GoodSize(d.image.size) /\ LengthExact(d)
      BY DEF HeaderGood
    <2>2. Declared(d.image) = Len(d.image.payload) /\ Len(d.image.payload) \in Nat
      BY <2>1, ExactAnnounced DEF ImageType
    <2>3. Declared(d.image) <= Len(d.image.payload)
      BY <2>2
    <2>4. fl \in SUBSET Flags /\ ok \in BOOLEAN
      BY DEF ImageType, FormatFlags
    <2>5. ok
      OBVIOUS
    <2> HIDE DEF ok, fl
    <2>6. Read(0, d, fl, ok).ret = TRUE
      BY <2>1, <2>3, <2>4, <2>5, ReadEffect
    <2> QED
      BY <2>6 DEF ok
  <1>5. Refused(0).ret = FALSE
    BY RefusedIs
  <1>6. acc \in BOOLEAN
    BY DEF HeaderGood, LengthExact, CrcGood, CountFits
  <1> HIDE DEF acc, r, fl
  <1>7. CASE d.len < HeaderItems
    BY <1>1, <1>2, <1>3, <1>5, <1>7 DEF r
  <1>8. CASE ~(d.len < HeaderItems) /\ acc
    BY <1>1, <1>2, <1>3, <1>4, <1>8 DEF r
  <1>9. CASE ~(d.len < HeaderItems) /\ ~acc
    BY <1>1, <1>2, <1>3, <1>5, <1>9 DEF r
  <1> QED
    BY <1>7, <1>8, <1>9

\* And it is mapped if its header, its length and its checksum are right.
LEMMA MapRet ==
  ASSUME NEW d, ImageType(d.image), d.len \in Nat, NEW verify \in BOOLEAN
  PROVE  s2r_map_open(0, d, verify).ret = MapAccepts(d, verify)
  <1> DEFINE r == s2r_map_open(0, d, verify)
  <1>1. CASE MapAccepts(d, verify)
    <2>1. \/ r = Refused(0) /\ ~MapAccepts(d, verify)
          \/ r.ret = TRUE
      BY MapEffect
    <2>2. r.ret = TRUE
      BY <1>1, <2>1
    <2>3. MapAccepts(d, verify) \in BOOLEAN
      BY DEF MapAccepts
    <2> QED
      BY <1>1, <2>2, <2>3
  <1>2. CASE ~MapAccepts(d, verify)
    <2>1. r = Refused(0)
      BY <1>2 DEF s2r_map_open
    <2>2. r.ret = FALSE
      BY <2>1, RefusedIs
    <2>3. MapAccepts(d, verify) \in BOOLEAN
      BY DEF MapAccepts
    <2> QED
      BY <1>2, <2>2, <2>3
  <1> QED
    BY <1>1, <1>2

\* A file that is complete, of a column whose class and sign flag agree, is accepted.
LEMMA CompleteIs ==
  ASSUME NEW d, NEW s, NEW p, NEW magic, Untouched(d, s, p, magic), d.len = Whole(d.image), s.agrees
  PROVE  /\ d.there = TRUE /\ ImageType(d.image) /\ d.image.magic = magic /\ d.image.size = s.size
         /\ s.magic = magic /\ magic \in {"V32", "V33"}
         /\ HeaderItems <= d.len /\ d.len \in Nat
         /\ GoodSize(d.image.size) /\ HasPayload(d, Declared(d.image))
         /\ magic = "V33" => HeaderGood(d.image) /\ LengthExact(d) /\ CrcGood(d.image)
  <1> DEFINE im == d.image
             e == Bytes(im.size)
             m == im.count * e
  <1>0. AsSaved(d, s, p, magic)
    BY UndamagedImage
  <1>1. /\ s = RecordOf(p, magic) /\ magic \in {"V32", "V33"} /\ Storable(p)
        /\ ImageType(im) /\ GoodSize(im.size) /\ Declared(im) = Len(im.payload)
        /\ im.magic = magic /\ im.size = p.size /\ im.count = Count(p) /\ im.reserved = 0
        /\ im.flags = (IF magic = "V33" THEN FormatFlags(p.flags) ELSE p.flags)
        /\ im.fmt = (IF magic = "V33" THEN 1 ELSE 0)
        /\ im.crc = (IF magic = "V33" THEN Crc(Encoded(p)) ELSE <<>>)
        /\ im.payload = Encoded(p)
        /\ HeaderItems + Len(im.payload) <= Whole(im)
        /\ d.there = TRUE /\ d.len \in Nat
    BY <1>0 DEF AsSaved
  <1>2. s.size = p.size /\ s.magic = magic /\ s.agrees = ((p.size < 0) = ("SIGNED" \in p.flags))
    BY <1>1 DEF RecordOf
  <1>3. (p.size < 0) = ("SIGNED" \in p.flags)
    BY <1>2
  <1>4. Declared(im) = m /\ m \in Nat /\ Len(im.payload) = m /\ im.count \in Nat /\ e \in Nat \ {0}
    <2>1. im.size \in Sizes
      BY <1>1 DEF ImageType, GoodSize, Sizes
    <2>2. e \in Nat \ {0} /\ im.count \in Nat
      BY <1>1, <2>1, SizeFacts DEF ImageType
    <2>3. im.payload \in Seq(Byte)
      BY <1>1 DEF ImageType
    <2>4. Declared(im) = m
      BY DEF Declared
    <2> QED
      BY <1>1, <2>2, <2>3, <2>4
  <1>5. m <= Memory
    BY <1>1 DEF Storable, Fits
  <1> HIDE DEF im, e
  <1>6. im.count <= SizeMax \div e /\ SizeT(im.count * e) = m
    BY <1>4, <1>5, CountedExactly
  <1> HIDE DEF m
  <1>7. d.len = Whole(im)
    BY DEF im
  <1>8. HeaderItems <= d.len /\ HasPayload(d, Declared(im))
    <2>1. m <= Len(im.payload) /\ HeaderItems + m <= d.len
      BY <1>1, <1>4, <1>7
    <2>2. HeaderItems <= d.len
      BY <1>1, <1>4, <2>1 DEF HeaderItems
    <2> QED
      BY <1>4, <2>1, <2>2 DEF HasPayload, im
  <1>9. ASSUME magic = "V33"  PROVE HeaderGood(im) /\ LengthExact(d) /\ CrcGood(im)
    <2>1. im.flags = FormatFlags(p.flags) /\ im.fmt = 1 /\ im.crc = Crc(Encoded(p))
      BY <1>1, <1>9
    <2>2. (im.size < 0) = ("SIGNED" \in im.flags)
      BY <1>1, <1>3, <2>1 DEF FormatFlags
    <2>3. HeaderGood(im)
      BY <1>1, <2>1, <2>2 DEF HeaderGood
    <2>4. LengthExact(d)
      BY <1>4, <1>6, <1>7 DEF LengthExact, CountFits, PayloadBytes, e, im
    <2>5. CrcGood(im)
      BY <1>1, <2>1 DEF CrcGood
    <2> QED
      BY <2>3, <2>4, <2>5
  <1> QED
    BY <1>1, <1>2, <1>8, <1>9 DEF im
-----------------------------------------------------------------------------
(* The properties.                                                          *)

\* A column read from a file owns its block, can be written and is released with
\* it, whatever column was saved (s2r_load, s2r_load_portable); a mapped one has
\* none (s2r_map_open): "must never round-trip through a file".
THEOREM BlocksStayHome == Careful => (Spec => []OwnershipStaysHome)
  <1> SUFFICES ASSUME Careful  PROVE Spec => []OwnershipStaysHome
    OBVIOUS
  <1>1. DiskInv => OwnershipStaysHome
    <2> SUFFICES ASSUME DiskInv  PROVE OwnershipStaysHome
      OBVIOUS
    <2>1. PoolOK(pool, owner)
      BY DEF DiskInv
    <2>2. CASE owner = "none"
      <3>1. pool = Zeroed(0)
        BY <2>1, <2>2 DEF PoolOK
      <3>2. pool.flags = {} /\ pool.heap = 0
        BY <3>1 DEF Zeroed
      <3> QED
        BY <2>2, <3>2 DEF OwnershipStaysHome
    <2>3. CASE owner = "pool"
      <3>1. pool.flags \cap {"READONLY", "EXTERNAL"} = {} /\ Placed(pool)
        BY <2>1, <2>3 DEF PoolOK, Truthful
      <3> QED
        BY <2>3, <3>1 DEF OwnershipStaysHome, Placed
    <2>4. CASE owner \in Files
      <3>1. owner # "none" /\ owner # "pool"
        BY <2>4, FileAssumption
      <3>2. "EXTERNAL" \in pool.flags /\ Placed(pool)
        BY <2>1, <2>4, <3>1 DEF PoolOK, Truthful
      <3>3. pool.buf = "mapping" /\ pool.heap = 0
        BY <3>2 DEF Placed
      <3> QED
        BY <2>4, <3>1, <3>3 DEF OwnershipStaysHome
    <2> QED
      BY <2>1, <2>2, <2>3, <2>4 DEF PoolOK
  <1> QED
    BY <1>1, DiskInvariance, PTL

\* The order and the extremes a column claims are true of it, wherever it was read
\* from: a portable file carries neither, and a file of the older format, not
\* damaged, is that of a column whose order was checked (s2r_load, s2r_mark_sorted).
THEOREM FactsReadBackTrue == Careful => (Spec => []FactsStayTrue)
  <1> SUFFICES ASSUME Careful  PROVE Spec => []FactsStayTrue
    OBVIOUS
  <1>1. DiskInv => FactsStayTrue
    <2> SUFFICES ASSUME DiskInv  PROVE FactsStayTrue
      OBVIOUS
    <2>1. CASE owner = "none"
      <3>1. pool = Zeroed(0)
        BY <2>1 DEF DiskInv, PoolOK
      <3>2. pool.flags = {}
        BY <3>1 DEF Zeroed
      <3> QED
        BY <3>2 DEF FactsStayTrue
    <2>2. CASE owner # "none"
      BY <2>2 DEF DiskInv, PoolOK, Truthful, OrderKnown, Summarised, FactsStayTrue
    <2> QED
      BY <2>1, <2>2
  <1> QED
    BY <1>1, DiskInvariance, PTL

\* s2r_map_open with the checksum and s2r_load_portable accept the same files of
\* the portable format, whatever crashes, failed writes and damage left in them.
THEOREM ReadersAcceptTheSame == Careful => (Spec => []ReadersAgree)
  <1> SUFFICES ASSUME Careful  PROVE Spec => []ReadersAgree
    OBVIOUS
  <1>1. DiskInv => ReadersAgree
    <2> SUFFICES ASSUME DiskInv, NEW f \in Files, disk[f].there, disk[f].image.magic = "V33"
                 PROVE  s2r_map_open(0, disk[f], TRUE).ret = s2r_load_portable(0, disk[f], TRUE).ret
      BY DEF ReadersAgree
    <2> DEFINE d == disk[f]
               v == TRUE
    <2>1. FileOK(d, saved[f], f, damage.hit) /\ d # NoFile
      BY FileThere DEF DiskInv
    <2>2. PICK p, magic : Remembers(d, saved[f], p, magic)
      BY <2>1 DEF FileOK
    <2>3. ImageType(d.image) /\ d.len \in Nat /\ d = Stored(d.image, d.len) /\ d.image.magic = "V33"
      BY <2>2 DEF Remembers
    <2>4. v \in BOOLEAN
      OBVIOUS
    <2> HIDE DEF d
    <2>5. d.there = TRUE
      <3>1. IsFile(Stored(d.image, d.len), d.image, d.len)
        BY StoredFields
      <3> QED
        BY <2>3, <3>1 DEF IsFile
    <2>6. s2r_load_portable(0, d, TRUE).ret = MapAccepts(d, TRUE)
      BY <2>3, <2>5, PortableAccepts
    <2> HIDE DEF v
    <2>7. s2r_map_open(0, d, v).ret = MapAccepts(d, v)
      BY <2>3, <2>4, MapRet
    <2> QED
      BY <2>6, <2>7 DEF d, v
  <1> QED
    BY <1>1, DiskInvariance, PTL

\* What a complete, undamaged file is read back as.
LEMMA CompleteBack ==
  ASSUME NEW d, NEW s, NEW p, NEW magic, Untouched(d, s, p, magic), d.len = Whole(d.image), s.agrees
  PROVE  /\ s2r_load_portable(0, d, TRUE).ret /\ s2r_load_portable(0, d, TRUE).pool.size = s.size
         /\ s.magic = "V33" =>
              s2r_map_open(0, d, TRUE).ret /\ s2r_map_open(0, d, TRUE).pool.size = s.size
         /\ s.magic = "V32" => s2r_load(0, d, TRUE).ret /\ s2r_load(0, d, TRUE).pool.size = s.size
  <1>1. /\ d.there = TRUE /\ ImageType(d.image) /\ d.image.magic = magic /\ d.image.size = s.size
        /\ s.magic = magic /\ magic \in {"V32", "V33"} /\ HeaderItems <= d.len /\ d.len \in Nat
        /\ GoodSize(d.image.size) /\ HasPayload(d, Declared(d.image))
        /\ magic = "V33" => HeaderGood(d.image) /\ LengthExact(d) /\ CrcGood(d.image)
    BY CompleteIs
  <1>2. ~(d.len < HeaderItems)
    BY <1>1 DEF HeaderItems
  <1> DEFINE ok == TRUE
             fl == FormatFlags(d.image.flags)
             rp == s2r_load_portable(0, d, ok)
             rm == s2r_map_open(0, d, ok)
             rl == s2r_load(0, d, ok)
  <1>3. ok \in BOOLEAN /\ ok
    OBVIOUS
  <1>4. fl \in SUBSET Flags /\ d.image.flags \in SUBSET Flags
    BY <1>1 DEF ImageType, FormatFlags
  <1>5. Declared(d.image) <= Len(d.image.payload)
    BY <1>1 DEF HasPayload
  <1> HIDE DEF ok
  <1>6. magic = "V32" => rl = Read(0, d, d.image.flags, ok) /\ rp = Read(0, d, fl, ok)
    BY <1>1, <1>2 DEF s2r_load, s2r_load_portable, Declared
  <1>7. magic = "V33" => MapAccepts(d, ok) /\ LoaderAccepts(d)
    <2> SUFFICES ASSUME magic = "V33"  PROVE MapAccepts(d, ok) /\ LoaderAccepts(d)
      OBVIOUS
    <2>1. LoaderAccepts(d) /\ MapAccepts(d, TRUE)
      BY <1>1, LoaderExact, MapExact
    <2> QED
      BY <2>1 DEF ok
  <1> HIDE DEF rl, rp, rm, fl
  <1>8. \A flags \in SUBSET Flags :
          Read(0, d, flags, ok).ret = TRUE /\ Read(0, d, flags, ok).pool.size = s.size
    <2> TAKE flags \in SUBSET Flags
    <2> DEFINE r == Read(0, d, flags, ok)
    <2>1. r.ret = TRUE /\ Fills(d.image, flags, r.pool)
      BY <1>1, <1>3, <1>5, ReadEffect
    <2> HIDE DEF r
    <2>2. r.ret = TRUE /\ r.pool.size = s.size
      BY <1>1, <2>1 DEF Fills
    <2> QED
      BY <2>2 DEF r
  <1>9. CASE magic = "V32"
    <2>1. rl.ret = TRUE /\ rl.pool.size = s.size
      BY <1>4, <1>6, <1>8, <1>9
    <2>2. rp.ret = TRUE /\ rp.pool.size = s.size
      BY <1>4, <1>6, <1>8, <1>9
    <2> QED
      BY <1>1, <1>9, <2>1, <2>2 DEF rl, rp, ok
  <1>10. CASE magic = "V33"
    <2>1. rm.ret = TRUE /\ rm.pool.size = s.size
      <3>1. MapAccepts(d, ok)
        BY <1>7, <1>10
      <3>2. \/ rm = Refused(0) /\ ~MapAccepts(d, ok)
            \/ rm.ret = TRUE /\ Maps(d, rm.pool)
        BY <1>1, <1>3, MapEffect DEF rm
      <3> QED
        BY <1>1, <3>1, <3>2 DEF Maps
    <2>2. rp.ret = TRUE /\ rp.pool.size = s.size
      <3>1. rp = Read(0, d, fl, ok)
        BY <1>1, <1>2, <1>7, <1>10 DEF rp, fl, s2r_load_portable
      <3> QED
        BY <1>4, <1>8, <3>1
    <2> QED
      BY <1>1, <1>10, <2>1, <2>2 DEF rm, rp, ok
  <1> QED
    BY <1>1, <1>9, <1>10

\* A complete file that is not damaged, of a column whose class and sign flag agree,
\* is read by each reader of its format, in the class of the column (s2r_save,
\* s2r_save_portable and the three readers).
THEOREM SavedIsReadable == Careful => (Spec => []SavedCanBeLoaded)
  <1> SUFFICES ASSUME Careful  PROVE Spec => []SavedCanBeLoaded
    OBVIOUS
  <1>1. DiskInv => SavedCanBeLoaded
    <2> SUFFICES ASSUME DiskInv, NEW f \in Files, Intact(f), saved[f].agrees
                 PROVE  LET back(r) == r.ret /\ r.pool.size = saved[f].size IN
                        /\ back(s2r_load_portable(0, disk[f], TRUE))
                        /\ saved[f].magic = "V33" => back(s2r_map_open(0, disk[f], TRUE))
                        /\ saved[f].magic = "V32" => back(s2r_load(0, disk[f], TRUE))
      BY DEF SavedCanBeLoaded
    <2>1. disk[f].there /\ f \notin damage.hit /\ disk[f].len = Whole(disk[f].image)
      BY DEF Intact
    <2>2. PICK p, magic : Untouched(disk[f], saved[f], p, magic)
      BY <2>1, UndamagedIs
    <2> QED
      BY <2>1, <2>2, CompleteBack
  <1> QED
    BY <1>1, DiskInvariance, PTL

\* A reader given no file refuses it, or what it returns is the column saved.
LEMMA UndamagedReads ==
  ASSUME DiskInv, NEW f \in Files, f \notin damage.hit,
         NEW r, r.ret,
         \/ r = s2r_load(0, disk[f], TRUE)
         \/ r = s2r_load_portable(0, disk[f], TRUE)
         \/ r = s2r_map_open(0, disk[f], FALSE)
  PROVE  Same(r.pool, saved[f])
  <1> DEFINE d == disk[f]
             ok == TRUE
             no == FALSE
  <1>1. r # Refused(0)
    BY RefusedIs
  <1>2. d.there
    BY <1>1 DEF s2r_load, s2r_load_portable, s2r_map_open, MapAccepts
  <1>3. PICK p, magic : Untouched(d, saved[f], p, magic)
    BY <1>2, UndamagedIs
  <1>4. \/ r = s2r_load(0, d, ok)
        \/ r = s2r_load_portable(0, d, ok)
        \/ r = s2r_map_open(0, d, no)
    OBVIOUS
  <1>5. ok \in BOOLEAN /\ no \in BOOLEAN
    OBVIOUS
  <1> HIDE DEF d, ok, no
  <1>6. CASE r = s2r_load(0, d, ok)
    BY <1>3, <1>5, <1>6, LoadedSame
  <1>7. CASE r = s2r_load_portable(0, d, ok)
    BY <1>3, <1>5, <1>7, PortableSame
  <1>8. CASE r = s2r_map_open(0, d, no)
    BY <1>3, <1>5, <1>8, MappedSame
  <1> QED
    BY <1>4, <1>6, <1>7, <1>8

\* At any moment, in a save, after a crash, a failed write or damage to one place,
\* s2r_load_portable and s2r_map_open with the checksum return the column last saved
\* to a portable file, or refuse; so do s2r_load and s2r_map_open without it on a
\* file that is not damaged.
THEOREM ReadsWhatWasSaved == Careful /\ MaxDamage <= 1 => (Spec => []LoadsWhatWasSaved)
  <1> SUFFICES ASSUME Careful, MaxDamage <= 1  PROVE Spec => []LoadsWhatWasSaved
    OBVIOUS
  <1>1. DiskInv => LoadsWhatWasSaved
    <2> SUFFICES ASSUME DiskInv, NEW f \in Files
                 PROVE  LET reads(r) == r.ret => Same(r.pool, saved[f]) IN
                        /\ disk[f].there /\ disk[f].image.magic = "V33" /\ saved[f].agrees =>
                             /\ reads(s2r_load_portable(0, disk[f], TRUE))
                             /\ reads(s2r_map_open(0, disk[f], TRUE))
                        /\ f \notin damage.hit =>
                             /\ reads(s2r_load(0, disk[f], TRUE))
                             /\ reads(s2r_load_portable(0, disk[f], TRUE))
                             /\ reads(s2r_map_open(0, disk[f], FALSE))
      BY DEF LoadsWhatWasSaved
    <2>1. ASSUME disk[f].there, disk[f].image.magic = "V33", saved[f].agrees,
                 NEW r, r.ret,
                 r \in {s2r_load_portable(0, disk[f], TRUE), s2r_map_open(0, disk[f], TRUE)}
          PROVE  Same(r.pool, saved[f])
      <3>1. FileOK(disk[f], saved[f], f, damage.hit) /\ disk[f] # NoFile
        BY <2>1, FileThere DEF DiskInv
      <3>2. PICK p, magic : Remembers(disk[f], saved[f], p, magic)
        BY <3>1 DEF FileOK
      <3> QED
        BY <2>1, <3>2, DamagedSame
    <2> QED
      BY <2>1, UndamagedReads
  <1> QED
    BY <1>1, DiskInvariance, PTL
-----------------------------------------------------------------------------
(* The ports.                                                               *)

\* Places grow.
LEMMA PlaceGrows ==
  ASSUME NEW n \in Nat, NEW m \in 0 .. n
  PROVE  Place(m) <= Place(n)
  <1> DEFINE k == n - m
             S == {i \in 0 .. k : Place(m) <= Place(m + i)}
  <1>1. Place(m) \in Nat \ {0} /\ m + 0 = m /\ k \in Nat /\ m + k = n
    BY PlaceFacts
  <1>2. 0 \in S
    BY <1>1
  <1>3. ASSUME NEW i \in 1 .. k, i - 1 \in S  PROVE i \in S
    <2> DEFINE j == m + (i - 1)
               P == Place(j)
               B == Pow(1)
    <2>1. j \in Nat /\ j + 1 = m + i
      BY <1>1
    <2>2. P \in Nat \ {0} /\ Place(m + i) = B * P
      BY <2>1, PlaceFacts
    <2>3. B \in Nat \ {0}
      BY PowFacts, ClassAssumption DEF Classes
    <2>4. Place(m) <= P
      BY <1>3
    <2> HIDE DEF P, B
    <2>5. P <= B * P /\ B * P \in Nat
      BY <2>2, <2>3, SMT
    <2>6. Place(m) <= Place(m + i)
      BY <1>1, <2>2, <2>4, <2>5
    <2> QED
      BY <2>6
  <1> HIDE DEF S, k
  <1>4. S \in SUBSET (0 .. k)
    BY DEF S
  <1>5. S = 0 .. k
    BY <1>1, <1>2, <1>3, <1>4, UpTo
  <1>6. k \in S
    BY <1>1, <1>5
  <1> QED
    BY <1>1, <1>6 DEF S

\* A wider class has no fewer bytes.
LEMMA NarrowerBytes ==
  ASSUME NEW c \in Classes, NEW d \in Classes, c <= d
  PROVE  ElemBytes[c] <= ElemBytes[d]
  <1>1. /\ ElemBytes[c] \in Nat \ {0} /\ ElemBytes[d] \in Nat \ {0}
        /\ Half[c] \in Nat \ {0} /\ Half[d] \in Nat \ {0}
        /\ Pow(c) = 2 * Half[c] /\ Pow(d) = 2 * Half[d]
    BY PowFacts DEF Pow
  <1>2. CASE c = d
    BY <1>1, <1>2
  <1>3. CASE c < d
    <2>1. 2 * Half[c] <= Half[d]
      BY <1>3, ClassAssumption DEF Classes
    <2>2. Pow(c) = Place(ElemBytes[c]) /\ Pow(d) = Place(ElemBytes[d])
      BY FileAssumption
    <2> SUFFICES ASSUME ElemBytes[d] < ElemBytes[c]  PROVE FALSE
      BY <1>1
    <2>3. ElemBytes[d] \in 0 .. ElemBytes[c] /\ ElemBytes[c] \in Nat
      BY <1>1
    <2>4. Place(ElemBytes[d]) <= Place(ElemBytes[c])
      BY <2>3, PlaceGrows
    <2> QED
      BY <1>1, <2>1, <2>2, <2>4
  <1> QED
    BY <1>2, <1>3 DEF Classes

\* The bytes of a word made of bytes are those bytes.
LEMMA ByteBack ==
  ASSUME NEW n \in Nat, NEW bytes \in [1 .. n -> Byte], NEW j \in 1 .. n
  PROVE  ByteOf(WordOf(bytes), j - 1) = bytes[j]
  <1>1. PICK s : Makes(s, bytes, n) /\ WordOf(bytes) = s[n]
    BY WordIs
  <1> DEFINE P == Place(j - 1)
             B == Pow(1)
             Q == Place(j)
             S == {i \in 0 .. n : i < j \/ \E x, y \in Nat : s[i] = s[j] + x * Q /\ Place(i) = y * Q}
  <1>2. P \in Nat \ {0} /\ B \in Nat \ {0} /\ Q = B * P /\ Q \in Nat \ {0}
    <2>1. j - 1 \in Nat /\ (j - 1) + 1 = j /\ j \in Nat
      OBVIOUS
    <2>2. Place((j - 1) + 1) = B * P /\ P \in Nat \ {0} /\ Q \in Nat \ {0}
      BY <2>1, PlaceFacts
    <2>3. B \in Nat \ {0}
      BY PowFacts, ClassAssumption DEF Classes
    <2> QED
      BY <2>1, <2>2, <2>3
  <1>3. \A i \in 0 .. n : s[i] \in Nat /\ s[i] < Place(i)
    BY <1>1, PartialBound
  <1>4. \A i \in 1 .. n : s[i] = s[i - 1] + bytes[i] * Place(i - 1) /\ bytes[i] \in 0 .. B - 1
    BY <1>1 DEF Makes, Byte
  <1> HIDE DEF P, Q
  <1>5. 0 \in S
    OBVIOUS
  <1>6. ASSUME NEW m \in 1 .. n, m - 1 \in S  PROVE m \in S
    <2>1. CASE m < j
      BY <2>1
    <2>2. CASE m = j
      <3>1. s[j] = s[j] + 0 * Q /\ Place(j) = 1 * Q
        BY <1>2, <1>3 DEF Q
      <3> QED
        BY <2>2, <3>1
    <2>3. CASE m > j
      <3>1. PICK x, y \in Nat : s[m - 1] = s[j] + x * Q /\ Place(m - 1) = y * Q
        BY <1>6, <2>3
      <3> DEFINE b == bytes[m]
                 u == x + b * y
                 v == B * y
                 R == Place(m - 1)
      <3>2. b \in Nat /\ s[m] = s[m - 1] + b * R
        BY <1>2, <1>4
      <3>3. Place(m) = B * R
        <4>1. m - 1 \in Nat /\ (m - 1) + 1 = m
          OBVIOUS
        <4> QED
          BY <4>1, PlaceFacts
      <3>4. s[j] \in Nat /\ R = y * Q /\ s[m - 1] = s[j] + x * Q
        BY <1>3, <3>1
      <3> HIDE DEF b, R
      <3>5. u \in Nat /\ v \in Nat
        BY <1>2, <3>2, SMT
      <3>6. b * (y * Q) = (b * y) * Q /\ B * (y * Q) = (B * y) * Q
        BY <1>2, <3>2, SMT
      <3>7. u * Q = x * Q + (b * y) * Q
        BY <1>2, <3>2, SMT
      <3>8. Place(m) = v * Q
        BY <3>3, <3>4, <3>6
      <3>9. s[m] = s[j] + u * Q
        <4> DEFINE xQ == x * Q
                   bQ == (b * y) * Q
                   uQ == u * Q
        <4>1. xQ \in Nat /\ bQ \in Nat
          BY <1>2, <3>2, SMT
        <4>2. s[m] = (s[j] + xQ) + bQ /\ uQ = xQ + bQ
          BY <3>2, <3>4, <3>6, <3>7
        <4> HIDE DEF xQ, bQ, uQ
        <4>3. s[m] = s[j] + uQ
          BY <3>4, <4>1, <4>2
        <4> QED
          BY <4>3 DEF uQ
      <3> HIDE DEF u, v
      <3> QED
        BY <3>5, <3>8, <3>9
    <2> QED
      BY <2>1, <2>2, <2>3
  <1>7. n \in S
    <2> HIDE DEF S
    <2>1. S \in SUBSET (0 .. n)
      BY DEF S
    <2>2. S = 0 .. n
      BY <1>5, <1>6, <2>1, UpTo
    <2> QED
      BY <2>2
  <1>8. PICK x, y \in Nat : s[n] = s[j] + x * Q /\ Place(n) = y * Q
    BY <1>7
  <1> DEFINE b == bytes[j]
             r == s[j - 1]
             k == b + x * B
             w == s[n]
  <1>9. b \in 0 .. B - 1 /\ s[j] = r + b * P
    BY <1>4 DEF P
  <1>10. r \in 0 .. P - 1 /\ w \in Nat
    <2>1. j - 1 \in 0 .. n /\ n \in 0 .. n
      OBVIOUS
    <2> QED
      BY <1>2, <1>3, <2>1 DEF P
  <1>11. k \in Int /\ w = k * P + r
    <2> HIDE DEF b, r, w, B
    <2>1. w = (r + b * P) + x * (B * P)
      BY <1>2, <1>8, <1>9 DEF w
    <2>2. (b + x * B) * P = b * P + x * (B * P)
      BY <1>2, <1>9, SMT
    <2>3. b * P \in Int /\ x * (B * P) \in Int /\ x * B \in Int
      BY <1>2, <1>9, SMT
    <2>4. w = ((b + x * B) * P) + r
      BY <1>10, <2>1, <2>2, <2>3
    <2>5. k \in Int
      BY <1>2, <1>9, <2>3
    <2> QED
      BY <2>4, <2>5
  <1> HIDE DEF b, r, w
  <1>12. w \div P = k
    <2> HIDE DEF k
    <2>1. w \in Int
      BY <1>10
    <2> QED
      BY <1>2, <1>10, <1>11, <2>1, DivUnique
  <1>13. k % B = b
    <2>1. k = x * B + b /\ x \in Int
      BY <1>2, <1>9, SMT
    <2> HIDE DEF k, B
    <2> QED
      BY <1>2, <1>9, <1>11, <2>1, ModUnique
  <1>14. ByteOf(w, j - 1) = b
    BY <1>12, <1>13 DEF ByteOf, P
  <1> QED
    BY <1>1, <1>14 DEF w, b
\* A payload read as elements and written again is the same payload.
LEMMA EncodedDecoded ==
  ASSUME NEW size \in Sizes, NEW n \in Nat, NEW bytes \in Seq(Byte), Len(bytes) = n * Bytes(size)
  PROVE  LET data == Decoded(size, bytes)
             e    == Bytes(size)
         IN  /\ Len(data) = n /\ DOMAIN data = 1 .. n
             /\ \A i \in 1 .. n : data[i] \in Nat /\ data[i] < Pow(Abs(size))
             /\ \A b \in 1 .. n * e : ByteOf(data[((b - 1) \div e) + 1], (b - 1) % e) = bytes[b]
  <1> DEFINE e == Bytes(size)
             data == Decoded(size, bytes)
  <1>1. e \in Nat \ {0}
    BY SizeFacts
  <1>2. Len(bytes) \div e = n
    <2> DEFINE v == n * e
               r == 0
    <2>1. v \in Int /\ r \in 0 .. e - 1 /\ v = n * e + r /\ Len(bytes) = v
      BY <1>1, SMT
    <2> HIDE DEF v, r, e
    <2>2. v \div e = n
      BY <1>1, <2>1, DivUnique
    <2> QED
      BY <2>1, <2>2
  <1>3. /\ data \in Seq(Word) /\ Len(data) = n
        /\ \A i \in DOMAIN data : data[i] < Pow(Abs(size))
    BY <1>2, DecodedType
  <1>4. data = [i \in 1 .. n |-> WordOf(SubSeq(bytes, (i - 1) * e + 1, i * e))]
    BY <1>2 DEF Decoded
  <1>l. Len(bytes) = n * e
    OBVIOUS
  <1>b. bytes \in Seq(Byte)
    OBVIOUS
  <1> HIDE DEF e, data
  <1>5. DOMAIN data = 1 .. n /\ \A i \in 1 .. n : data[i] \in Nat /\ data[i] < Pow(Abs(size))
    <2>1. DOMAIN data = 1 .. n
      BY <1>3
    <2>2. \A i \in 1 .. n : data[i] \in Word
      BY <1>3
    <2> QED
      BY <1>3, <2>1, <2>2, Conversions
  <1>6. ASSUME NEW b \in 1 .. n * e
        PROVE  ByteOf(data[((b - 1) \div e) + 1], (b - 1) % e) = bytes[b]
    <2> DEFINE i == ((b - 1) \div e) + 1
               j == ((b - 1) % e) + 1
               m == (i - 1) * e + 1
               l == i * e
               part == SubSeq(bytes, m, l)
    <2>1. i \in 1 .. n /\ (b - 1) % e \in 0 .. e - 1
      BY <1>1, <1>6, ElementOfByte
    <2>2. b - 1 = (((b - 1) \div e) * e) + ((b - 1) % e)
      <3> DEFINE v == b - 1
      <3>1. v \in Int
        <4>1. n * e \in Int
          BY <1>1, SMT
        <4> QED
          BY <4>1
      <3> HIDE DEF v
      <3>2. v = ((v \div e) * e) + (v % e)
        BY <1>1, <3>1, DivMod
      <3> QED
        BY <3>2 DEF v
    <2>3. j \in 1 .. e /\ (b - 1) % e = j - 1
      BY <1>1, <2>1
    <2>4. b - 1 = ((i - 1) * e) + (j - 1)
      <3>1. i - 1 = (b - 1) \div e
        <4> DEFINE v == (b - 1) \div e
        <4>1. v + 1 \in Int /\ v \in Int
          <5> DEFINE w == b - 1
          <5>1. w \in Int
            <6>1. n * e \in Int
              BY <1>1, SMT
            <6> QED
              BY <6>1
          <5> HIDE DEF w
          <5>2. w \div e \in Int
            BY <1>1, <5>1, DivMod
          <5> QED
            BY <5>2 DEF w
        <4> HIDE DEF v
        <4>2. (v + 1) - 1 = v
          BY <4>1
        <4> QED
          BY <4>2 DEF v
      <3> HIDE DEF i, j
      <3> QED
        BY <2>2, <2>3, <3>1
    <2> HIDE DEF i, j
    <2>5. m \in Nat \ {0} /\ l \in Nat /\ l = m + e - 1 /\ l <= n * e /\ n * e \in Nat
      <3>1. 1 \in 1 .. e
        BY <1>1
      <3>2. (i - 1) * e \in Nat /\ i * e \in Nat /\ i * e = (i - 1) * e + e /\ i * e <= n * e
        BY <1>1, <2>1, <3>1, PlaceOfByte
      <3>3. n * e \in Nat
        BY <1>1, SMT
      <3> QED
        BY <1>1, <3>2, <3>3
    <2>6. m + j - 1 = b
      <3> DEFINE k == (i - 1) * e
      <3>1. k \in Nat
        BY <1>1, <2>1, SMT
      <3>2. b - 1 = k + (j - 1) /\ m = k + 1
        BY <2>4
      <3>3. b \in Int
        BY <2>5
      <3> HIDE DEF k, m
      <3> QED
        BY <2>3, <3>1, <3>2, <3>3
    <2> HIDE DEF m, l
    <2>7. part \in [1 .. e -> Byte] /\ \A q \in 1 .. e : part[q] = bytes[m + q - 1]
      <3>1. l <= Len(bytes)
        BY <1>l, <2>5
      <3>2. e \in Nat
        BY <1>1
      <3> QED
        BY ONLY <1>b, <2>5, <3>1, <3>2, Stretch DEF part
    <2>8. data[i] = WordOf(part)
      BY <1>4, <2>1 DEF part, m, l
    <2> HIDE DEF part
    <2>9. ByteOf(WordOf(part), j - 1) = part[j]
      <3>1. e \in Nat
        BY <1>1
      <3> QED
        BY <2>3, <2>7, <3>1, ByteBack
    <2>10. part[j] = bytes[b]
      BY <2>3, <2>6, <2>7
    <2> QED
      BY <2>3, <2>8, <2>9, <2>10 DEF i
  <1> QED
    BY <1>3, <1>5, <1>6 DEF e, data

\* A file of the portable format whose bytes can be counted, cut only if it is not altered.
PortFile(d) ==
  /\ Countable(Len(d.image.payload))
  /\ d.image.magic = "V33" => Len(d.image.crc) = 1
  /\ d.len = Whole(d.image) \/ Announced(d) = Len(d.image.payload)
PortReady(d) ==
  /\ ImageType(d.image) /\ d.there = TRUE /\ d.len \in Nat /\ d.image.magic = "V33"
  /\ PortFile(d)
Accepted(d) == HeaderGood(d.image) /\ LengthExact(d)

\* What a reader needs to know of the file, in numbers.
LEMMA PortNumbers ==
  ASSUME NEW d, PortReady(d)
  PROVE  /\ d.image.payload \in Seq(Byte) /\ Len(d.image.payload) \in Nat /\ d.image.count \in Nat
         /\ Whole(d.image) = HeaderItems + Len(d.image.payload) + Trailer
         /\ GoodSize(d.image.size) <=> d.image.size \in (-K .. K) \ {0}
         /\ GoodSize(d.image.size) => /\ d.image.size \in Sizes /\ Bytes(d.image.size) \in Nat \ {0}
                                      /\ Announced(d) \in Nat
         /\ HeaderItems = 3 /\ Trailer = 1
  <1>1. /\ d.image.payload \in Seq(Byte) /\ Len(d.image.payload) \in Nat /\ d.image.count \in Nat
        /\ d.image.size \in -K .. K
    BY DEF PortReady, ImageType
  <1>2. Whole(d.image) = HeaderItems + Len(d.image.payload) + Trailer
    BY DEF PortReady, PortFile, Whole, Trailer
  <1>3. GoodSize(d.image.size) <=> d.image.size \in (-K .. K) \ {0}
    BY <1>1, SizeFacts DEF GoodSize, Sizes
  <1>4. ASSUME GoodSize(d.image.size)
        PROVE  /\ d.image.size \in Sizes /\ Bytes(d.image.size) \in Nat \ {0}
               /\ Announced(d) \in Nat
    <2>1. d.image.size \in Sizes
      BY <1>3, <1>4 DEF Sizes
    <2>2. Bytes(d.image.size) \in Nat \ {0}
      BY <2>1, SizeFacts
    <2> DEFINE n == d.image.count
               e == Bytes(d.image.size)
    <2>3. n \in Nat /\ e \in Nat \ {0} /\ Announced(d) = n * e
      BY <1>1, <2>2 DEF Announced
    <2> HIDE DEF n, e
    <2>4. n * e \in Nat
      BY <2>3, SMT
    <2> QED
      BY <2>1, <2>2, <2>3, <2>4
  <1> QED
    BY <1>1, <1>2, <1>3, <1>4 DEF HeaderItems, Trailer

\* The ports and the library ask the same of a header and of the length.
LEMMA SameAcceptance ==
  ASSUME NEW d, PortReady(d)
  PROVE  /\ Accepted(d) <=> Header(d) /\ d.len = HeaderItems + Announced(d) + Trailer
         /\ Accepted(d) => /\ Announced(d) = Len(d.image.payload) /\ d.len = Whole(d.image)
                           /\ d.image.size \in Sizes /\ ~(d.len < HeaderItems)
                           /\ d.image.count <= MaxSafeInteger
  <1> DEFINE im == d.image
             a == Announced(d)
             l == Len(im.payload)
  <1>1. /\ l \in Nat /\ im.count \in Nat /\ Whole(im) = HeaderItems + l + Trailer
        /\ GoodSize(im.size) <=> im.size \in (-K .. K) \ {0}
        /\ GoodSize(im.size) => im.size \in Sizes /\ Bytes(im.size) \in Nat \ {0} /\ a \in Nat
        /\ HeaderItems = 3 /\ Trailer = 1 /\ d.len \in Nat /\ d.there = TRUE /\ im.magic = "V33"
    BY PortNumbers DEF PortReady
  <1>2. a = Declared(im) /\ a = im.count * Bytes(im.size)
    BY DEF Announced, Declared
  <1>3. /\ ImageType(im) /\ l <= Memory /\ l <= MaxSafeInteger
        /\ d.len = Whole(im) \/ a = l
    BY DEF PortReady, ImageType, PortFile, Countable
  <1>4. ASSUME Accepted(d)
        PROVE  /\ Header(d) /\ d.len = HeaderItems + a + Trailer
               /\ a = l /\ d.len = Whole(im) /\ im.size \in Sizes /\ ~(d.len < HeaderItems)
               /\ im.count <= MaxSafeInteger
    <2>1. /\ HeaderGood(im) /\ LengthExact(d) /\ GoodSize(im.size) /\ d.len = Whole(im)
          /\ (im.size < 0) = ("SIGNED" \in im.flags)
      BY <1>4 DEF Accepted, HeaderGood, LengthExact
    <2>2. a = l
      BY <1>2, <1>3, <2>1, ExactAnnounced
    <2>3. d.len = HeaderItems + a + Trailer /\ d.len >= 4
      <3> HIDE DEF im, a, l
      <3> QED
        BY <1>1, <2>1, <2>2
    <2>4. Header(d)
      <3>1. d.there /\ d.len >= HeaderItems + Trailer
        BY <1>1, <2>3
      <3> QED
        BY <1>1, <2>1, <3>1 DEF Header, HeaderGood
    <2>5. im.count <= MaxSafeInteger
      <3> DEFINE n == im.count
                 e == Bytes(im.size)
      <3>1. n \in Nat /\ e \in Nat \ {0} /\ n * e = l
        BY <1>1, <1>2, <2>1, <2>2
      <3> HIDE DEF n, e, l
      <3>2. n <= n * e
        BY <3>1, SMT
      <3> QED
        BY <1>1, <1>3, <3>1, <3>2, PortAssumption DEF n
    <2> QED
      BY <1>1, <2>1, <2>2, <2>3, <2>4, <2>5
  <1>5. ASSUME Header(d), d.len = HeaderItems + a + Trailer
        PROVE  Accepted(d)
    <2>1. /\ GoodSize(im.size) /\ im.fmt = 1 /\ im.reserved = 0
          /\ (im.size < 0) = ("SIGNED" \in im.flags)
      BY <1>1, <1>5 DEF Header
    <2>2. a = l /\ d.len = Whole(im)
      <3>1. a \in Nat
        BY <1>1, <2>1
      <3> HIDE DEF im, a, l
      <3> QED
        BY <1>1, <1>3, <1>5, <3>1
    <2>3. im.count <= SizeMax \div Bytes(im.size) /\ SizeT(im.count * Bytes(im.size)) = l
      <3> DEFINE n == im.count
                 e == Bytes(im.size)
      <3>1. n \in Nat /\ e \in Nat \ {0} /\ n * e = l
        BY <1>1, <1>2, <2>1, <2>2
      <3> HIDE DEF n, e, l
      <3>2. n * e <= Memory
        BY <1>3, <3>1 DEF l
      <3>3. n <= SizeMax \div e /\ SizeT(n * e) = n * e
        BY <3>1, <3>2, CountedExactly
      <3> QED
        BY <3>1, <3>3 DEF n, e
    <2> QED
      BY <2>1, <2>2, <2>3 DEF Accepted, HeaderGood, LengthExact, CountFits, PayloadBytes
  <1> QED
    BY <1>4, <1>5

\* The elements Go counts are those announced, if the length is.
LEMMA GoCounts ==
  ASSUME NEW d, PortReady(d), Header(d)
  PROVE  GoCount(d) <=> d.len = HeaderItems + Announced(d) + Trailer
  <1> DEFINE e == Bytes(d.image.size)
             m == d.image.count
             n == d.len - HeaderItems - Trailer
             q == n \div e
             z == n % e
  <1>1. /\ e \in Nat \ {0} /\ m \in Nat /\ HeaderItems = 3 /\ Trailer = 1 /\ d.len \in Nat
        /\ Announced(d) = m * e
    <2>1. d.image.size \in (-K .. K) \ {0}
      BY DEF Header
    <2> QED
      BY <2>1, PortNumbers DEF PortReady, Announced
  <1>2. n \in Int /\ (d.len = HeaderItems + (m * e) + Trailer <=> n = m * e)
    <2> DEFINE x == m * e
    <2>1. x \in Int
      BY <1>1, SMT
    <2> HIDE DEF x
    <2>2. n \in Int /\ (d.len = HeaderItems + x + Trailer <=> n = x)
      BY <1>1, <2>1
    <2> QED
      BY <2>2 DEF x
  <1>3. GoCount(d) <=> z = 0 /\ q = m
    BY DEF GoCount
  <1> HIDE DEF e, m, n
  <1>4. q \in Int /\ n = (q * e) + z /\ z \in 0 .. e - 1
    BY <1>1, <1>2, DivMod
  <1>5. ASSUME n = m * e  PROVE z = 0 /\ q = m
    <2> DEFINE x == 0
    <2>1. n = m * e + x /\ x \in 0 .. e - 1 /\ m \in Int
      BY <1>1, <1>2, <1>5
    <2> HIDE DEF x
    <2>2. z = x /\ q = m
      BY <1>1, <1>2, <2>1, ModUnique, DivUnique
    <2> QED
      BY <2>2 DEF x
  <1>6. ASSUME z = 0, q = m  PROVE n = m * e
    <2> HIDE DEF q, z
    <2>1. n = (m * e) + 0 /\ m * e \in Int
      BY <1>1, <1>4, <1>6, SMT
    <2> QED
      BY <2>1
  <1> QED
    BY <1>1, <1>2, <1>3, <1>5, <1>6

\* Of a file whose length is right the ports compare the checksum the library compares.
LEMMA SameChecksum ==
  ASSUME NEW d, PortReady(d), Accepted(d)
  PROVE  CrcMatches(d, Announced(d)) = CrcGood(d.image)
  <1> DEFINE s == d.image.payload
             n == Announced(d)
  <1>1. n = Len(s) /\ d.len = Whole(d.image) /\ s \in Seq(Byte) /\ Len(s) \in Nat /\ d.len \in Nat
    BY SameAcceptance, PortNumbers DEF PortReady
  <1>2. d.len >= Whole(d.image)
    <2>1. Whole(d.image) = d.len
      BY <1>1
    <2> QED
      BY <1>1, <2>1
  <1>3. CrcGood(d.image) \in BOOLEAN
    BY DEF CrcGood
  <1> QED
    BY <1>1, <1>2, <1>3 DEF CrcMatches

\* The mapping reader accepts what the ports do.
LEMMA PortMap ==
  ASSUME NEW d, PortReady(d), NEW verify \in BOOLEAN
  PROVE  /\ MapAccepts(d, verify) <=> (Accepted(d) /\ (verify => CrcGood(d.image)))
         /\ MapAccepts(d, verify) => PayloadBytes(d.image) = Len(d.image.payload)
  <1> DEFINE im == d.image
             n == PayloadBytes(im)
             l == Len(im.payload)
             w == Whole(im)
             v == HeaderItems + n + Trailer
  <1>1. /\ ImageType(im) /\ d.len \in Nat /\ im.magic = "V33" /\ l \in Nat /\ l <= Memory
        /\ w = HeaderItems + l + Trailer /\ HeaderItems = 3 /\ Trailer = 1 /\ d.there
        /\ d.len = w \/ Announced(d) = l
    BY PortNumbers DEF PortReady, PortFile, ImageType
  <1>2. Len(im.crc) = Trailer
    BY <1>1 DEF PortReady, PortFile
  <1>3. /\ w \in Nat /\ SizeT(w) = w /\ HeaderItems + Trailer <= w
        /\ w <= HeaderItems + Memory + Trailer
    BY <1>1, <1>2, LengthWithChecksum
  <1>4. ASSUME MapAccepts(d, verify)
        PROVE  n = l /\ Accepted(d) /\ (verify => CrcGood(im))
    <2>1. /\ HeaderGood(im) /\ CountFits(im) /\ (verify => CrcMatches(d, n)) /\ GoodSize(im.size)
      BY <1>4 DEF MapAccepts, HeaderGood
    <2>2. n \in Nat /\ d.len = v
      <3>1. im.count * Bytes(im.size) \in Nat
        BY <2>1, PortNumbers DEF Announced
      <3> QED
        BY <1>1, <1>4, <3>1, MapLength
    <2>3. n = l
      <3>1. CASE d.len = w
        <4> HIDE DEF n, l, w
        <4> QED
          BY <1>1, <2>2, <3>1
      <3>2. CASE Announced(d) = l
        BY <1>1, <2>1, <3>2, DeclaredCounted DEF Announced, Declared
      <3> QED
        BY <1>1, <3>1, <3>2
    <2>4. d.len = w
      <3> HIDE DEF n, l, w
      <3> QED
        BY <1>1, <2>2, <2>3
    <2>5. Accepted(d)
      BY <2>1, <2>3, <2>4 DEF Accepted, LengthExact
    <2> QED
      BY <2>1, <2>3, <2>5 DEF CrcMatches
  <1>5. ASSUME Accepted(d), verify => CrcGood(im)
        PROVE  MapAccepts(d, verify)
    <2>1. HeaderGood(im) /\ CountFits(im) /\ n = l /\ d.len = w
      BY <1>5 DEF Accepted, LengthExact
    <2>2. v = w
      BY <1>1, <2>1
    <2>3. /\ SizeT(v) = d.len /\ d.len >= HeaderItems + Trailer
          /\ d.len <= HeaderItems + Memory + Trailer /\ d.len >= w
      <3> HIDE DEF v, w
      <3> QED
        BY <1>1, <1>3, <2>1, <2>2
    <2>4. verify => CrcMatches(d, n)
      BY <1>5, <2>1, <2>3 DEF CrcMatches
    <2> HIDE DEF v, w, l, n
    <2> QED
      BY <1>1, <2>1, <2>3, <2>4 DEF MapAccepts, v, n
  <1> QED
    BY <1>4, <1>5

\* Accepted, with or without a look at the checksum, and read, or rejected.
PortRead(d, verify) ==
  IF Accepted(d) /\ (verify => CrcGood(d.image)) THEN Column(d, Announced(d)) ELSE Rejected

\* The three readers of the ports are this one.
LEMMA PortsReadAlike ==
  ASSUME NEW d, PortReady(d), NEW verify \in BOOLEAN
  PROVE  /\ fromS2RBytes(d, verify) = PortRead(d, verify)
         /\ from_bytes(d, verify) = PortRead(d, verify)
         /\ verify => GoLoad(d) = PortRead(d, verify)
  <1> DEFINE n == Announced(d)
             col == Column(d, n)
             exact == d.len = HeaderItems + n + Trailer
  <1>1. Accepted(d) <=> Header(d) /\ exact
    BY SameAcceptance
  <1>2. Accepted(d) => CrcMatches(d, n) = CrcGood(d.image) /\ d.image.count <= MaxSafeInteger
    BY SameAcceptance, SameChecksum
  <1>3. Header(d) => (GoCount(d) <=> exact)
    BY GoCounts
  <1>4. d.image.count \in Nat /\ MaxSafeInteger \in Nat /\ HeaderItems = 3 /\ Trailer = 1 /\ d.len \in Nat
    BY PortNumbers, PortAssumption DEF PortReady
  <1>5. FromBytes(d, verify) = IF ~Header(d) \/ ~exact THEN Rejected
                               ELSE IF verify => CrcMatches(d, n) THEN col ELSE Rejected
    BY DEF FromBytes
  <1>6. fromS2RBytes(d, verify) = IF Header(d) /\ d.image.count > MaxSafeInteger THEN Rejected ELSE FromBytes(d, verify)
    BY DEF fromS2RBytes
  <1>7. Accepted(d) => n \in Nat
    <2>1. Accepted(d) => n = Len(d.image.payload)
      BY SameAcceptance
    <2> QED
      BY <2>1, PortNumbers
  <1>8. GoLoad(d) = IF ~Header(d) \/ ~GoCount(d) THEN Rejected
                    ELSE IF CrcMatches(d, d.len - HeaderItems - Trailer)
                    THEN Column(d, d.len - HeaderItems - Trailer) ELSE Rejected
    BY DEF GoLoad
  <1>9. Accepted(d) => d.len - HeaderItems - Trailer = n
    BY <1>1, <1>4, <1>7
  <1>10. FromBytes(d, verify) = PortRead(d, verify)
    BY <1>1, <1>2, <1>5 DEF PortRead
  <1>11. fromS2RBytes(d, verify) = PortRead(d, verify)
    <2>1. CASE Accepted(d)
      <3>1. ~(d.image.count > MaxSafeInteger)
        BY <1>2, <1>4, <2>1
      <3> QED
        BY <1>6, <1>10, <3>1
    <2>2. CASE ~Accepted(d)
      <3>1. PortRead(d, verify) = Rejected
        BY <2>2 DEF PortRead
      <3> QED
        BY <1>6, <1>10, <3>1
    <2> QED
      BY <2>1, <2>2
  <1>12. verify => GoLoad(d) = PortRead(d, verify)
    <2> SUFFICES ASSUME verify  PROVE GoLoad(d) = PortRead(d, verify)
      OBVIOUS
    <2>1. CASE Accepted(d)
      <3>1. GoLoad(d) = IF CrcMatches(d, n) THEN Column(d, n) ELSE Rejected
        <4>1. Header(d) /\ GoCount(d) /\ d.len - HeaderItems - Trailer = n
          BY <1>1, <1>3, <1>9, <2>1
        <4> QED
          BY <1>8, <4>1
      <3> QED
        BY <1>2, <2>1, <3>1 DEF PortRead
    <2>2. CASE ~Accepted(d)
      <3>1. PortRead(d, verify) = Rejected
        BY <2>2 DEF PortRead
      <3>2. ~Header(d) \/ ~GoCount(d)
        BY <1>1, <1>3, <2>2
      <3>3. GoLoad(d) = Rejected
        BY <1>8, <3>2
      <3> QED
        BY <3>1, <3>3
    <2> QED
      BY <2>1, <2>2
  <1> QED
    BY <1>10, <1>11, <1>12 DEF from_bytes

\* The column of a port is the one the library reads.
LEMMA ColumnAsRead ==
  ASSUME NEW d, PortReady(d), Accepted(d), NEW q,
         q.data = Decoded(d.image.size, d.image.payload), q.size = d.image.size,
         IsSigned(q) = (d.image.size < 0)
  PROVE  LET p == Column(d, Announced(d)) IN
         p.ok = TRUE /\ p.size = q.size /\ p.values = Values(q)
  <1> DEFINE size == d.image.size
             s == d.image.payload
             n == Announced(d)
             raw == Decoded(size, Found(d, n))
             vs == [i \in DOMAIN raw |-> IF size < 0 THEN AsSigned(-size, raw[i]) ELSE raw[i]]
             p == Column(d, n)
  <1>1. n = Len(s) /\ s \in Seq(Byte) /\ Len(s) \in Nat
    BY SameAcceptance, PortNumbers
  <1>2. Found(d, n) = s
    BY <1>1, FoundIs
  <1>3. raw = q.data
    BY <1>2
  <1>4. p = [ok |-> TRUE, size |-> size, values |-> vs]
    BY DEF Column
  <1>5. vs = Values(q)
    <2> HIDE DEF raw, size
    <2>1. \A i \in DOMAIN raw : Value(q, i) = IF size < 0 THEN AsSigned(-size, raw[i]) ELSE raw[i]
      BY <1>3 DEF Value, Get, GetSigned, size
    <2> QED
      BY <1>3, <2>1 DEF Values
  <1> HIDE DEF vs, p, n
  <1>6. p.ok = TRUE /\ p.size = size /\ p.values = vs
    BY <1>4
  <1> QED
    BY <1>5, <1>6 DEF p, n

\* A port's answer and the library's: a refusal by both, or one column.
SameAnswer(p, r) == p.ok = r.ret /\ (p.ok => p.size = r.pool.size /\ p.values = Values(r.pool))

\* On a file the ports can hold, they answer what a careful reader of the library does.
LEMMA AlikeRead ==
  ASSUME NEW d, PortReady(d), NEW verify \in BOOLEAN, NEW r,
         \/ r = s2r_map_open(0, d, verify)
         \/ verify = TRUE /\ r = s2r_load_portable(0, d, TRUE)
  PROVE  SameAnswer(PortRead(d, verify), r) /\ r.ret = (Accepted(d) /\ (verify => CrcGood(d.image)))
  <1> DEFINE acc == Accepted(d) /\ (verify => CrcGood(d.image))
             p == PortRead(d, verify)
  <1>1. ImageType(d.image) /\ d.there = TRUE /\ d.len \in Nat /\ d.image.magic = "V33"
    BY DEF PortReady
  <1>2. acc \in BOOLEAN
    OBVIOUS
  <1>3. MapAccepts(d, verify) = acc
    <2>1. MapAccepts(d, verify) \in BOOLEAN
      BY DEF MapAccepts
    <2>2. MapAccepts(d, verify) <=> acc
      BY PortMap
    <2> HIDE DEF acc
    <2> QED
      BY <1>2, <2>1, <2>2
  <1>4. r.ret = acc
    <2>1. CASE r = s2r_map_open(0, d, verify)
      BY <1>1, <1>3, <2>1, MapRet
    <2>2. CASE verify = TRUE /\ r = s2r_load_portable(0, d, TRUE)
      BY <1>1, <1>3, <2>2, PortableAccepts
    <2> QED
      BY <2>1, <2>2
  <1>5. ASSUME acc
        PROVE  /\ r.pool.data = Decoded(d.image.size, d.image.payload) /\ r.pool.size = d.image.size
               /\ IsSigned(r.pool) = (d.image.size < 0)
    <2>1. CASE r = s2r_map_open(0, d, verify)
      <3>1. \/ r = Refused(0) /\ ~MapAccepts(d, verify)
            \/ r.ret = TRUE /\ MapAccepts(d, verify) /\ Maps(d, r.pool)
        BY <1>1, <2>1, MapEffect
      <3>2. Maps(d, r.pool) /\ MapAccepts(d, verify)
        BY <1>3, <1>5, <3>1
      <3>3. r.pool.data = Decoded(d.image.size, d.image.payload)
        <4>1. PayloadBytes(d.image) = Len(d.image.payload) /\ d.image.payload \in Seq(Byte)
          BY <1>1, <3>2, PortMap DEF ImageType
        <4> QED
          BY <3>2, <4>1, MapsPayload
      <3> QED
        BY <3>2, <3>3 DEF Maps, Honest, Agrees, IsSigned
    <2>2. CASE verify = TRUE /\ r = s2r_load_portable(0, d, TRUE)
      <3> DEFINE fl == FormatFlags(d.image.flags)
                 ok == TRUE
      <3>1. r = s2r_load_portable(0, d, ok) /\ ok \in BOOLEAN
        BY <2>2
      <3> HIDE DEF fl, ok
      <3>2. r = Refused(0) \/ (r.ret = TRUE /\ Fills(d.image, fl, r.pool))
        BY <1>1, <3>1, LoadPortableEffect DEF fl
      <3>3. Fills(d.image, fl, r.pool)
        BY <1>4, <1>5, <3>2, RefusedIs
      <3>4. Declared(d.image) = Len(d.image.payload) /\ d.image.payload \in Seq(Byte) /\ Len(d.image.payload) \in Nat
        BY <1>5, SameAcceptance, PortNumbers DEF Announced, Declared
      <3>5. SubSeq(d.image.payload, 1, Declared(d.image)) = d.image.payload
        <4> DEFINE s == d.image.payload
                   n == Declared(d.image)
        <4> HIDE DEF s, n
        <4>1. n <= Len(s) /\ n \in Nat /\ n = Len(s) /\ s \in Seq(Byte)
          BY <3>4 DEF s, n
        <4>2. SubSeq(s, 1, n) = s
          BY <4>1, Prefix
        <4> QED
          BY <4>2 DEF s, n
      <3>6. (d.image.size < 0) = ("SIGNED" \in d.image.flags)
        BY <1>5 DEF Accepted, HeaderGood
      <3>7. r.pool.flags = fl /\ r.pool.size = d.image.size
        BY <3>3 DEF Fills
      <3>8. IsSigned(r.pool) = (d.image.size < 0)
        BY <3>6, <3>7 DEF IsSigned, fl, FormatFlags
      <3>9. r.pool.data = Decoded(d.image.size, d.image.payload)
        BY <3>3, <3>5 DEF Fills
      <3> QED
        BY <3>7, <3>8, <3>9
    <2> QED
      BY <2>1, <2>2
  <1>6. CASE acc
    <2>1. p = Column(d, Announced(d))
      BY <1>6 DEF PortRead
    <2> HIDE DEF p
    <2>2. p.ok = TRUE /\ p.size = r.pool.size /\ p.values = Values(r.pool)
      BY <1>5, <1>6, <2>1, ColumnAsRead
    <2> QED
      BY <1>4, <1>6, <2>2 DEF SameAnswer, p
  <1>7. CASE ~acc
    <2>1. p = Rejected
      BY <1>7 DEF PortRead
    <2>2. p.ok = FALSE
      BY <2>1 DEF Rejected
    <2> HIDE DEF p, acc
    <2>3. r.ret = FALSE
      BY <1>2, <1>4, <1>7
    <2> QED
      BY <1>4, <2>2, <2>3 DEF SameAnswer, p, acc
  <1> QED
    BY <1>6, <1>7, <1>4

\* A port writes the file it has read.
LEMMA WrittenBack ==
  ASSUME NEW d, PortReady(d), Accepted(d), CrcGood(d.image)
  PROVE  Serialized(Column(d, Announced(d))) = [d.image EXCEPT !.flags = FormatFlags(@)]
  <1> DEFINE im == d.image
             size == im.size
             s == im.payload
             e == Bytes(size)
             n == im.count
             raw == Decoded(size, Found(d, Announced(d)))
             vs == [i \in DOMAIN raw |-> IF size < 0 THEN AsSigned(-size, raw[i]) ELSE raw[i]]
             c == Column(d, Announced(d))
             payload == [b \in 1 .. Len(vs) * e |-> ByteOf(vs[((b - 1) \div e) + 1] % Pow(Abs(size)), (b - 1) % e)]
             sign == IF size < 0 THEN {"SIGNED"} ELSE {}
  <1>1. /\ size \in Sizes /\ s \in Seq(Byte) /\ Len(s) \in Nat /\ n \in Nat /\ e \in Nat \ {0}
        /\ Len(s) = n * e /\ Announced(d) = Len(s)
    BY SameAcceptance, PortNumbers, SizeFacts DEF Announced
  <1>2. Found(d, Announced(d)) = s
    <2> DEFINE a == Announced(d)
    <2>1. s \in Seq(Byte) /\ a = Len(s)
      BY <1>1 DEF PortReady, ImageType
    <2>2. Found(d, Len(s)) = s
      BY <2>1, FoundIs
    <2> HIDE DEF a, s
    <2> QED
      BY <2>1, <2>2 DEF a
  <1>3. raw = Decoded(size, s)
    BY <1>2
  <1>4. c = [ok |-> TRUE, size |-> size, values |-> vs]
    BY DEF Column
  <1>5. im.fmt = 1 /\ im.reserved = 0 /\ (size < 0) = ("SIGNED" \in im.flags) /\ im.crc = Crc(s)
    BY DEF Accepted, HeaderGood, CrcGood
  <1>6. ImageRecord(im) /\ im.magic = "V33"
    BY DEF PortReady, ImageType
  <1> HIDE DEF raw, vs, c
  <1>7. /\ Len(raw) = n /\ DOMAIN raw = 1 .. n
        /\ \A i \in 1 .. n : raw[i] \in Nat /\ raw[i] < Pow(Abs(size))
        /\ \A b \in 1 .. n * e : ByteOf(raw[((b - 1) \div e) + 1], (b - 1) % e) = s[b]
    <2>1. s \in Seq(Byte) /\ Len(s) = n * Bytes(size)
      BY <1>1
    <2> HIDE DEF size, s, n
    <2> QED
      BY <1>1, <1>3, <2>1, EncodedDecoded
  <1>8. c.size = size /\ c.values = vs
    BY <1>4
  <1>9. ASSUME NEW i \in 1 .. n  PROVE vs[i] % Pow(Abs(size)) = raw[i]
    <2>1. Abs(size) \in Classes /\ raw[i] \in Nat /\ raw[i] < Pow(Abs(size))
      BY <1>1, <1>7, SizeFacts
    <2>2. vs[i] = IF size < 0 THEN AsSigned(-size, raw[i]) ELSE raw[i]
      BY <1>7 DEF vs
    <2>3. size < 0 => Abs(size) = -size
      BY DEF Abs
    <2> HIDE DEF size
    <2>4. Raw(Abs(size), vs[i]) = raw[i]
      BY <2>1, <2>2, <2>3, RawSigned, RawSmall
    <2> QED
      BY <2>4 DEF Raw
  <1>10. DOMAIN vs = 1 .. n /\ Len(vs) = n
    <2>1. DOMAIN vs = 1 .. n
      BY <1>7 DEF vs
    <2>2. vs = [i \in 1 .. n |-> IF size < 0 THEN AsSigned(-size, raw[i]) ELSE raw[i]]
      BY <1>7 DEF vs
    <2> HIDE DEF n, size
    <2>3. Len(vs) = n
      BY <1>1, <2>2
    <2> QED
      BY <2>1, <2>3
  <1> HIDE DEF size, s, n, e
  <1>11. payload = s
    <2>1. s = [b \in 1 .. n * e |-> s[b]]
      <3> DEFINE l == n * e
      <3>1. l = Len(s)
        BY <1>1
      <3> HIDE DEF l
      <3>2. s = [b \in 1 .. l |-> s[b]]
        BY <1>1, <3>1
      <3> QED
        BY <3>2 DEF l
    <2>2. ASSUME NEW b \in 1 .. n * e
          PROVE  ByteOf(vs[((b - 1) \div e) + 1] % Pow(Abs(size)), (b - 1) % e) = s[b]
      <3> DEFINE i == ((b - 1) \div e) + 1
      <3>1. i \in 1 .. n
        BY <1>1, <2>2, ElementOfByte
      <3> HIDE DEF i
      <3>2. vs[i] % Pow(Abs(size)) = raw[i]
        BY <1>9, <3>1
      <3>3. ByteOf(raw[i], (b - 1) % e) = s[b]
        BY <1>7, <2>2 DEF i
      <3> QED
        BY <3>2, <3>3 DEF i
    <2>3. payload = [b \in 1 .. n * e |-> ByteOf(vs[((b - 1) \div e) + 1] % Pow(Abs(size)), (b - 1) % e)]
      BY <1>10
    <2> HIDE DEF payload
    <2> QED
      BY <2>1, <2>2, <2>3
  <1>12. sign = FormatFlags(im.flags)
    BY <1>5 DEF FormatFlags
  <1> HIDE DEF payload, sign
  <1>13. Serialized(c) = [magic |-> "V33", size |-> size, count |-> n, payload |-> s,
                          flags |-> sign, fmt |-> 1, reserved |-> 0, crc |-> Crc(s)]
    BY <1>8, <1>10, <1>11 DEF Serialized, payload, sign, e
  <1>14. [im EXCEPT !.flags = sign]
         = [magic |-> "V33", size |-> size, count |-> n, payload |-> s,
            flags |-> sign, fmt |-> 1, reserved |-> 0, crc |-> Crc(s)]
    <2>1. im = [magic |-> "V33", size |-> size, count |-> n, payload |-> s,
                flags |-> im.flags, fmt |-> 1, reserved |-> 0, crc |-> Crc(s)]
      BY <1>5, <1>6 DEF ImageRecord, size, n, s
    <2> DEFINE cr == Crc(s)
               v == "V33"
               one == 1
               zero == 0
               fl == im.flags
    <2> HIDE DEF cr, v, one, zero, fl
    <2>2. im = [magic |-> v, size |-> size, count |-> n, payload |-> s,
                flags |-> fl, fmt |-> one, reserved |-> zero, crc |-> cr]
      BY <2>1 DEF cr, v, one, zero, fl
    <2> HIDE DEF im
    <2>3. [im EXCEPT !.flags = sign]
          = [magic |-> v, size |-> size, count |-> n, payload |-> s,
             flags |-> sign, fmt |-> one, reserved |-> zero, crc |-> cr]
      BY <2>2
    <2> QED
      BY <2>3 DEF cr, v, one, zero
  <1> QED
    BY <1>12, <1>13, <1>14 DEF c

\* s2r_verify finds intact what the mapping reader does.
LEMMA VerifiedAlike ==
  ASSUME NEW d, PortReady(d)
  PROVE  s2r_verify(d) = (Accepted(d) /\ CrcGood(d.image))
  <1> DEFINE a == Announced(d)
             t == HeaderItems + (d.image.count * Bytes(d.image.size)) + Trailer
  <1>1. d.there = TRUE /\ d.len \in Nat /\ d.image.magic = "V33"
    BY DEF PortReady
  <1>2. /\ s2r_verify(d) \in BOOLEAN
        /\ MapAccepts(d, TRUE) => Accepted(d) /\ CrcGood(d.image)
        /\ s2r_verify(d) => MapAccepts(d, TRUE)
    <2> DEFINE yes == TRUE
    <2>1. yes \in BOOLEAN /\ yes
      OBVIOUS
    <2> HIDE DEF yes
    <2>2. MapAccepts(d, yes) => Accepted(d) /\ CrcGood(d.image)
      BY <2>1, PortMap
    <2> QED
      BY <2>2 DEF s2r_verify, MapAccepts, yes
  <1>3. ASSUME Accepted(d), CrcGood(d.image)  PROVE s2r_verify(d)
    <2>1. /\ a = Len(d.image.payload) /\ Len(d.image.payload) \in Nat /\ d.len = t
          /\ HeaderItems = 3 /\ Trailer = 1 /\ a = d.image.count * Bytes(d.image.size)
      BY <1>3, SameAcceptance, PortNumbers DEF Announced
    <2>2. HeaderItems + a + Trailer <= SizeMax
      BY <2>1 DEF PortReady, PortFile, Countable
    <2>3. t \in 0 .. SizeMax /\ d.len >= HeaderItems
      BY <2>1, <2>2
    <2>4. SizeT(t) = d.len
      <3> DEFINE l == SizeMax + 1
                 k == 0
      <3>1. t = k * l + t /\ l \in Nat \ {0} /\ t \in 0 .. l - 1 /\ k \in Int /\ t \in Int
        BY <2>3, MemoryAssumption
      <3> HIDE DEF l, k, t
      <3>2. t % l = t
        BY <3>1, ModUnique
      <3> QED
        BY <2>1, <3>2 DEF SizeT, l
    <2>5. GoodSize(d.image.size)
      BY <1>3 DEF Accepted, HeaderGood
    <2>6. MapAccepts(d, TRUE)
      <3> DEFINE yes == TRUE
      <3>1. yes \in BOOLEAN
        OBVIOUS
      <3> HIDE DEF yes
      <3>2. MapAccepts(d, yes)
        BY <1>3, <3>1, PortMap
      <3> QED
        BY <3>2 DEF yes
    <2> QED
      BY <1>1, <2>3, <2>4, <2>5, <2>6 DEF s2r_verify
  <1> QED
    BY <1>2, <1>3

\* The bytes of the column and of the files can be counted.
PortInv ==
  /\ owner # "none" => Countable(Count(pool) * Bytes(pool.size))
  /\ \A f \in Files : disk[f].there => PortFile(disk[f])

\* Fewer bytes can be counted if more can.
LEMMA CountableLess ==
  ASSUME NEW n \in Nat, Countable(n), NEW m \in Int, m <= n
  PROVE  Countable(m)
  BY PortAssumption, MemoryAssumption DEF Countable, HeaderItems, Trailer

\* The bytes of a pool in use.
LEMMA PoolBytes ==
  ASSUME NEW p, InUse(p)
  PROVE  /\ Count(p) \in Nat /\ p.size \in Sizes /\ Bytes(p.size) \in Nat \ {0}
         /\ Count(p) * Bytes(p.size) \in Nat
  <1>1. Count(p) \in Nat /\ p.size \in Sizes
    BY Fields DEF InUse, Sound, Sizes
  <1>2. Bytes(p.size) \in Nat \ {0}
    BY <1>1, SizeFacts
  <1> DEFINE n == Count(p)
             e == Bytes(p.size)
  <1> HIDE DEF n, e
  <1>3. n \in Nat /\ e \in Nat \ {0}
    BY <1>1, <1>2 DEF n, e
  <1>4. n * e \in Nat
    BY <1>3, SMT
  <1> QED
    BY <1>1, <1>2, <1>4 DEF n, e

\* A column just built.
LEMMA BuiltCountable ==
  ASSUME NEW a \in Arrays, NEW r, r.ret,
         r \in {FromArrayAuto(0, a, TRUE), FromArraySignedAuto(0, [i \in DOMAIN a |-> I64(a[i])], TRUE)}
  PROVE  Countable(Count(r.pool) * Bytes(r.pool.size))
  <1> DEFINE b == [i \in DOMAIN a |-> I64(a[i])]
             h == 0
             ok == TRUE
  <1>1. a \in Seq(Word) /\ h \in Int /\ ok \in BOOLEAN
    BY FileAssumption
  <1>2. b \in Seq(Int64)
    <2>1. \A i \in DOMAIN a : a[i] \in Word
      BY <1>1
    <2>2. \A i \in DOMAIN a : I64(a[i]) \in Int64
      BY <2>1, Conversions
    <2>3. DOMAIN a = 1 .. Len(a) /\ Len(a) \in Nat
      BY <1>1
    <2> QED
      BY <2>2, <2>3
  <1>3. DOMAIN b = DOMAIN a /\ DOMAIN a = 1 .. Len(a)
    BY <1>1
  <1>4. r = FromArrayAuto(h, a, ok) \/ r = FromArraySignedAuto(h, b, ok)
    OBVIOUS
  <1>5. InUse(r.pool)
    <2>1. PoolOK(r.pool, "pool")
      BY BuiltOK
    <2>2. "pool" # "none"
      OBVIOUS
    <2> QED
      BY <2>1, <2>2 DEF PoolOK, Truthful
  <1> HIDE DEF b, h, ok
  <1>6. DOMAIN r.pool.data = DOMAIN a
    <2>1. CASE r = FromArrayAuto(h, a, ok)
      <3>1. AutoBuilt(h, a, r)
        BY <1>1, <2>1, FromArrayAutoEffect
      <3>2. r.pool.data = a
        BY <3>1 DEF AutoBuilt
      <3> QED
        BY <3>2
    <2>2. CASE r = FromArraySignedAuto(h, b, ok)
      <3>1. Values(r.pool) = b
        BY <1>1, <1>2, <2>2, FromArraySignedAutoEffect
      <3>2. DOMAIN Values(r.pool) = DOMAIN r.pool.data
        BY DEF Values
      <3> QED
        BY <1>3, <3>1, <3>2
    <2> QED
      BY <1>4, <2>1, <2>2
  <1>7. Count(r.pool) = Len(a)
    <2>1. r.pool.data \in Seq(Word)
      BY <1>5, Fields DEF InUse, PoolType
    <2>2. DOMAIN r.pool.data = 1 .. Len(r.pool.data) /\ Len(r.pool.data) \in Nat /\ Len(a) \in Nat
      BY <1>1, <2>1
    <2> QED
      BY <1>3, <1>6, <2>2 DEF Count
  <1>8. r.pool.size \in Sizes /\ Bytes(r.pool.size) = ElemBytes[Abs(r.pool.size)] /\ Abs(r.pool.size) \in Classes
    BY <1>5, PoolBytes, SizeFacts DEF Bytes, Sizes
  <1> QED
    BY <1>7, <1>8, PortAssumption

\* s2r_demote makes no element wider.
LEMMA DemotedCountable ==
  ASSUME NEW p, InUse(p), Countable(Count(p) * Bytes(p.size)), NEW c \in Classes, NEW q,
         q = Demote(p, c, TRUE).pool
  PROVE  Countable(Count(q) * Bytes(q.size))
  <1> DEFINE ok == TRUE
             r == Demote(p, c, ok)
             n == Count(p)
             e == Bytes(p.size)
             m == Bytes(c)
  <1>1. c \in Sizes /\ ok \in BOOLEAN /\ Abs(c) = c
    BY ClassAssumption DEF Classes, Sizes, Abs
  <1>2. q = r.pool
    OBVIOUS
  <1> HIDE DEF ok
  <1>3. r.ret => Abs(c) < Abs(p.size)
    <2>1. r.ret => ~(Abs(c) >= Abs(p.size))
      BY DEF Demote, Result
    <2>2. Abs(c) \in Int /\ Abs(p.size) \in Int
      <3>1. p.size \in Sizes
        BY PoolBytes
      <3>2. Abs(p.size) \in Classes /\ Abs(c) \in Classes
        BY <1>1, <3>1, SizeFacts
      <3> QED
        BY <3>2 DEF Classes
    <2> QED
      BY <2>1, <2>2
  <1>r. r = Demote(p, c, ok)
    OBVIOUS
  <1> HIDE DEF r
  <1>4. \/ q = p /\ ~r.ret
        \/ r.ret /\ Refitted(p, q) /\ q.size = c
    <2>1. \/ r.pool = p /\ ~r.ret
          \/ r.ret /\ Refitted(p, r.pool) /\ r.pool.size = c
      BY <1>1, <1>r, DemoteEffect
    <2> QED
      BY ONLY <1>2, <2>1
  <1>5. CASE q = p
    BY <1>5
  <1>6. CASE r.ret /\ Refitted(p, q) /\ q.size = c
    <2>1. Count(q) = n /\ Abs(c) < Abs(p.size)
      BY <1>3, <1>6 DEF Refitted
    <2>2. n \in Nat /\ e \in Nat \ {0} /\ m \in Nat \ {0} /\ Abs(p.size) \in Classes /\ p.size \in Sizes
      BY <1>1, PoolBytes, SizeFacts
    <2>3. m <= e
      <3>1. m = ElemBytes[c] /\ e = ElemBytes[Abs(p.size)] /\ c <= Abs(p.size)
        BY <1>1, <2>1, <2>2 DEF Bytes, Sizes, Classes
      <3> HIDE DEF m, e
      <3> QED
        BY <2>2, <3>1, NarrowerBytes
    <2> HIDE DEF n, e, m
    <2>4. n * m <= n * e /\ n * m \in Int /\ n * e \in Nat
      BY <2>2, <2>3, SMT
    <2>5. Countable(n * e)
      BY DEF n, e
    <2>6. Countable(n * m)
      BY <2>4, <2>5, CountableLess
    <2> QED
      BY <1>6, <2>1, <2>6 DEF m
  <1> QED
    BY <1>4, <1>5, <1>6

\* Only the program's column changed.
LEMMA PoolPort ==
  ASSUME PortInv, UNCHANGED disk, owner' # "none" => Countable(Count(pool') * Bytes(pool'.size))
  PROVE  PortInv'
  BY DEF PortInv

\* A column filled or mapped from a file has no more bytes than its payload.
LEMMA LoadedCountable ==
  ASSUME NEW d, NEW img, img = d.image, ImageType(img), Countable(Len(img.payload)), NEW q,
         \/ \E flags : Fills(img, flags, q) /\ GoodSize(img.size) /\ Declared(img) <= Len(img.payload)
         \/ Maps(d, q) /\ PayloadBytes(img) = Len(img.payload)
  PROVE  Countable(Count(q) * Bytes(q.size))
  <1> DEFINE l == Len(img.payload)
             x == Count(q) * Bytes(q.size)
  <1>1. img.payload \in Seq(Byte) /\ l \in Nat
    BY DEF ImageType
  <1>2. InUse(q)
    BY DEF Fills, Maps, Honest
  <1>3. x \in Nat
    BY <1>2, PoolBytes
  <1>4. x <= l
    <2>1. CASE \E flags : Fills(img, flags, q) /\ Declared(img) <= Len(img.payload)
      BY <2>1 DEF Fills, Declared
    <2>2. CASE Maps(d, q) /\ PayloadBytes(img) = Len(img.payload)
      <3>1. q.data = Decoded(img.size, img.payload) /\ q.size = img.size
        BY <1>1, <2>2, MapsPayload DEF Maps
      <3>2. img.size \in Sizes
        BY <1>2, <3>1, PoolBytes
      <3>3. Len(Decoded(img.size, img.payload)) * Bytes(img.size) <= Len(img.payload)
        BY <1>1, <3>2, DecodedType
      <3> QED
        BY <3>1, <3>3 DEF Count
    <2> QED
      BY <2>1, <2>2
  <1> HIDE DEF l, x
  <1>5. Countable(l)
    BY DEF l
  <1>6. Countable(x)
    BY <1>1, <1>3, <1>4, <1>5, CountableLess
  <1> QED
    BY <1>6 DEF x

\* Each reader announces no more than there is.
LEMMA ReadsCountable ==
  ASSUME NEW d, d.there \in BOOLEAN, d.there => ImageType(d.image) /\ d.len \in Nat /\ PortFile(d),
         NEW b \in BOOLEAN, NEW r, r.ret,
         r \in {s2r_load(0, d, b), s2r_load_portable(0, d, b), s2r_map_open(0, d, b)}
  PROVE  Countable(Count(r.pool) * Bytes(r.pool.size))
  <1>1. r # Refused(0)
    BY RefusedIs
  <1>c. d.there => Countable(Len(d.image.payload))
    BY DEF PortFile
  <1>2. CASE r = s2r_load(0, d, b)
    <2>1. /\ Fills(d.image, d.image.flags, r.pool) /\ d.there
          /\ GoodSize(d.image.size) /\ HasPayload(d, Declared(d.image))
      BY <1>1, <1>2, LoadEffect
    <2>2. Declared(d.image) <= Len(d.image.payload)
      BY <2>1 DEF HasPayload
    <2> QED
      BY <1>c, <2>1, <2>2, LoadedCountable
  <1>3. CASE r = s2r_load_portable(0, d, b)
    <2>1. /\ Fills(d.image, FormatFlags(d.image.flags), r.pool) /\ d.there
          /\ \/ /\ d.image.magic = "V32"
                /\ GoodSize(d.image.size) /\ HasPayload(d, Declared(d.image))
             \/ d.image.magic = "V33" /\ HeaderGood(d.image) /\ LengthExact(d) /\ CrcGood(d.image)
      BY <1>1, <1>3, LoadPortableEffect
    <2>2. GoodSize(d.image.size) /\ Declared(d.image) <= Len(d.image.payload)
      <3>1. CASE HasPayload(d, Declared(d.image)) /\ GoodSize(d.image.size)
        BY <3>1 DEF HasPayload
      <3>2. CASE HeaderGood(d.image) /\ LengthExact(d)
        <4>1. ImageType(d.image) /\ GoodSize(d.image.size)
          BY <2>1, <3>2 DEF HeaderGood
        <4>2. Declared(d.image) = Len(d.image.payload) /\ Len(d.image.payload) \in Nat
          BY <3>2, <4>1, ExactAnnounced DEF ImageType
        <4> QED
          BY <4>1, <4>2
      <3> QED
        BY <2>1, <3>1, <3>2
    <2> QED
      BY <1>c, <2>1, <2>2, LoadedCountable
  <1>4. CASE r = s2r_map_open(0, d, b)
    <2>1. MapAccepts(d, b) /\ Maps(d, r.pool)
      BY <1>1, <1>4, MapEffect
    <2>2. d.there /\ d.image.magic = "V33"
      BY <2>1 DEF MapAccepts
    <2>3. PortReady(d)
      BY <2>2 DEF PortReady
    <2>4. PayloadBytes(d.image) = Len(d.image.payload)
      BY <2>1, <2>3, PortMap
    <2> QED
      BY <1>c, <2>1, <2>2, <2>4, LoadedCountable
  <1> QED
    BY <1>2, <1>3, <1>4

\* Load and its kind.
LEMMA LoadedPort ==
  ASSUME DiskInv, PortInv, NEW f \in Files, NEW b \in BOOLEAN,
         Load(f, b) \/ LoadPortable(f, b) \/ MapOpen(f, b)
  PROVE  PortInv'
  <1>1. owner = "none" /\ UNCHANGED disk
    BY DEF Load, LoadPortable, MapOpen, Loaded
  <1>2. pool.heap = 0
    BY <1>1, NothingHeld
  <1>3. PICK r, o : /\ r \in {s2r_load(0, disk[f], b), s2r_load_portable(0, disk[f], b), s2r_map_open(0, disk[f], b)}
                    /\ Loaded(r, o)
    BY <1>2 DEF Load, LoadPortable, MapOpen
  <1>4. pool' = r.pool /\ owner' = IF r.ret THEN o ELSE "none"
    BY <1>3 DEF Loaded
  <1>5. /\ disk[f].there \in BOOLEAN
        /\ disk[f].there => ImageType(disk[f].image) /\ disk[f].len \in Nat /\ PortFile(disk[f])
    BY FileTyped DEF PortInv
  <1>6. owner' # "none" => Countable(Count(pool') * Bytes(pool'.size))
    <2> SUFFICES ASSUME owner' # "none"  PROVE Countable(Count(r.pool) * Bytes(r.pool.size))
      BY <1>4
    <2>1. r.ret
      BY <1>4
    <2> QED
      BY <1>3, <1>5, <2>1, ReadsCountable
  <1> QED
    BY <1>1, <1>6, PoolPort

\* What the program does with its own column.
LEMMA OwnPort ==
  ASSUME DiskInv, PortInv, Build \/ MarkFacts \/ Demoted \/ Release \/ Crash \/ SaveEnds
  PROVE  PortInv'
  <1>1. CASE Build
    <2>1. pool.heap = 0
      BY <1>1 DEF DiskInv, Build, PoolOK, Zeroed
    <2>2. PICK a \in Arrays :
            \E r \in {FromArrayAuto(0, a, TRUE), FromArraySignedAuto(0, [i \in DOMAIN a |-> I64(a[i])], TRUE)} :
              r.ret /\ pool' = r.pool
      BY <1>1, <2>1 DEF Build
    <2>3. Countable(Count(pool') * Bytes(pool'.size))
      BY <2>2, BuiltCountable
    <2> QED
      BY <1>1, <2>3, PoolPort DEF Build
  <1>2. CASE MarkFacts
    <2>1. owner = "pool" /\ PoolOK(pool, "pool") /\ UNCHANGED disk
      BY <1>2 DEF DiskInv, MarkFacts, OnlyPool
    <2>2. InUse(pool) /\ Countable(Count(pool) * Bytes(pool.size))
      BY <2>1 DEF PoolOK, Truthful, PortInv
    <2>3. SameElements(pool, pool')
      <3>1. CASE pool' = MarkSorted(pool)
        BY <2>2, <3>1, MarkSortedEffect DEF Flagged, SameElements
      <3>2. CASE \E q \in Summarize(pool) : pool' = q
        <4>1. CASE pool' = pool
          BY <4>1 DEF SameElements
        <4>2. CASE \E mn, mx, sm : pool' = Recorded(pool, mn, mx, sm)
          <5>1. Flagged(pool, pool', "SUMMARY")
            BY <2>2, <4>2, RecordedEffect
          <5> QED
            BY <5>1 DEF Flagged
        <4> QED
          BY <3>2, <4>1, <4>2 DEF Summarize
      <3> QED
        BY <1>2, <3>1, <3>2 DEF MarkFacts, OnlyPool
    <2>4. Countable(Count(pool') * Bytes(pool'.size))
      BY <2>2, <2>3 DEF SameElements, Count
    <2> QED
      BY <2>1, <2>4, PoolPort
  <1>3. CASE Demoted
    <2>1. owner = "pool" /\ PoolOK(pool, "pool") /\ UNCHANGED disk
      BY <1>3 DEF DiskInv, Demoted, OnlyPool
    <2>2. InUse(pool) /\ Countable(Count(pool) * Bytes(pool.size))
      BY <2>1 DEF PoolOK, Truthful, PortInv
    <2>3. PICK c \in Classes : pool' = Demote(pool, c, TRUE).pool
      BY <1>3 DEF Demoted, OnlyPool
    <2>4. Countable(Count(pool') * Bytes(pool'.size))
      BY <2>2, <2>3, DemotedCountable
    <2> QED
      BY <2>1, <2>4, PoolPort
  <1>4. CASE Release \/ Crash
    BY <1>4, PoolPort DEF Release, Crash
  <1>5. CASE SaveEnds
    BY <1>5, PoolPort DEF SaveEnds, PortInv
  <1> QED
    BY <1>1, <1>2, <1>3, <1>4, <1>5

\* An item altered makes no file longer or shorter.
LEMMA AlteredLengths ==
  ASSUME NEW img, NEW a \in Altered(img), ImageType(img), img.crc = <<>> \/ Len(img.crc) = 1
  PROVE  /\ Len(a.payload) = Len(img.payload) /\ Len(a.crc) = Len(img.crc)
         /\ a.magic = "V33" => img.magic = "V33"
  <1>r. img = [magic |-> img.magic, size |-> img.size, count |-> img.count, payload |-> img.payload,
               flags |-> img.flags, fmt |-> img.fmt, reserved |-> img.reserved, crc |-> img.crc]
    BY DEF ImageType, ImageRecord
  <1>1. \/ \E v : a \in Changed(img, v) /\ a.payload = img.payload /\ a.crc = img.crc
                  /\ a.magic \in {img.magic, "unknown"}
        \/ \E i \in DOMAIN img.payload, v \in Byte : a = [img EXCEPT !.payload[i] = v]
        \/ img.crc # <<>> /\ a = [img EXCEPT !.crc = Crc(Append(img.payload, 0))]
    <2>1. \/ a = [img EXCEPT !.magic = "unknown"]
          \/ \E v : a = [img EXCEPT !.fmt = v]
          \/ \E v : a = [img EXCEPT !.reserved = v]
          \/ \E v : a = [img EXCEPT !.size = v]
          \/ \E v : a = [img EXCEPT !.flags = v]
          \/ \E v : a = [img EXCEPT !.count = v]
          \/ \E i \in DOMAIN img.payload, v \in Byte : a = [img EXCEPT !.payload[i] = v]
          \/ img.crc # <<>> /\ a = [img EXCEPT !.crc = Crc(Append(img.payload, 0))]
      BY DEF Altered
    <2>2. CASE a = [img EXCEPT !.magic = "unknown"]
      BY <1>r, <2>2 DEF Changed
    <2>3. CASE \E v : a = [img EXCEPT !.fmt = v]
      BY <1>r, <2>3 DEF Changed
    <2>4. CASE \E v : a = [img EXCEPT !.reserved = v]
      BY <1>r, <2>4 DEF Changed
    <2>5. CASE \E v : a = [img EXCEPT !.size = v]
      BY <1>r, <2>5 DEF Changed
    <2>6. CASE \E v : a = [img EXCEPT !.flags = v]
      BY <1>r, <2>6 DEF Changed
    <2>7. CASE \E v : a = [img EXCEPT !.count = v]
      BY <1>r, <2>7 DEF Changed
    <2> QED
      BY <2>1, <2>2, <2>3, <2>4, <2>5, <2>6, <2>7
  <1>2. CASE \E i \in DOMAIN img.payload, v \in Byte : a = [img EXCEPT !.payload[i] = v]
    <2>1. PICK i \in DOMAIN img.payload, v \in Byte : a = [img EXCEPT !.payload[i] = v]
      BY <1>2
    <2> DEFINE pl == [img.payload EXCEPT ![i] = v]
    <2>2. a = [img EXCEPT !.payload = pl]
      BY <1>r, <2>1
    <2>3. Len(pl) = Len(img.payload)
      BY DEF ImageType
    <2> HIDE DEF pl
    <2>4. a.payload = pl /\ a.crc = img.crc /\ a.magic = img.magic
      BY <1>r, <2>2
    <2> QED
      BY <2>3, <2>4
  <1>3. CASE img.crc # <<>> /\ a = [img EXCEPT !.crc = Crc(Append(img.payload, 0))]
    <2> DEFINE c == Crc(Append(img.payload, 0))
    <2>1. Len(c) = 1
      BY DEF Crc
    <2>2. a = [img EXCEPT !.crc = c]
      BY <1>3
    <2> HIDE DEF c
    <2>3. a.payload = img.payload /\ a.crc = c /\ a.magic = img.magic
      BY <1>r, <2>2
    <2> QED
      BY <1>3, <2>1, <2>3
  <1>4. CASE \E v : a \in Changed(img, v) /\ a.payload = img.payload /\ a.crc = img.crc
                    /\ a.magic \in {img.magic, "unknown"}
    <2>1. a.payload = img.payload /\ a.crc = img.crc /\ a.magic \in {img.magic, "unknown"}
      BY <1>4
    <2> QED
      BY <2>1
  <1> QED
    BY <1>1, <1>2, <1>3, <1>4

\* One file changed.
LEMMA FilePort ==
  ASSUME DiskInv, PortInv, NEW f \in Files, NEW d, disk' = [disk EXCEPT ![f] = d], PortFile(d),
         owner' # "none" => pool' = pool /\ owner' = owner
  PROVE  PortInv'
  <1>1. disk' = [g \in Files |-> IF g = f THEN d ELSE disk[g]]
    BY DEF DiskInv
  <1>2. \A g \in Files : disk'[g].there => PortFile(disk'[g])
    BY <1>1 DEF PortInv
  <1> QED
    BY <1>2 DEF PortInv

\* A file whose save is the last that happened to it.
LEMMA ExactPort ==
  ASSUME NEW p, Storable(p), Countable(Count(p) * Bytes(p.size)), NEW magic \in {"V32", "V33"},
         NEW d, d.image = ImageOf(p, magic)
  PROVE  PortFile(d) /\ (d.image.crc = <<>> \/ Len(d.image.crc) = 1) /\ Announced(d) = Len(d.image.payload)
  <1> DEFINE im == d.image
  <1>1. im = ImageOf(p, magic)
    OBVIOUS
  <1> HIDE DEF im
  <1>2. im.magic = magic /\ im.payload = Encoded(p)
    BY <1>1, ImageFields
  <1>3. im.crc = IF magic = "V33" THEN Crc(Encoded(p)) ELSE <<>>
    BY ONLY <1>1, magic \in {"V32", "V33"}, ImageFields
  <1>4. Declared(im) = Len(im.payload)
    BY <1>1, ImageOK
  <1>5. Len(Encoded(p)) = Count(p) * Bytes(p.size)
    BY EncodedType DEF Storable
  <1>6. Len(Crc(Encoded(p))) = 1
    BY DEF Crc
  <1>7. Announced(d) = Declared(im)
    BY DEF Announced, Declared, im
  <1> QED
    BY <1>2, <1>3, <1>4, <1>5, <1>6, <1>7 DEF PortFile, im

\* A save begins,
LEMMA SaveBeginPort ==
  ASSUME DiskInv, PortInv, NEW f \in Files, NEW magic \in {"V32", "V33"}, SaveBegin(f, magic)
  PROVE  PortInv'
  <1> DEFINE img == IF magic = "V33" THEN Portable(pool) ELSE Legacy(pool)
             new == Stored(img, 0)
             suicide == owner = f /\ Count(pool) > 0
  <1>1. /\ owner # "none" /\ disk' = [disk EXCEPT ![f] = new]
        /\ pool' = IF suicide THEN Zeroed(0) ELSE pool
        /\ owner' = IF suicide THEN "none" ELSE owner
    BY DEF SaveBegin
  <1>2. img = ImageOf(pool, magic)
    BY DEF ImageOf
  <1> HIDE DEF img, suicide
  <1>3. Storable(pool) /\ Countable(Count(pool) * Bytes(pool.size))
    BY <1>1 DEF DiskInv, PoolOK, Truthful, Storable, PortInv
  <1>4. new.image = img
    <2> DEFINE len == 0
    <2> HIDE DEF len
    <2>1. IsFile(Stored(img, len), img, len)
      BY StoredFields
    <2> QED
      BY <2>1 DEF len, IsFile
  <1> HIDE DEF new
  <1>5. PortFile(new)
    BY <1>2, <1>3, <1>4, ExactPort
  <1>6. owner' # "none" => pool' = pool /\ owner' = owner
    BY <1>1
  <1> QED
    BY <1>1, <1>5, <1>6, FilePort

\* goes on,
LEMMA SaveWritesPort ==
  ASSUME DiskInv, PortInv, SaveWrites
  PROVE  PortInv'
  <1> DEFINE f == writing
             d == disk[f]
             n == d.len + 1
             new == [d EXCEPT !.len = n]
  <1>1. /\ f \in Files /\ d # NoFile /\ d.len < Whole(d.image)
        /\ disk' = [disk EXCEPT ![f].len = @ + 1]
        /\ UNCHANGED <<pool, owner>>
    BY DEF SaveWrites, Idle, DiskInv
  <1>2. disk' = [disk EXCEPT ![f] = new]
    BY <1>1 DEF DiskInv
  <1>3. PICK p, magic : Remembers(d, saved[f], p, magic) /\ (f \notin damage.hit => Exact(d, p, magic))
    <2>1. FileOK(d, saved[f], f, damage.hit)
      BY <1>1 DEF DiskInv
    <2> QED
      BY <1>1, <2>1 DEF FileOK
  <1>4. d = Stored(d.image, d.len) /\ d.len \in Nat /\ ImageType(d.image)
    BY <1>3 DEF Remembers
  <1>5. PortFile(d)
    <2>1. d.there = TRUE
      <3> HIDE DEF d
      <3> QED
        BY <1>4 DEF Stored
    <2> QED
      BY <1>1, <2>1 DEF PortInv
  <1> HIDE DEF d
  <1>6. new = Stored(d.image, n)
    <2> HIDE DEF n
    <2> QED
      BY <1>4, StoredExcept
  <1>7. new.image = d.image
    <2>1. IsFile(Stored(d.image, n), d.image, n)
      BY StoredFields
    <2> QED
      BY <1>6, <2>1 DEF IsFile
  <1>8. Announced(d) = Len(d.image.payload)
    <2>1. d.len # Whole(d.image)
      <3> DEFINE w == Whole(d.image)
      <3>1. d.len < w /\ d.len \in Int
        BY <1>1, <1>4 DEF d
      <3> HIDE DEF w
      <3>2. d.len # w
        BY <3>1
      <3> QED
        BY <3>2 DEF w
    <2> QED
      BY <1>5, <2>1 DEF PortFile
  <1> HIDE DEF new
  <1>9. PortFile(new)
    BY <1>5, <1>7, <1>8 DEF PortFile, Announced
  <1> HIDE DEF f
  <1> QED
    BY <1>1, <1>2, <1>9, FilePort

\* and a file is damaged: while one can be, none has been.
LEMMA DamagePort ==
  ASSUME DiskInv, PortInv, MaxDamage <= 1, NEW f \in Files, Damage(f)
  PROVE  PortInv'
  <1> DEFINE d == disk[f]
  <1>1. /\ damage.left > 0 /\ d.there /\ UNCHANGED <<pool, owner>>
        /\ \/ d.len = Whole(d.image) /\ \E img \in Altered(d.image) : disk' = [disk EXCEPT ![f].image = img]
           \/ \E n \in 0 .. d.len + 1 : disk' = [disk EXCEPT ![f].len = n]
    BY DEF Damage
  <1>2. damage.hit = {} /\ disk = [g \in Files |-> disk[g]]
    BY <1>1 DEF DiskInv
  <1>3. PICK p, magic : Untouched(d, saved[f], p, magic)
    BY <1>1, <1>2, UndamagedIs
  <1>4. /\ Storable(p) /\ magic \in {"V32", "V33"} /\ d.image = ImageOf(p, magic)
        /\ d = Stored(d.image, d.len) /\ ImageType(d.image)
    BY <1>3 DEF Untouched, Remembers, Exact
  <1>5. PortFile(d)
    BY <1>1 DEF PortInv
  <1> HIDE DEF d
  <1>6. Len(d.image.payload) = Count(p) * Bytes(p.size)
    <2>1. d.image.payload = Encoded(p)
      BY <1>4, ImageFields
    <2> QED
      BY <1>4, <2>1, EncodedType DEF Storable
  <1>7. (d.image.crc = <<>> \/ Len(d.image.crc) = 1) /\ Announced(d) = Len(d.image.payload)
    <2>1. Countable(Count(p) * Bytes(p.size))
      BY <1>5, <1>6 DEF PortFile
    <2> QED
      BY <1>4, <2>1, ExactPort
  <1>8. CASE d.len = Whole(d.image) /\ \E img \in Altered(d.image) : disk' = [disk EXCEPT ![f].image = img]
    <2>1. PICK img \in Altered(d.image) : disk' = [disk EXCEPT ![f].image = img]
      BY <1>8
    <2> DEFINE new == [d EXCEPT !.image = img]
    <2>2. disk' = [disk EXCEPT ![f] = new]
      BY <1>2, <2>1 DEF d
    <2>3. new = Stored(img, d.len)
      BY <1>4, StoredExcept
    <2>4. IsFile(Stored(img, d.len), img, d.len)
      BY StoredFields
    <2> HIDE DEF new
    <2>5. new.image = img /\ new.len = d.len
      BY <2>3, <2>4 DEF IsFile
    <2>6. /\ Len(img.payload) = Len(d.image.payload) /\ Len(img.crc) = Len(d.image.crc)
          /\ img.magic = "V33" => d.image.magic = "V33"
      BY <1>4, <1>7, AlteredLengths
    <2>7. PortFile(new)
      BY <1>5, <1>8, <2>5, <2>6 DEF PortFile, Whole
    <2> QED
      BY <1>1, <2>2, <2>7, FilePort
  <1>9. CASE \E n \in 0 .. d.len + 1 : disk' = [disk EXCEPT ![f].len = n]
    <2>1. PICK n \in 0 .. d.len + 1 : disk' = [disk EXCEPT ![f].len = n]
      BY <1>9
    <2> DEFINE new == [d EXCEPT !.len = n]
    <2>2. disk' = [disk EXCEPT ![f] = new]
      BY <1>2, <2>1 DEF d
    <2>3. new = Stored(d.image, n)
      BY <1>4, StoredExcept
    <2>4. IsFile(Stored(d.image, n), d.image, n)
      BY StoredFields
    <2> HIDE DEF new
    <2>5. new.image = d.image
      BY <2>3, <2>4 DEF IsFile
    <2>6. PortFile(new)
      BY <1>5, <1>7, <2>5 DEF PortFile, Announced
    <2> QED
      BY <1>1, <2>2, <2>6, FilePort
  <1> QED
    BY <1>1, <1>8, <1>9 DEF d

\* Every step keeps the bytes countable.
LEMMA NextPort == MaxDamage <= 1 => (DiskInv /\ PortInv /\ [Next]_vars => PortInv')
  <1> SUFFICES ASSUME MaxDamage <= 1, DiskInv, PortInv, [Next]_vars  PROVE PortInv'
    OBVIOUS
  <1>1. CASE Build \/ MarkFacts \/ Demoted \/ Release \/ Crash \/ SaveEnds
    BY <1>1, OwnPort
  <1>2. CASE \E f \in Files, magic \in {"V32", "V33"} : SaveBegin(f, magic)
    BY <1>2, SaveBeginPort
  <1>3. CASE SaveWrites
    BY <1>3, SaveWritesPort
  <1>4. CASE \E f \in Files, b \in BOOLEAN : Load(f, b) \/ LoadPortable(f, b) \/ MapOpen(f, b)
    BY <1>4, LoadedPort
  <1>5. CASE \E f \in Files : Damage(f)
    BY <1>5, DamagePort
  <1>6. CASE UNCHANGED vars
    BY <1>6 DEF vars, PortInv
  <1> QED
    BY <1>1, <1>2, <1>3, <1>4, <1>5, <1>6 DEF Next

\* All ports on one file.
LEMMA PortsOnFile ==
  ASSUME NEW d, PortReady(d), NEW yes, yes = TRUE, NEW no, no = FALSE,
         NEW c, c = s2r_load_portable(0, d, TRUE), NEW fast, fast = s2r_map_open(0, d, no)
  PROVE  /\ SameAnswer(GoLoad(d), c) /\ SameAnswer(fromS2RBytes(d, yes), c)
         /\ SameAnswer(from_bytes(d, yes), c)
         /\ SameAnswer(fromS2RBytes(d, no), fast) /\ SameAnswer(from_bytes(d, no), fast)
         /\ c.ret => Serialized(GoLoad(d)) = [d.image EXCEPT !.flags = FormatFlags(@)]
         /\ s2r_verify(d) = c.ret
  <1>1. /\ fromS2RBytes(d, yes) = PortRead(d, yes) /\ from_bytes(d, yes) = PortRead(d, yes)
        /\ GoLoad(d) = PortRead(d, yes)
    <2>1. yes \in BOOLEAN /\ yes
      OBVIOUS
    <2> QED
      BY ONLY PortReady(d), <2>1, PortsReadAlike
  <1>2. fromS2RBytes(d, no) = PortRead(d, no) /\ from_bytes(d, no) = PortRead(d, no)
    <2>1. no \in BOOLEAN
      OBVIOUS
    <2> QED
      BY ONLY PortReady(d), <2>1, PortsReadAlike
  <1>3. SameAnswer(PortRead(d, yes), c) /\ c.ret = (Accepted(d) /\ (yes => CrcGood(d.image)))
    <2>1. yes \in BOOLEAN /\ yes = TRUE /\ c = s2r_load_portable(0, d, TRUE)
      OBVIOUS
    <2> QED
      BY ONLY PortReady(d), <2>1, AlikeRead
  <1>4. SameAnswer(PortRead(d, no), fast)
    <2>1. no \in BOOLEAN /\ fast = s2r_map_open(0, d, no)
      OBVIOUS
    <2> QED
      BY ONLY PortReady(d), <2>1, AlikeRead
  <1>5. c.ret = (Accepted(d) /\ CrcGood(d.image))
    BY <1>3
  <1>6. s2r_verify(d) = c.ret
    BY <1>5, VerifiedAlike
  <1>7. c.ret => Serialized(GoLoad(d)) = [d.image EXCEPT !.flags = FormatFlags(@)]
    <2> SUFFICES ASSUME c.ret
                 PROVE  Serialized(GoLoad(d)) = [d.image EXCEPT !.flags = FormatFlags(@)]
      OBVIOUS
    <2>1. Accepted(d) /\ CrcGood(d.image)
      BY <1>5
    <2>2. GoLoad(d) = Column(d, Announced(d))
      BY <1>1, <2>1 DEF PortRead
    <2>3. Serialized(Column(d, Announced(d))) = [d.image EXCEPT !.flags = FormatFlags(@)]
      BY <2>1, WrittenBack
    <2> QED
      BY <2>2, <2>3
  <1> QED
    BY <1>1, <1>2, <1>3, <1>4, <1>6, <1>7

\* Whatever crashes, failed writes and one place of damage left of a portable file, the
\* ports to Go, JavaScript and Python read the column that s2r_load_portable and
\* s2r_map_open read, or refuse with them; a port writes the same file again; and
\* s2r_verify calls intact what the library reads.
THEOREM PortsReadTheSame == Careful /\ MaxDamage <= 1 => (Spec => []PortsAgree)
  <1> SUFFICES ASSUME Careful, MaxDamage <= 1  PROVE Spec => []PortsAgree
    OBVIOUS
  <1>1. Init => PortInv
    <2> SUFFICES ASSUME Init  PROVE PortInv
      OBVIOUS
    <2>1. owner = "none" /\ \A f \in Files : disk[f] = NoFile
      BY DEF Init
    <2> QED
      BY <2>1 DEF PortInv, NoFile
  <1>2. DiskInv /\ PortInv /\ [Next]_vars => PortInv'
    BY NextPort
  <1>3. DiskInv /\ PortInv => PortsAgree
    <2> SUFFICES ASSUME DiskInv, PortInv  PROVE PortsAgree
      OBVIOUS
    <2>1. ASSUME NEW f \in Files, disk[f].there, disk[f].image.magic = "V33"  PROVE PortReady(disk[f])
      <3>1. FileOK(disk[f], saved[f], f, damage.hit) /\ disk[f] # NoFile
        BY <2>1, FileThere DEF DiskInv
      <3>2. PICK p, magic : Remembers(disk[f], saved[f], p, magic)
        BY <3>1 DEF FileOK
      <3> DEFINE d == disk[f]
      <3>3. ImageType(d.image) /\ d.len \in Nat /\ d = Stored(d.image, d.len)
        BY <3>2 DEF Remembers
      <3>4. PortFile(d) /\ d.image.magic = "V33"
        BY <2>1 DEF PortInv
      <3> HIDE DEF d
      <3>5. d.there = TRUE
        BY <3>3 DEF Stored
      <3>6. PortReady(d)
        BY <3>3, <3>4, <3>5 DEF PortReady
      <3> QED
        BY <3>6 DEF d
    <2>2. ASSUME NEW f \in Files, disk[f].there, disk[f].image.magic = "V33"
          PROVE  LET d     == disk[f]
                     c     == s2r_load_portable(0, d, TRUE)
                     fast  == s2r_map_open(0, d, FALSE)
                     same(p, r) == p.ok = r.ret /\ (p.ok => p.size = r.pool.size /\ p.values = Values(r.pool))
                 IN  /\ same(GoLoad(d), c) /\ same(fromS2RBytes(d, TRUE), c) /\ same(from_bytes(d, TRUE), c)
                     /\ same(fromS2RBytes(d, FALSE), fast) /\ same(from_bytes(d, FALSE), fast)
                     /\ c.ret => Serialized(GoLoad(d)) = [d.image EXCEPT !.flags = FormatFlags(@)]
                     /\ s2r_verify(d) = c.ret
      <3> DEFINE d == disk[f]
                 yes == TRUE
                 no == FALSE
                 c == s2r_load_portable(0, d, TRUE)
                 fast == s2r_map_open(0, d, no)
      <3>1. PortReady(d)
        BY <2>1, <2>2
      <3>2. yes = TRUE /\ no = FALSE
        OBVIOUS
      <3> HIDE DEF d, yes, no
      <3>3. /\ SameAnswer(GoLoad(d), c) /\ SameAnswer(fromS2RBytes(d, yes), c)
            /\ SameAnswer(from_bytes(d, yes), c)
            /\ SameAnswer(fromS2RBytes(d, no), fast) /\ SameAnswer(from_bytes(d, no), fast)
            /\ c.ret => Serialized(GoLoad(d)) = [d.image EXCEPT !.flags = FormatFlags(@)]
            /\ s2r_verify(d) = c.ret
        BY <3>1, <3>2, PortsOnFile
      <3> QED
        BY <3>3 DEF SameAnswer, d, yes, no
    <2> QED
      BY <2>2 DEF PortsAgree
  <1>4. Spec => []DiskInv
    BY DiskInvariance
  <1> QED
    BY <1>1, <1>2, <1>3, <1>4, PTL DEF Spec

=============================================================================
