----------------------------- MODULE PoolFacts -----------------------------
(***************************************************************************)
(* Lemmas about the functions of PoolOps, for every number and width of    *)
(* classes, every alignment and every memory bound: each leaves a pool in  *)
(* use, well typed with its elements within its block; what each does to   *)
(* the fields of the pool and to the values its elements are read as; what *)
(* a pool records of itself (whose block it has, its sign, its order, its  *)
(* summary) and which functions keep those records true; and the bytes of  *)
(* a word.                                                                 *)
(***************************************************************************)
EXTENDS PoolOps, ByteWords, SequenceTheorems, FiniteSetTheorems, WellFoundedInduction, TLAPS

-----------------------------------------------------------------------------
(* Arithmetic.                                                              *)

\* A remainder lies below its divisor.
LEMMA ModRange ==
  ASSUME NEW v \in Int, NEW n \in Nat \ {0}
  PROVE  v % n \in 0 .. n - 1
  BY SMT

\* A remainder is not above what it is the remainder of.
LEMMA ModBelow ==
  ASSUME NEW v \in Nat, NEW n \in Nat \ {0}
  PROVE  v % n \in Nat /\ v % n <= v
  BY SMT

\* Below the modulus nothing is taken away.
LEMMA ModSame ==
  ASSUME NEW n \in Nat \ {0}, NEW v \in 0 .. n - 1
  PROVE  v % n = v
  BY SMT

\* Rounding a size up to the alignment does not make it smaller, unless the sum
\* wraps.
LEMMA AlignUpBound ==
  ASSUME NEW n \in Nat
  PROVE  AlignUp(n) \in Nat /\ (n + Align - 1 <= SizeMax => AlignUp(n) >= n)
  <1> DEFINE l == SizeMax + 1
             v == n + Align - 1
             m == v % l
             t == m % Align
  <1>1. l \in Nat \ {0} /\ v \in Nat /\ Align \in Nat \ {0} /\ SizeMax \in Nat
    BY MemoryAssumption
  <1>2. AlignUp(n) = m - t
    BY DEF AlignUp
  <1>w. Align \in Nat \ {0} /\ (m \in Nat => t \in 0 .. Align - 1 /\ t <= m /\ t \in Nat)
    <2> HIDE DEF m
    <2> QED
      BY <1>1, ModRange, ModBelow
  <1>v. v = n + Align - 1 /\ l = SizeMax + 1
    OBVIOUS
  <1> HIDE DEF l, v
  <1>3. m \in Nat
    BY <1>1, ModBelow
  <1>4. v <= SizeMax => m = v
    <2> SUFFICES ASSUME v <= SizeMax PROVE m = v
      OBVIOUS
    <2>1. v \in 0 .. l - 1
      BY <1>1, <1>v
    <2> QED
      BY <1>1, <2>1, ModSame
  <1> HIDE DEF m
  <1>5. t \in 0 .. Align - 1 /\ t <= m /\ t \in Nat
    BY <1>3, <1>w
  <1> HIDE DEF t
  <1> QED
    BY <1>1, <1>2, <1>3, <1>4, <1>5, <1>v

\* So many elements, whatever their class, are far from the end of size_t.
LEMMA FarFromWrapping ==
  ASSUME NEW n \in Nat, n <= 2 * Memory + InitialCap + 2
  PROVE  /\ Askable(n)
         /\ \A c \in Classes : n * ElemBytes[c] <= AlignUp(n * ElemBytes[c])
  <1> DEFINE l == 2 * Memory + InitialCap + 2
  <1>1. l \in Nat /\ n <= l /\ SizeMax \in Nat /\ Align \in Nat
    BY MemoryAssumption, AddressAssumption
  <1>2. ASSUME NEW c \in Classes
        PROVE  /\ n * ElemBytes[c] \in Nat
               /\ n * ElemBytes[c] + Align - 1 <= SizeMax
    <2> DEFINE e == ElemBytes[c]
    <2>1. e \in Nat
      BY ClassAssumption DEF Classes
    <2>2. e * l + Align <= SizeMax + 1
      BY AddressAssumption DEF Classes
    <2> HIDE DEF e, l
    <2>3. n * e <= e * l /\ n * e \in Nat /\ e * l \in Nat
      BY <1>1, <2>1
    <2> DEFINE x == n * e
               y == e * l
    <2>4. x <= y /\ x \in Nat /\ y \in Nat /\ y + Align <= SizeMax + 1
      BY <2>2, <2>3
    <2> HIDE DEF x, y
    <2>5. x \in Nat /\ x + Align - 1 <= SizeMax
      BY <1>1, <2>4
    <2> QED
      BY <2>5 DEF x, e
  <1> QED
    BY <1>2, AlignUpBound DEF Askable, Aligns

\* Whole elements counted in a block do not exceed it.
LEMMA DivBound ==
  ASSUME NEW b \in Nat, NEW e \in Nat \ {0}
  PROVE  (b \div e) \in Nat /\ (b \div e) * e <= b
  BY SMT

\* The classes widen: their powers are positive and grow.
LEMMA PowFacts ==
  ASSUME NEW c \in Classes
  PROVE  /\ Half[c] \in Nat \ {0}
         /\ Pow(c) \in Nat \ {0, 1}
         /\ Pow(c) <= Pow(K)
         /\ ElemBytes[c] \in Nat \ {0}
  <1>1. Half[c] \in Nat \ {0} /\ Half[K] \in Nat \ {0} /\ ElemBytes[c] \in Nat \ {0}
    BY ClassAssumption DEF Classes
  <1>2. Half[c] <= Half[K]
    <2>1. CASE c = K
      BY <1>1, <2>1
    <2>2. CASE c # K
      <3>1. c < K
        BY <2>2, ClassAssumption DEF Classes
      <3>2. 2 * Half[c] <= Half[K]
        BY <3>1, ClassAssumption DEF Classes
      <3> QED
        BY <1>1, <3>2
    <2> QED
      BY <2>1, <2>2
  <1> QED
    BY <1>1, <1>2 DEF Pow

\* Narrowing to a class yields a word of that class.
LEMMA RawRange ==
  ASSUME NEW c \in Classes, NEW v \in Int
  PROVE  Raw(c, v) \in Word /\ Raw(c, v) < Pow(c)
  <1>1. Pow(c) \in Nat \ {0, 1} /\ Pow(c) <= Pow(K) /\ Pow(K) \in Nat
    BY PowFacts, ClassAssumption DEF Classes
  <1>2. v % Pow(c) \in 0 .. Pow(c) - 1
    BY <1>1, ModRange
  <1> QED
    BY <1>1, <1>2 DEF Raw, Word

\* A nonempty set of classes has a least one.
LEMMA LeastClass ==
  ASSUME NEW S \in SUBSET Classes, S # {}
  PROVE  \E c \in S : \A d \in S : c <= d
  <1>1. S \subseteq Nat
    BY ClassAssumption DEF Classes
  <1>2. \E c \in S : \A d \in S : ~ (<<d, c>> \in OpToRel(<, Nat))
    BY <1>1, NatLessThanWellFounded, WFMin, Zenon
  <1>3. PICK c \in S : \A d \in S : ~ (<<d, c>> \in OpToRel(<, Nat))
    BY <1>2
  <1>4. ASSUME NEW d \in S  PROVE c <= d
    <2>1. c \in Nat /\ d \in Nat
      BY <1>1, <1>3
    <2>2. ~ (d < c)
      BY <1>3, <2>1 DEF OpToRel
    <2> QED
      BY <2>1, <2>2
  <1> QED
    BY <1>3, <1>4

\* Classification picks a class that holds the values, when any class does.
LEMMA ClassifyFits ==
  ASSUME NEW vs, \E c \in Classes : UFits(c, vs)
  PROVE  Classify(vs) \in Classes /\ UFits(Classify(vs), vs)
  <1> DEFINE c == CHOOSE c \in Classes : UFits(c, vs) /\ \A d \in Classes : UFits(d, vs) => c <= d
  <1>1. \E c0 \in {e \in Classes : UFits(e, vs)} : \A d \in {e \in Classes : UFits(e, vs)} : c0 <= d
    BY LeastClass
  <1>2. c \in Classes /\ UFits(c, vs)
    BY <1>1
  <1> QED
    BY <1>2 DEF Classify

LEMMA ClassifySignedFits ==
  ASSUME NEW vs, \E c \in Classes : SFits(c, vs)
  PROVE  /\ -ClassifySigned(vs) \in Classes /\ SFits(-ClassifySigned(vs), vs)
         /\ ClassifySigned(vs) \in Int
  <1> DEFINE c == CHOOSE c \in Classes : SFits(c, vs) /\ \A d \in Classes : SFits(d, vs) => c <= d
  <1>1. \E c0 \in {e \in Classes : SFits(e, vs)} : \A d \in {e \in Classes : SFits(e, vs)} : c0 <= d
    BY LeastClass
  <1>2. c \in Classes /\ SFits(c, vs)
    BY <1>1
  <1>3. c \in Int /\ -(-c) = c /\ -c \in Int
    <2> HIDE DEF c
    <2> QED BY <1>2, ClassAssumption DEF Classes
  <1>4. ClassifySigned(vs) = -c
    BY DEF ClassifySigned
  <1> QED
    BY <1>2, <1>3, <1>4

-----------------------------------------------------------------------------
(* A pool in use: well typed, its elements within its block.                *)

InUse(p) == p \in PoolType /\ Sound(p)

\* The class of a pool in use, and the bytes of its element.
LEMMA SizeFacts ==
  ASSUME NEW size \in Sizes
  PROVE  /\ Abs(size) \in Classes
         /\ Bytes(size) \in Nat \ {0}
         /\ size \in -K .. K
  <1>1. Abs(size) \in Classes
    BY ClassAssumption DEF Sizes, Abs, Classes
  <1> QED
    BY <1>1, PowFacts DEF Sizes, Bytes

\* The fields of a pool of the type.
LEMMA Fields ==
  ASSUME NEW p \in PoolType
  PROVE  /\ p.data \in Seq(Word) /\ Count(p) \in Nat /\ DOMAIN p.data = 1 .. Count(p)
         /\ \A i \in DOMAIN p.data : p.data[i] \in Word
         /\ p.size \in -K .. K /\ p.flags \in SUBSET Flags
         /\ p.smin \in Word /\ p.smax \in Word /\ p.ssum \in Word
         /\ p.epoch \in 0 .. EpochMod - 1
         /\ p.capacity \in Nat /\ p.byte_cap \in Nat
         /\ p.buf \in {"null", "heap", "mapping"} /\ p.heap \in Int
  BY DEF PoolType, Count

\* A pool is the record of its fields.
LEMMA AsRecord ==
  ASSUME NEW p \in PoolType
  PROVE  p = [data |-> p.data, size |-> p.size, flags |-> p.flags,
              smin |-> p.smin, smax |-> p.smax, ssum |-> p.ssum, epoch |-> p.epoch,
              capacity |-> p.capacity, byte_cap |-> p.byte_cap, buf |-> p.buf, heap |-> p.heap]
  BY DEF PoolType

\* Adopting a block of `bytes` bytes.
LEMMA AdoptType ==
  ASSUME NEW p \in PoolType, NEW bytes \in Nat, NEW cap \in Nat
  PROVE  /\ Adopt(p, bytes, cap) \in PoolType
         /\ Adopt(p, bytes, cap).byte_cap = bytes
         /\ Adopt(p, bytes, cap).capacity = cap
         /\ Adopt(p, bytes, cap).buf = "heap"
         /\ Adopt(p, bytes, cap).data = p.data
         /\ Adopt(p, bytes, cap).size = p.size
  <1> DEFINE h == IF p.buf # "null" /\ "EXTERNAL" \notin p.flags THEN p.heap ELSE p.heap + 1
  <1>1. h \in Int
    BY Fields
  <1>2. Adopt(p, bytes, cap) =
          [p EXCEPT !.buf = "heap", !.byte_cap = bytes, !.capacity = cap, !.heap = h]
    BY DEF Adopt
  <1> HIDE DEF h
  <1>3. [p EXCEPT !.buf = "heap", !.byte_cap = bytes, !.capacity = cap, !.heap = h] \in PoolType
    BY <1>1 DEF PoolType
  <1> QED
    BY <1>2, <1>3 DEF PoolType

\* Elements, class and flags replaced.
LEMMA RefitType ==
  ASSUME NEW p \in PoolType, NEW data \in Seq(Word), NEW size \in -K .. K,
         NEW flags \in SUBSET Flags
  PROVE  [p EXCEPT !.data = data, !.size = size, !.flags = flags] \in PoolType
  BY DEF PoolType

\* A block adopted for elements of a class is large enough for `cap` of them.
LEMMA AdoptInUse ==
  ASSUME NEW p \in PoolType, NEW size \in Sizes, NEW cap \in Nat, NEW data \in Seq(Word),
         NEW flags \in SUBSET Flags,
         Len(data) <= cap,
         cap * Bytes(size) <= AlignUp(cap * Bytes(size)), AlignUp(cap * Bytes(size)) <= Memory,
         \A i \in DOMAIN data : data[i] < Pow(Abs(size))
  PROVE  InUse([Adopt(p, AlignUp(cap * Bytes(size)), cap)
                  EXCEPT !.data = data, !.size = size, !.flags = flags])
  <1> DEFINE bytes == AlignUp(cap * Bytes(size))
             q == [Adopt(p, bytes, cap) EXCEPT !.data = data, !.size = size, !.flags = flags]
  <1>1. cap * Bytes(size) \in Nat
    BY SizeFacts
  <1>2. bytes \in Nat /\ cap * Bytes(size) <= bytes /\ bytes <= Memory
    BY <1>1, AlignUpBound
  <1>3. size \in -K .. K
    BY SizeFacts
  <1> DEFINE a == Adopt(p, bytes, cap)
  <1>4. a \in PoolType /\ a.byte_cap = bytes /\ a.capacity = cap /\ a.buf = "heap"
    BY ZenonT(60), <1>2, AdoptType
  <1> HIDE DEF a, bytes
  <1>5. q \in PoolType
    BY <1>3, <1>4, RefitType DEF a
  <1>6. /\ q.data = data /\ q.size = size /\ q.capacity = cap
        /\ q.byte_cap = bytes /\ q.buf = "heap"
    BY <1>4 DEF a, PoolType
  <1> HIDE DEF q
  <1>7. Sound(q)
    BY <1>2, <1>6 DEF Sound, Count, Sizes
  <1> QED
    BY <1>5, <1>7 DEF InUse, q, a, bytes

\* A block adopted for the class and the elements the pool has.
LEMMA RegrownInUse ==
  ASSUME NEW p, InUse(p), NEW cap \in Nat, Count(p) <= cap, NEW flags \in SUBSET Flags,
         cap * Bytes(p.size) <= AlignUp(cap * Bytes(p.size)),
         AlignUp(cap * Bytes(p.size)) <= Memory
  PROVE  InUse([Adopt(p, AlignUp(cap * Bytes(p.size)), cap) EXCEPT !.flags = flags])
  <1> DEFINE bytes == AlignUp(cap * Bytes(p.size))
             a == Adopt(p, bytes, cap)
             q == [a EXCEPT !.flags = flags]
  <1>1. p \in PoolType /\ Sound(p) /\ p.size \in Sizes
    BY DEF InUse, Sound, Sizes, PoolType
  <1>2. cap * Bytes(p.size) \in Nat
    BY <1>1, SizeFacts
  <1>3. bytes \in Nat /\ cap * Bytes(p.size) <= bytes /\ bytes <= Memory
    BY <1>2, AlignUpBound
  <1> HIDE DEF bytes
  <1>4. /\ a \in PoolType /\ a.byte_cap = bytes /\ a.capacity = cap /\ a.buf = "heap"
        /\ a.data = p.data /\ a.size = p.size
    BY <1>1, <1>3, AdoptType
  <1> HIDE DEF a
  <1>5. q \in PoolType
    BY <1>4 DEF PoolType
  <1>6. /\ q.data = p.data /\ q.size = p.size /\ q.capacity = cap
        /\ q.byte_cap = bytes /\ q.buf = "heap"
    BY <1>4 DEF PoolType
  <1> HIDE DEF q
  <1>7. Sound(q)
    BY <1>1, <1>3, <1>6 DEF Sound, Count
  <1> QED
    BY <1>5, <1>7 DEF InUse, q, a, bytes

\* A pool in use is far smaller than the address space.
LEMMA CountSmall ==
  ASSUME NEW p, InUse(p)
  PROVE  /\ Count(p) \in Nat /\ p.capacity \in Nat /\ Memory \in Nat
         /\ Count(p) <= p.capacity /\ p.capacity <= Memory
  <1>1. p \in PoolType /\ Sound(p) /\ p.size \in Sizes
    BY DEF InUse, Sound, Sizes, PoolType
  <1>2. Count(p) \in Nat /\ p.capacity \in Nat /\ p.byte_cap \in Nat /\ Bytes(p.size) \in Nat \ {0}
    BY <1>1, Fields, SizeFacts
  <1> DEFINE a == p.capacity
             e == Bytes(p.size)
  <1>3. a * e <= p.byte_cap /\ p.byte_cap <= Memory /\ Count(p) <= a
    BY <1>1 DEF Sound
  <1> HIDE DEF a, e
  <1>4. a <= a * e /\ a * e \in Nat
    BY <1>2 DEF a, e
  <1>5. a \in Nat
    BY <1>2 DEF a
  <1> DEFINE m == a * e
  <1>6. m <= p.byte_cap /\ a <= m /\ m \in Nat
    BY <1>3, <1>4
  <1> HIDE DEF m
  <1>7. a <= Memory
    BY <1>2, <1>3, <1>5, <1>6, AddressAssumption
  <1> QED
    BY <1>2, <1>3, <1>7, AddressAssumption DEF a

\* Its elements, stored in any class, and the blocks it grows to are no request
\* that wraps.
LEMMA CountAskable ==
  ASSUME NEW p, InUse(p)
  PROVE  Askable(Count(p)) /\ Askable(Count(p) + 2)
  <1>1. Count(p) \in Nat /\ Count(p) <= Memory /\ Memory \in Nat /\ InitialCap \in Nat
    BY CountSmall, MemoryAssumption
  <1> QED
    BY <1>1, FarFromWrapping

LEMMA RoomFor ==
  ASSUME NEW p, InUse(p), NEW size \in Sizes
  PROVE  Count(p) * Bytes(size) <= AlignUp(Count(p) * Bytes(size))
  <1>1. Count(p) \in Nat /\ Count(p) <= Memory /\ Memory \in Nat /\ InitialCap \in Nat
    BY CountSmall, MemoryAssumption
  <1>2. Abs(size) \in Classes /\ Bytes(size) = ElemBytes[Abs(size)]
    BY SizeFacts DEF Sizes, Bytes
  <1> QED
    BY <1>1, <1>2, FarFromWrapping

\* What may be asked for of every class may be asked for of one.
LEMMA AskableAligns ==
  ASSUME NEW n, Askable(n), NEW size \in Sizes
  PROVE  Aligns(n * Bytes(size))
  BY SizeFacts DEF Askable, Sizes, Bytes

\* A granted request that does not wrap covers what was asked for.
LEMMA GrantedEnough ==
  ASSUME NEW n \in Nat, Aligns(n), n <= SizeMax
  PROVE  n <= AlignUp(n)
  <1>1. SizeMax \in Nat /\ Align \in Nat
    BY MemoryAssumption
  <1> QED
    BY <1>1, AlignUpBound DEF Aligns

\* Flags, epoch and summary do not matter to the elements.
LEMMA SameBlock ==
  ASSUME NEW p, InUse(p), NEW q \in PoolType,
         q.data = p.data, q.size = p.size, q.capacity = p.capacity,
         q.byte_cap = p.byte_cap, q.buf = p.buf
  PROVE  InUse(q)
  BY DEF InUse, Sound, Count

\* Other elements of the same class in the same block.
LEMMA DataInUse ==
  ASSUME NEW p, InUse(p), NEW data \in Seq(Word), Len(data) <= p.capacity,
         \A i \in DOMAIN data : data[i] < Pow(Abs(p.size))
  PROVE  InUse([p EXCEPT !.data = data])
  <1> DEFINE q == [p EXCEPT !.data = data]
  <1>1. p \in PoolType /\ Sound(p)
    BY DEF InUse
  <1>2. q \in PoolType
    BY <1>1 DEF PoolType
  <1>3. /\ q.data = data /\ q.size = p.size /\ q.capacity = p.capacity
        /\ q.byte_cap = p.byte_cap /\ q.buf = p.buf
    BY <1>1 DEF PoolType
  <1> HIDE DEF q
  <1>4. Sound(q)
    BY <1>1, <1>3 DEF Sound, Count
  <1> QED
    BY <1>2, <1>4 DEF InUse, q

\* The epoch stays a uint32_t.
LEMMA BumpRange ==
  ASSUME NEW e \in 0 .. EpochMod - 1, NEW k \in Nat
  PROVE  Bump(e, k) \in 0 .. EpochMod - 1
  BY ModRange, MemoryAssumption DEF Bump

-----------------------------------------------------------------------------
(* The operations keep a pool in use.                                       *)

LEMMA ReserveInUse ==
  ASSUME NEW p, InUse(p), NEW cap \in Nat, Askable(cap), NEW ok \in BOOLEAN
  PROVE  InUse(Reserve(p, cap, ok).pool)
  <1> DEFINE m == cap * Bytes(p.size)
             q == [Adopt(p, AlignUp(m), cap) EXCEPT !.flags = p.flags \ {"EXTERNAL"}]
  <1>0. p.size \in Sizes /\ m \in Nat /\ Aligns(m)
    <2>1. p.size \in Sizes
      BY DEF InUse, Sound, Sizes, PoolType
    <2> QED
      BY <2>1, SizeFacts, AskableAligns
  <1>1. ASSUME ~ cap <= p.capacity, m <= SizeMax, AlignUp(m) <= Memory  PROVE InUse(q)
    <2>1. Count(p) <= cap /\ p.flags \ {"EXTERNAL"} \in SUBSET Flags
      BY <1>1, Fields DEF InUse, Sound
    <2>2. m <= AlignUp(m)
      <3> HIDE DEF m
      <3> QED
        BY <1>0, <1>1, GrantedEnough
    <2> QED
      BY <1>1, <2>1, <2>2, RegrownInUse
  <1>2. \/ Reserve(p, cap, ok).pool = p
        \/ /\ Reserve(p, cap, ok).pool = [Adopt(p, AlignUp(m), cap) EXCEPT !.flags = @ \ {"EXTERNAL"}]
           /\ ~ cap <= p.capacity /\ ~ m > SizeMax /\ AlignUp(m) <= Memory
    BY DEF Reserve, Result, CanAlloc
  <1>4. ~ m > SizeMax => m <= SizeMax
    <2> HIDE DEF m
    <2> QED
      BY <1>0, MemoryAssumption
  <1>3. [Adopt(p, AlignUp(m), cap) EXCEPT !.flags = @ \ {"EXTERNAL"}] = q
    BY DEF Adopt, InUse, PoolType
  <1> QED
    BY <1>1, <1>2, <1>3, <1>4

LEMMA ShrinkInUse ==
  ASSUME NEW p, InUse(p), NEW ok \in BOOLEAN
  PROVE  InUse(ShrinkToFit(p, ok).pool)
  <1> DEFINE q == [Adopt(p, AlignUp(Count(p) * Bytes(p.size)), Count(p))
                     EXCEPT !.flags = p.flags \ {"EXTERNAL"}]
  <1>1. Count(p) \in Nat /\ p.flags \ {"EXTERNAL"} \in SUBSET Flags
    BY Fields DEF InUse
  <1>2. ASSUME AlignUp(Count(p) * Bytes(p.size)) <= Memory  PROVE InUse(q)
    <2>1. p.size \in Sizes
      BY DEF InUse, Sound, Sizes, PoolType
    <2>2. Count(p) * Bytes(p.size) <= AlignUp(Count(p) * Bytes(p.size)) /\ Count(p) <= Count(p)
      BY <1>1, <2>1, RoomFor
    <2> QED
      BY <1>1, <1>2, <2>2, RegrownInUse
  <1>3. \/ ShrinkToFit(p, ok).pool = p
        \/ /\ ShrinkToFit(p, ok).pool = [Adopt(p, AlignUp(Count(p) * Bytes(p.size)), Count(p))
                                            EXCEPT !.flags = @ \ {"EXTERNAL"}]
           /\ AlignUp(Count(p) * Bytes(p.size)) <= Memory
    BY DEF ShrinkToFit, Result, CanAlloc
  <1>4. [Adopt(p, AlignUp(Count(p) * Bytes(p.size)), Count(p)) EXCEPT !.flags = @ \ {"EXTERNAL"}] = q
    BY DEF Adopt, InUse, PoolType
  <1> QED
    BY <1>2, <1>3, <1>4

\* An empty pool counts the block it has in the elements of its class.
LEMMA RecapInUse ==
  ASSUME NEW r \in PoolType, Count(r) = 0, r.byte_cap > 0 => r.buf # "null", r.size \in Sizes,
         r.byte_cap <= Memory
  PROVE  InUse(RecapEmpty(r))
  <1> DEFINE cap == r.byte_cap \div Bytes(r.size)
             q == RecapEmpty(r)
  <1>1. r.size # 0 /\ Bytes(r.size) \in Nat \ {0} /\ r.byte_cap \in Nat
    BY Fields, SizeFacts DEF Sizes
  <1>2. cap \in Nat /\ cap * Bytes(r.size) <= r.byte_cap
    BY <1>1, DivBound
  <1>3. q = [r EXCEPT !.capacity = cap]
    BY <1>1 DEF RecapEmpty
  <1> HIDE DEF cap
  <1>4. [r EXCEPT !.capacity = cap] \in PoolType
    BY <1>2 DEF PoolType
  <1>5. /\ q.capacity = cap /\ q.size = r.size /\ q.data = r.data
        /\ q.byte_cap = r.byte_cap /\ q.buf = r.buf
    BY <1>3 DEF PoolType
  <1>6. DOMAIN q.data = {} /\ Count(q) = 0
    BY <1>5, Fields DEF Count
  <1>7. Sound(q)
    BY <1>1, <1>2, <1>5, <1>6 DEF Sound
  <1> QED
    BY <1>3, <1>4, <1>7 DEF InUse

LEMMA DropFactsInUse ==
  ASSUME NEW p, InUse(p)
  PROVE  /\ InUse(DropFacts(p))
         /\ DropFacts(p).data = p.data /\ DropFacts(p).size = p.size
         /\ DropFacts(p).capacity = p.capacity
  <1> DEFINE e == Bump(p.epoch, 1)
             q == [p EXCEPT !.flags = p.flags \ FactFlags, !.epoch = e]
  <1>1. p \in PoolType
    BY DEF InUse
  <1>2. e \in 0 .. EpochMod - 1
    BY <1>1, Fields, BumpRange
  <1>3. DropFacts(p) = q
    BY DEF DropFacts
  <1> HIDE DEF e
  <1>4. q \in PoolType
    BY <1>1, <1>2 DEF PoolType
  <1>5. /\ q.data = p.data /\ q.size = p.size /\ q.capacity = p.capacity
        /\ q.byte_cap = p.byte_cap /\ q.buf = p.buf
    BY <1>1 DEF PoolType
  <1>6. InUse(q)
    BY <1>4, <1>5, SameBlock
  <1> QED
    BY <1>3, <1>5, <1>6

\* One element replaced by a narrowed value.
LEMMA AssignInUse ==
  ASSUME NEW p, InUse(p), NEW i \in DOMAIN p.data, NEW v \in Int
  PROVE  /\ InUse([p EXCEPT !.data[i] = Raw(Abs(p.size), v)])
         /\ Count([p EXCEPT !.data[i] = Raw(Abs(p.size), v)]) = Count(p)
  <1> DEFINE w == Raw(Abs(p.size), v)
             d == [p.data EXCEPT ![i] = w]
  <1>1. p \in PoolType /\ Sound(p) /\ p.size \in Sizes
    BY DEF InUse, Sound, Sizes, PoolType
  <1>2. w \in Word /\ w < Pow(Abs(p.size))
    BY <1>1, SizeFacts, RawRange
  <1> HIDE DEF w
  <1>3. p.data \in Seq(Word) /\ DOMAIN p.data = 1 .. Len(p.data)
    BY <1>1, Fields DEF Count
  <1>4. d \in Seq(Word) /\ Len(d) = Len(p.data)
    BY <1>2, <1>3
  <1>5. \A j \in DOMAIN d : d[j] < Pow(Abs(p.size))
    BY <1>1, <1>2, <1>3 DEF Sound
  <1>6. Len(d) <= p.capacity
    BY <1>1, <1>4 DEF Sound, Count
  <1>7. [p EXCEPT !.data[i] = w] = [p EXCEPT !.data = d]
    BY <1>1 DEF PoolType
  <1> HIDE DEF d
  <1>8. InUse([p EXCEPT !.data = d])
    BY <1>4, <1>5, <1>6, DataInUse
  <1>9. Count([p EXCEPT !.data = d]) = Count(p)
    BY <1>1, <1>4 DEF Count, PoolType
  <1> QED
    BY <1>7, <1>8, <1>9 DEF w

LEMMA SetInUse ==
  ASSUME NEW p, InUse(p), NEW i \in DOMAIN p.data, NEW v \in Int
  PROVE  InUse(Set(p, i, v)) /\ Count(Set(p, i, v)) = Count(p)
  <1> DEFINE d == DropFacts(p)
  <1>1. InUse(d) /\ d.data = p.data /\ d.size = p.size
    BY DropFactsInUse
  <1> HIDE DEF d
  <1>2. /\ InUse([d EXCEPT !.data[i] = Raw(Abs(d.size), v)])
        /\ Count([d EXCEPT !.data[i] = Raw(Abs(d.size), v)]) = Count(d)
    BY <1>1, AssignInUse
  <1> QED
    BY <1>1, <1>2 DEF Set, Count, d

LEMMA SetSignedInUse ==
  ASSUME NEW p, InUse(p), NEW i \in DOMAIN p.data, NEW v \in Int
  PROVE  InUse(SetSigned(p, i, v)) /\ Count(SetSigned(p, i, v)) = Count(p)
  <1> DEFINE d == DropFacts(p)
  <1>1. InUse(d) /\ d.data = p.data /\ d.size = p.size
    BY DropFactsInUse
  <1> HIDE DEF d
  <1>2. InUse(Set(d, i, v)) /\ Count(Set(d, i, v)) = Count(d)
    BY <1>1, SetInUse
  <1>3. /\ InUse([d EXCEPT !.data[i] = Raw(Abs(d.size), v)])
        /\ Count([d EXCEPT !.data[i] = Raw(Abs(d.size), v)]) = Count(d)
    BY <1>1, AssignInUse
  <1>4. p.size < 0 => Abs(d.size) = -p.size
    BY <1>1 DEF Abs
  <1>5. Count(d) = Count(p)
    BY <1>1 DEF Count
  <1> QED
    BY <1>2, <1>3, <1>4, <1>5 DEF SetSigned, d

\* Appending where there is room.
LEMMA StoreInUse ==
  ASSUME NEW p, InUse(p), NEW v \in Int, Count(p) < p.capacity
  PROVE  InUse(Store(p, v))
  <1> DEFINE w == Raw(Abs(p.size), v)
             d == Append(p.data, w)
  <1>1. p \in PoolType /\ Sound(p) /\ p.size \in Sizes
    BY DEF InUse, Sound, Sizes, PoolType
  <1>2. w \in Word /\ w < Pow(Abs(p.size))
    BY <1>1, SizeFacts, RawRange
  <1> HIDE DEF w
  <1>3. p.data \in Seq(Word) /\ p.capacity \in Nat
    BY <1>1, Fields
  <1>4. /\ d \in Seq(Word) /\ Len(d) = Len(p.data) + 1
        /\ \A j \in 1 .. Len(p.data) : d[j] = p.data[j]
        /\ d[Len(p.data) + 1] = w
    BY <1>2, <1>3, AppendProperties
  <1>5. Len(d) <= p.capacity
    BY <1>3, <1>4 DEF Count
  <1>6. \A j \in DOMAIN d : d[j] < Pow(Abs(p.size))
    <2>1. \A j \in DOMAIN d : j \in 1 .. Len(p.data) \/ j = Len(p.data) + 1
      BY <1>3, <1>4
    <2>2. \A j \in 1 .. Len(p.data) : p.data[j] < Pow(Abs(p.size))
      BY <1>1, <1>3 DEF Sound
    <2> HIDE DEF d
    <2> QED
      BY <1>2, <1>4, <2>1, <2>2
  <1>7. Store(p, v) = [p EXCEPT !.data = d]
    BY DEF Store, w
  <1> HIDE DEF d
  <1>8. InUse([p EXCEPT !.data = d])
    BY <1>4, <1>5, <1>6, DataInUse
  <1> QED
    BY <1>7, <1>8

LEMMA PushFactsInUse ==
  ASSUME NEW p, InUse(p), NEW v \in Word
  PROVE  /\ InUse(PushFacts(p, v))
         /\ PushFacts(p, v).data = p.data /\ PushFacts(p, v).size = p.size
         /\ PushFacts(p, v).capacity = p.capacity
  <1> DEFINE empty  == Count(p) = 0
             summed == "SUMMARY" \in p.flags
             e  == Bump(p.epoch, 1)
             fl == IF KeepsOrder(p, v) THEN p.flags ELSE p.flags \ {"SORTED"}
             mn == IF summed /\ (empty \/ Less(p, v, p.smin)) THEN v ELSE p.smin
             mx == IF summed /\ (empty \/ Less(p, p.smax, v)) THEN v ELSE p.smax
             sm == IF ~summed THEN p.ssum ELSE IF empty THEN v ELSE Raw(K, p.ssum + v)
             q  == [p EXCEPT !.epoch = e, !.flags = fl, !.smin = mn, !.smax = mx, !.ssum = sm]
  <1>1. p \in PoolType
    BY DEF InUse
  <1>2. e \in 0 .. EpochMod - 1 /\ fl \in SUBSET Flags /\ mn \in Word /\ mx \in Word
    BY <1>1, Fields, BumpRange
  <1>3. sm \in Word
    <2>1. p.ssum \in Word /\ p.ssum + v \in Int
      BY <1>1, Fields DEF Word
    <2>2. Raw(K, p.ssum + v) \in Word
      BY <2>1, RawRange, ClassAssumption DEF Classes
    <2> QED
      BY <2>1, <2>2
  <1>4. PushFacts(p, v) = q
    BY DEF PushFacts
  <1> HIDE DEF e, fl, mn, mx, sm
  <1>5. q \in PoolType
    BY <1>1, <1>2, <1>3 DEF PoolType
  <1>6. /\ q.data = p.data /\ q.size = p.size /\ q.capacity = p.capacity
        /\ q.byte_cap = p.byte_cap /\ q.buf = p.buf
    BY <1>1 DEF PoolType
  <1> HIDE DEF q
  <1>7. InUse(q)
    BY <1>5, <1>6, SameBlock
  <1> QED
    BY <1>4, <1>6, <1>7

\* The grown capacity is larger.
LEMMA GrownLarger ==
  ASSUME NEW cap \in Nat
  PROVE  GrownCap(cap) \in Nat /\ GrownCap(cap) > cap
  <1>1. (cap * 3) \div 2 \in Nat
    OBVIOUS
  <1> QED
    BY <1>1, MemoryAssumption DEF GrownCap

\* The growth of a pool in use does not wrap.
LEMMA GrownAskable ==
  ASSUME NEW p, InUse(p)
  PROVE  Askable(GrownCap(p.capacity))
  <1>1. p.capacity \in Nat /\ p.capacity <= Memory /\ Memory \in Nat /\ InitialCap \in Nat
    BY CountSmall, MemoryAssumption
  <1>2. GrownCap(p.capacity) \in Nat /\ GrownCap(p.capacity) <= 2 * Memory + InitialCap + 2
    BY <1>1 DEF GrownCap
  <1> QED
    BY <1>2, FarFromWrapping

\* A reservation that succeeds gives the capacity asked for.
LEMMA ReserveRoom ==
  ASSUME NEW p, InUse(p), NEW cap \in Nat, NEW ok \in BOOLEAN, Reserve(p, cap, ok).ret
  PROVE  /\ Reserve(p, cap, ok).pool.capacity >= cap
         /\ Reserve(p, cap, ok).pool.data = p.data
         /\ Reserve(p, cap, ok).pool.size = p.size
  <1>1. p \in PoolType /\ p.capacity \in Nat
    BY Fields DEF InUse
  <1>2. CASE cap <= p.capacity
    BY <1>1, <1>2 DEF Reserve, Result
  <1>3. CASE ~ cap <= p.capacity
    <2> DEFINE a == Adopt(p, AlignUp(cap * Bytes(p.size)), cap)
    <2>1. Reserve(p, cap, ok).pool = [a EXCEPT !.flags = @ \ {"EXTERNAL"}]
      BY <1>3 DEF Reserve, Result
    <2>2. a.capacity = cap /\ a.data = p.data /\ a.size = p.size /\ DOMAIN a = DOMAIN p
      BY <1>1 DEF Adopt, PoolType
    <2> HIDE DEF a
    <2> QED
      BY <1>1, <2>1, <2>2
  <1> QED
    BY <1>2, <1>3

LEMMA PushInUse ==
  ASSUME NEW p, InUse(p), NEW v \in Word, NEW ok \in BOOLEAN
  PROVE  InUse(Push(p, v, ok).pool)
  <1> DEFINE q == PushFacts(p, v)
             g == Reserve(q, GrownCap(q.capacity), ok)
  <1>1. v \in Int
    BY DEF Word
  <1>2. InUse(q) /\ q.data = p.data /\ q.size = p.size /\ q.capacity = p.capacity
    BY PushFactsInUse
  <1>3. p.capacity \in Nat /\ Count(p) \in Nat
    BY Fields DEF InUse
  <1> HIDE DEF q
  <1>4. GrownCap(q.capacity) \in Nat /\ GrownCap(q.capacity) > p.capacity
    BY <1>2, <1>3, GrownLarger
  <1>g. Askable(GrownCap(q.capacity))
    BY <1>2, GrownAskable
  <1>5. InUse(g.pool)
    BY <1>2, <1>4, <1>g, ReserveInUse
  <1>6. ASSUME g.ret  PROVE InUse(Store(g.pool, v))
    <2>1. g.pool.capacity >= GrownCap(q.capacity) /\ g.pool.data = q.data
      BY <1>2, <1>4, <1>6, ReserveRoom
    <2>2. Count(p) <= p.capacity /\ Count(g.pool) = Count(p)
      BY <1>2, <2>1 DEF InUse, Sound, Count
    <2>3. g.pool.capacity \in Nat
      BY <1>5, Fields DEF InUse
    <2>4. Count(g.pool) < g.pool.capacity
      BY <1>3, <1>4, <2>1, <2>2, <2>3
    <2> HIDE DEF g
    <2> QED
      BY <1>1, <1>5, <2>4, StoreInUse
  <1>7. ASSUME Count(p) < p.capacity  PROVE InUse(Store(q, v))
    <2>1. Count(q) < q.capacity
      BY <1>2, <1>7 DEF Count
    <2> QED
      BY <1>1, <1>2, <2>1, StoreInUse
  <1> QED
    BY <1>2, <1>6, <1>7 DEF Push, Result, q, g

-----------------------------------------------------------------------------
(* Values and limits.                                                       *)

\* The signed reading of a raw value of a class.
LEMMA AsSignedRange ==
  ASSUME NEW c \in Classes, NEW r \in Nat, r < Pow(c)
  PROVE  AsSigned(c, r) \in Int /\ -Half[c] <= AsSigned(c, r) /\ AsSigned(c, r) < Half[c]
  <1>1. Half[c] \in Nat \ {0}
    BY PowFacts
  <1> QED
    BY <1>1 DEF AsSigned, Pow

LEMMA Conversions ==
  /\ K \in Classes /\ Half[K] \in Nat \ {0} /\ Word \subseteq Nat
  /\ \A v \in Int : U64(v) \in Word
  /\ \A u \in Word : I64(u) \in Int64
  <1>1. K \in Classes
    BY ClassAssumption DEF Classes
  <1>2. Half[K] \in Nat \ {0}
    BY <1>1, PowFacts
  <1>3. Word \subseteq Nat
    BY DEF Word
  <1>4. ASSUME NEW v \in Int  PROVE U64(v) \in Word
    BY <1>1, RawRange DEF U64
  <1>5. ASSUME NEW u \in Word  PROVE I64(u) \in Int64
    <2>1. u \in Nat /\ u < Pow(K)
      BY <1>2 DEF Word, Pow
    <2> QED
      BY <1>1, <1>2, <2>1, AsSignedRange DEF I64, Int64
  <1> QED
    BY <1>1, <1>2, <1>3, <1>4, <1>5

\* A narrower class holds smaller values.
LEMMA HalfMonotone ==
  ASSUME NEW c \in Classes
  PROVE  Half[c] <= Half[K] /\ Half[c] \in Nat \ {0} /\ Half[K] \in Nat \ {0}
  BY PowFacts, Conversions DEF Pow

\* The largest value of a class.
LEMMA MaxValueRange ==
  ASSUME NEW size \in Sizes
  PROVE  MaxValue(size) \in Word /\ MaxValue(size) = Pow(Abs(size)) - 1
  <1>1. Abs(size) \in Classes /\ size # 0
    BY SizeFacts DEF Sizes
  <1>2. Pow(Abs(size)) \in Nat \ {0, 1} /\ Pow(Abs(size)) <= Pow(K) /\ Pow(K) \in Nat
    BY <1>1, PowFacts, Conversions
  <1> QED
    BY <1>1, <1>2 DEF MaxValue, Word

\* An element read as signed lies within int64_t.
LEMMA GetSignedRange ==
  ASSUME NEW p, InUse(p), NEW i \in DOMAIN p.data
  PROVE  GetSigned(p, i) \in Int64
  <1>1. p \in PoolType /\ Sound(p) /\ p.data[i] \in Word /\ p.size \in Int
    BY Fields DEF InUse
  <1>2. CASE p.size < 0
    <2> DEFINE c == -p.size
    <2>1. c \in Classes /\ Abs(p.size) = c
      BY <1>1, <1>2, Fields, ClassAssumption DEF Abs, Classes
    <2>2. p.data[i] \in Nat /\ p.data[i] < Pow(c)
      BY <1>1, <2>1, Conversions DEF Sound
    <2> HIDE DEF c
    <2>3. /\ AsSigned(c, p.data[i]) \in Int
          /\ -Half[c] <= AsSigned(c, p.data[i]) /\ AsSigned(c, p.data[i]) < Half[c]
      BY <2>1, <2>2, AsSignedRange
    <2>4. AsSigned(c, p.data[i]) \in Int64
      BY <2>1, <2>3, HalfMonotone DEF Int64
    <2> QED
      BY <1>2, <2>4 DEF GetSigned, c
  <1>3. CASE ~ p.size < 0
    BY <1>1, <1>3, Conversions DEF GetSigned
  <1> QED
    BY <1>2, <1>3

\* An element as read: a uint64_t or, in a signed pool, an int64_t.
LEMMA ValueRange ==
  ASSUME NEW p, InUse(p), NEW i \in DOMAIN p.data
  PROVE  /\ Value(p, i) \in Int
         /\ IsSigned(p) => Value(p, i) \in Int64
         /\ ~IsSigned(p) => Value(p, i) \in Word
  <1>1. GetSigned(p, i) \in Int64
    BY GetSignedRange
  <1>2. p.data[i] \in Word
    BY Fields DEF InUse
  <1>3. Int64 \subseteq Int /\ Word \subseteq Int
    BY Conversions DEF Int64
  <1> QED
    BY <1>1, <1>2, <1>3 DEF Value, Get

\* Re-storing every element in class c.
LEMMA RecastType ==
  ASSUME NEW p, InUse(p), NEW c \in Classes
  PROVE  /\ Recast(p, c) \in Seq(Word) /\ Len(Recast(p, c)) = Count(p)
         /\ \A i \in DOMAIN Recast(p, c) : Recast(p, c)[i] < Pow(c)
  <1>1. Count(p) \in Nat /\ DOMAIN p.data = 1 .. Count(p)
    BY Fields DEF InUse
  <1>2. \A i \in 1 .. Count(p) : Raw(c, Value(p, i)) \in Word /\ Raw(c, Value(p, i)) < Pow(c)
    BY <1>1, ValueRange, RawRange
  <1>3. Recast(p, c) = [i \in 1 .. Count(p) |-> Raw(c, Value(p, i))]
    BY <1>1 DEF Recast
  <1>4. Recast(p, c) \in [1 .. Count(p) -> Word]
    BY <1>2, <1>3
  <1> QED
    BY <1>1, <1>2, <1>3, <1>4

-----------------------------------------------------------------------------
(* Class changes.                                                           *)

\* The flag of a class is a flag.
LEMMA SignFlagType ==
  ASSUME NEW size, NEW flags \in SUBSET Flags
  PROVE  SignFlag(size) \in SUBSET Flags /\ Resigned(flags, size) \in SUBSET Flags
  BY DEF SignFlag, Resigned, Flags

LEMMA PromoteInUse ==
  ASSUME NEW p, InUse(p), NEW size \in Sizes, NEW ok \in BOOLEAN
  PROVE  InUse(Promote(p, size, ok).pool)
  <1> DEFINE data  == Recast(p, Abs(size))
             flags == SignFlag(size)
  <1>1. p \in PoolType /\ Count(p) \in Nat /\ Abs(size) \in Classes
    BY Fields, SizeFacts DEF InUse
  <1>2. /\ data \in Seq(Word) /\ Len(data) = Count(p)
        /\ \A i \in DOMAIN data : data[i] < Pow(Abs(size))
    BY <1>1, RecastType
  <1>3. flags \in SUBSET Flags
    BY <1>1, Fields, SignFlagType
  <1>4. ASSUME AlignUp(Count(p) * Bytes(size)) <= Memory
        PROVE  InUse([Adopt(p, AlignUp(Count(p) * Bytes(size)), Count(p)) EXCEPT
                        !.data = data, !.size = size, !.flags = flags])
    <2> HIDE DEF data, flags
    <2>1. Len(data) <= Count(p) /\ Count(p) * Bytes(size) <= AlignUp(Count(p) * Bytes(size))
      BY <1>1, <1>2, RoomFor
    <2> QED
      BY <1>1, <1>2, <1>3, <1>4, <2>1, AdoptInUse
  <1> QED
    BY <1>4 DEF Promote, Result, CanAlloc

LEMMA ReclassInUse ==
  ASSUME NEW p, InUse(p), NEW size \in Sizes, NEW ok \in BOOLEAN
  PROVE  InUse(Reclass(p, size, ok).pool)
  <1>1. p \in PoolType /\ Sound(p) /\ Count(p) \in Nat /\ Abs(size) \in Classes
    BY Fields, SizeFacts DEF InUse
  <1> DEFINE data  == Recast(p, Abs(size))
             flags == Resigned(p.flags, size)
  <1>2. /\ data \in Seq(Word) /\ Len(data) = Count(p)
        /\ \A i \in DOMAIN data : data[i] < Pow(Abs(size))
    BY <1>1, RecastType
  <1>3. flags \in SUBSET Flags
    BY <1>1, Fields, SignFlagType
  <1>4. ASSUME AlignUp(Count(p) * Bytes(size)) <= Memory
        PROVE  InUse([Adopt(p, AlignUp(Count(p) * Bytes(size)), Count(p)) EXCEPT
                        !.data = data, !.size = size, !.flags = flags])
    <2> HIDE DEF data, flags
    <2>1. Len(data) <= Count(p) /\ Count(p) * Bytes(size) <= AlignUp(Count(p) * Bytes(size))
      BY <1>1, <1>2, RoomFor
    <2> QED
      BY <1>1, <1>2, <1>3, <1>4, <2>1, AdoptInUse
  <1>5. ASSUME Count(p) = 0
        PROVE  InUse(RecapEmpty([p EXCEPT !.size = size, !.flags = flags]))
    <2> DEFINE r == [p EXCEPT !.size = size, !.flags = flags]
    <2>1. size \in -K .. K
      BY SizeFacts
    <2> HIDE DEF flags
    <2>2. /\ r \in PoolType /\ r.data = p.data /\ r.size = size
          /\ r.byte_cap = p.byte_cap /\ r.buf = p.buf
      BY <1>1, <1>3, <2>1 DEF PoolType
    <2> HIDE DEF r
    <2>3. Count(r) = 0 /\ (r.byte_cap > 0 => r.buf # "null") /\ r.byte_cap <= Memory
      BY <1>1, <1>5, <2>2 DEF Sound, Count
    <2>4. InUse(RecapEmpty(r))
      BY <2>2, <2>3, RecapInUse
    <2> QED
      BY <2>4 DEF r
  <1> QED
    BY <1>4, <1>5 DEF Reclass, Result, CanAlloc

LEMMA WidenInUse ==
  ASSUME NEW p, InUse(p), NEW size \in Sizes, NEW ok \in BOOLEAN
  PROVE  InUse(Widen(p, size, ok).pool)
  <1>1. ASSUME Count(p) = 0  PROVE InUse(RecapEmpty([p EXCEPT !.size = size]))
    <2> DEFINE r == [p EXCEPT !.size = size]
    <2>1. p \in PoolType /\ Sound(p) /\ size \in -K .. K
      BY SizeFacts DEF InUse
    <2>2. /\ r \in PoolType /\ r.data = p.data /\ r.size = size
          /\ r.byte_cap = p.byte_cap /\ r.buf = p.buf
      BY <2>1 DEF PoolType
    <2> HIDE DEF r
    <2>3. Count(r) = 0 /\ (r.byte_cap > 0 => r.buf # "null") /\ r.byte_cap <= Memory
      BY <1>1, <2>1, <2>2 DEF Sound, Count
    <2>4. InUse(RecapEmpty(r))
      BY <2>2, <2>3, RecapInUse
    <2> QED
      BY <2>4 DEF r
  <1>2. InUse(Promote(p, size, ok).pool)
    BY PromoteInUse
  <1> QED
    BY <1>1, <1>2 DEF Widen, Result

LEMMA DemoteInUse ==
  ASSUME NEW p, InUse(p), NEW size \in Sizes, NEW ok \in BOOLEAN
  PROVE  InUse(Demote(p, size, ok).pool)
  <1> DEFINE bytes == AlignUp(Count(p) * Bytes(size))
             a == Adopt(p, bytes, Count(p))
             q == [a EXCEPT !.size = size]
  <1>1. p \in PoolType /\ Sound(p) /\ Count(p) \in Nat /\ Abs(size) \in Classes /\ size \in -K .. K
    BY Fields, SizeFacts DEF InUse
  <1>2. Count(p) * Bytes(size) \in Nat
    BY <1>1, SizeFacts
  <1>3. bytes \in Nat /\ Count(p) * Bytes(size) <= bytes
    BY <1>2, AlignUpBound, RoomFor
  <1>4. ASSUME \A i \in DOMAIN p.data : Get(p, i) <= MaxValue(size), bytes <= Memory  PROVE InUse(q)
    <2>1. \A i \in DOMAIN p.data : p.data[i] < Pow(Abs(size))
      <3>1. MaxValue(size) = Pow(Abs(size)) - 1 /\ Pow(Abs(size)) \in Nat
        BY <1>1, MaxValueRange, PowFacts
      <3>2. \A i \in DOMAIN p.data : p.data[i] \in Nat
        BY <1>1, Fields, Conversions
      <3> QED
        BY <1>4, <3>1, <3>2 DEF Get
    <2> HIDE DEF bytes
    <2>2. /\ a \in PoolType /\ a.byte_cap = bytes /\ a.capacity = Count(p) /\ a.buf = "heap"
          /\ a.data = p.data
      BY ZenonT(60), <1>1, <1>3, AdoptType
    <2> HIDE DEF a
    <2>3. /\ q \in PoolType /\ q.data = p.data /\ q.size = size /\ q.byte_cap = bytes
          /\ q.capacity = Count(p) /\ q.buf = "heap"
      BY <1>1, <2>2 DEF PoolType
    <2> HIDE DEF q
    <2>4. Sound(q)
      BY <1>1, <1>3, <1>4, <2>1, <2>3 DEF Sound, Count, Sizes
    <2> QED
      BY <2>3, <2>4 DEF InUse
  <1>5. ASSUME \E i \in DOMAIN p.data : Get(p, i) > MaxValue(size)
        PROVE  Demote(p, size, ok).pool = p
    BY <1>5 DEF Demote, Result
  <1>6. Demote(p, size, ok).pool = p \/ (Demote(p, size, ok).pool = q /\ bytes <= Memory)
    BY DEF Demote, Result, CanAlloc
  <1>7. (\A i \in DOMAIN p.data : Get(p, i) <= MaxValue(size))
        \/ (\E i \in DOMAIN p.data : Get(p, i) > MaxValue(size))
    <2>1. MaxValue(size) \in Nat /\ \A i \in DOMAIN p.data : p.data[i] \in Nat
      BY <1>1, MaxValueRange, Fields, Conversions
    <2> QED
      BY <2>1 DEF Get
  <1> QED
    BY <1>4, <1>5, <1>6, <1>7

\* The class the elements are fitted to.
LEMMA FitClassInUse ==
  ASSUME NEW p, InUse(p), NEW ok \in BOOLEAN
  PROVE  InUse(FitClass(p, ok).pool)
  <1>1. p \in PoolType
    BY DEF InUse
  <1>2. ASSUME IsSigned(p)  PROVE ClassifySigned(ValueSet(p)) \in Sizes
    <2>1. \A i \in DOMAIN p.data : Value(p, i) \in Int64
      BY <1>2, ValueRange
    <2>2. SFits(K, ValueSet(p))
      BY <2>1, Conversions DEF SFits, ValueSet, Int64
    <2>3. -ClassifySigned(ValueSet(p)) \in Classes /\ ClassifySigned(ValueSet(p)) \in Int
      BY <2>2, Conversions, ClassifySignedFits
    <2> QED
      BY <2>3, ClassAssumption DEF Classes, Sizes
  <1>3. Classify(RawSet(p)) \in Sizes
    <2>1. \A i \in DOMAIN p.data : p.data[i] \in Word
      BY <1>1, Fields
    <2>2. UFits(K, RawSet(p))
      BY <2>1, Conversions DEF UFits, RawSet, Word, Pow
    <2>3. Classify(RawSet(p)) \in Classes
      BY <2>2, Conversions, ClassifyFits
    <2> QED
      BY <2>3, ClassAssumption DEF Classes, Sizes
  <1> DEFINE target == IF IsSigned(p) THEN ClassifySigned(ValueSet(p)) ELSE Classify(RawSet(p))
  <1>4. target \in Sizes
    BY <1>2, <1>3
  <1>5. FitClass(p, ok).pool \in {p, Reclass(p, target, ok).pool}
    BY DEF FitClass, Result
  <1> HIDE DEF target
  <1> QED
    BY <1>4, <1>5, ReclassInUse

LEMMA FitClassSignednessInUse ==
  ASSUME NEW p, InUse(p), NEW ok \in BOOLEAN
  PROVE  InUse(FitClassSignedness(p, ok).pool)
  <1> DEFINE target == Classify(ValueSet(p))
  <1>1. ASSUME IsSigned(p)  PROVE target \in Sizes
    <2>1. \A i \in DOMAIN p.data : Value(p, i) \in Int64
      BY <1>1, ValueRange
    <2>2. UFits(K, ValueSet(p))
      BY <2>1, Conversions DEF UFits, ValueSet, Int64, Pow
    <2>3. target \in Classes
      BY <2>2, Conversions, ClassifyFits
    <2> QED
      BY <2>3, ClassAssumption DEF Classes, Sizes
  <1>2. InUse(FitClass(p, ok).pool)
    BY FitClassInUse
  <1>3. IsSigned(p) => InUse(Reclass(p, target, ok).pool)
    BY <1>1, ReclassInUse
  <1>4. CASE Count(p) = 0
    BY <1>4 DEF FitClassSignedness, Result
  <1>5. CASE Count(p) # 0 /\ (~IsSigned(p) \/ \E v \in ValueSet(p) : v < 0)
    BY <1>2, <1>5 DEF FitClassSignedness
  <1>6. CASE Count(p) # 0 /\ ~(~IsSigned(p) \/ \E v \in ValueSet(p) : v < 0)
    <2>1. FitClassSignedness(p, ok) =
            IF target >= Abs(p.size) THEN Result(p, TRUE) ELSE Reclass(p, target, ok)
      BY <1>6 DEF FitClassSignedness
    <2> HIDE DEF target
    <2> QED
      BY <1>3, <1>6, <2>1 DEF Result
  <1> QED
    BY <1>4, <1>5, <1>6

-----------------------------------------------------------------------------
(* Checked and adaptive pushes.                                             *)

\* The code returned says nothing else of the pool.
LEMMA CodedPool ==
  ASSUME NEW p, NEW v, NEW ok
  PROVE  Coded(Push(p, v, ok)).pool = Push(p, v, ok).pool
  BY DEF Coded, Push, Result, Reserve

LEMMA PushCheckedInUse ==
  ASSUME NEW p, InUse(p), NEW v \in Word, NEW ok \in BOOLEAN
  PROVE  InUse(PushChecked(p, v, ok).pool)
  <1>1. InUse(Push(p, v, ok).pool)
    BY PushInUse
  <1> QED
    BY <1>1, CodedPool DEF PushChecked, Result

LEMMA PushSignedCheckedInUse ==
  ASSUME NEW p, InUse(p), NEW v \in Int, NEW ok \in BOOLEAN
  PROVE  InUse(PushSignedChecked(p, v, ok).pool)
  <1>1. InUse(Push(p, U64(v), ok).pool)
    BY PushInUse, Conversions
  <1> QED
    BY <1>1, CodedPool DEF PushSignedChecked, Result

LEMMA PushSaturateInUse ==
  ASSUME NEW p, InUse(p), NEW v \in Word, NEW ok \in BOOLEAN
  PROVE  InUse(PushSaturate(p, v, ok).pool)
  <1>1. p.size \in Sizes
    BY DEF InUse, Sound, Sizes, PoolType
  <1>2. Saturated(p, v) \in Word
    BY <1>1, MaxValueRange DEF Saturated
  <1> QED
    BY <1>2, PushInUse DEF PushSaturate

LEMMA PushManyInUse ==
  ASSUME NEW p, InUse(p), NEW a \in Word, NEW b \in Word, NEW ok \in BOOLEAN
  PROVE  InUse(PushMany(p, a, b, ok).pool)
  <1> DEFINE room  == Reserve(p, Count(p) + 2, ok)
             first == Push(room.pool, a, TRUE)
  <1>1. Count(p) + 2 \in Nat
    BY Fields DEF InUse
  <1>2. InUse(room.pool)
    BY <1>1, CountAskable, ReserveInUse
  <1> HIDE DEF room
  <1>3. InUse(first.pool)
    BY <1>2, PushInUse
  <1> HIDE DEF first
  <1>4. InUse(Push(first.pool, b, TRUE).pool)
    BY <1>3, PushInUse
  <1> QED
    BY <1>2, <1>4 DEF PushMany, room, first

LEMMA PushAdaptiveInUse ==
  ASSUME NEW p, InUse(p), NEW v \in Word, NEW ok1 \in BOOLEAN, NEW ok2 \in BOOLEAN
  PROVE  InUse(PushAdaptive(p, v, ok1, ok2).pool)
  <1> DEFINE w == IF v > MaxValue(p.size) THEN Widen(p, Classify({v}), ok1) ELSE Result(p, TRUE)
  <1>1. Classify({v}) \in Sizes
    <2>1. UFits(K, {v})
      BY Conversions DEF UFits, Word, Pow
    <2>2. Classify({v}) \in Classes
      BY <2>1, Conversions, ClassifyFits
    <2> QED
      BY <2>2, ClassAssumption DEF Classes, Sizes
  <1>2. InUse(w.pool)
    BY <1>1, WidenInUse DEF Result
  <1> HIDE DEF w
  <1>3. InUse(Push(w.pool, v, ok2).pool)
    BY <1>2, PushInUse
  <1> QED
    BY <1>2, <1>3, CodedPool DEF PushAdaptive, Result, w

LEMMA PushSignedAdaptiveInUse ==
  ASSUME NEW p, InUse(p), NEW v \in Int64, NEW ok1 \in BOOLEAN, NEW ok2 \in BOOLEAN
  PROVE  InUse(PushSignedAdaptive(p, v, ok1, ok2).pool)
  <1> DEFINE need == ClassifySigned({v})
             w == IF \/ InRange(p, v)
                     \/ Count(p) # 0 /\ Abs(need) <= Abs(p.size)
                  THEN Result(p, TRUE) ELSE Widen(p, need, ok1)
  <1>1. need \in Sizes
    <2>1. SFits(K, {v})
      BY Conversions DEF SFits, Int64
    <2>2. -need \in Classes /\ need \in Int
      BY <2>1, Conversions, ClassifySignedFits
    <2> HIDE DEF need
    <2> QED
      BY <2>2, ClassAssumption DEF Classes, Sizes
  <1> HIDE DEF need
  <1>2. InUse(w.pool)
    BY <1>1, WidenInUse DEF Result
  <1>3. U64(v) \in Word
    BY Conversions DEF Int64
  <1> HIDE DEF w
  <1>4. InUse(Push(w.pool, U64(v), ok2).pool)
    BY <1>2, <1>3, PushInUse
  <1> QED
    BY <1>2, <1>4, CodedPool DEF PushSignedAdaptive, Result, w, need

-----------------------------------------------------------------------------
(* Whole-column writes and removals.                                        *)

LEMMA RewriteInUse ==
  ASSUME NEW p, InUse(p), NEW f \in [Word -> Int]
  PROVE  InUse(Rewrite(p, f))
  <1> DEFINE d == [i \in DOMAIN p.data |-> Raw(Abs(p.size), f[p.data[i]])]
  <1>1. p \in PoolType /\ Sound(p) /\ p.size \in Sizes
    BY DEF InUse, Sound, Sizes, PoolType
  <1>2. Abs(p.size) \in Classes
    BY <1>1, SizeFacts
  <1>3. Count(p) \in Nat /\ DOMAIN p.data = 1 .. Count(p)
    BY <1>1, Fields
  <1>4. \A i \in DOMAIN p.data : f[p.data[i]] \in Int
    BY <1>1, Fields
  <1>5. \A i \in DOMAIN p.data : d[i] \in Word /\ d[i] < Pow(Abs(p.size))
    BY <1>2, <1>4, RawRange
  <1>6. DOMAIN d = 1 .. Count(p)
    BY <1>3
  <1>7. Rewrite(p, f) = [p EXCEPT !.data = d]
    BY DEF Rewrite
  <1> HIDE DEF d
  <1>8. d \in Seq(Word) /\ Len(d) = Count(p)
    <2>1. d = [i \in 1 .. Count(p) |-> d[i]]
      BY <1>3 DEF d
    <2>2. d \in [1 .. Count(p) -> Word]
      BY <1>3, <1>5, <2>1
    <2> QED
      BY <1>3, <1>6, <2>2
  <1>9. Len(d) <= p.capacity
    BY <1>1, <1>8 DEF Sound
  <1>10. \A i \in DOMAIN d : d[i] < Pow(Abs(p.size))
    BY <1>3, <1>5, <1>6
  <1>11. InUse([p EXCEPT !.data = d])
    BY <1>1, <1>8, <1>9, <1>10, DataInUse
  <1> QED
    BY <1>7, <1>11

LEMMA AddScalarInUse ==
  ASSUME NEW p, InUse(p), NEW s \in Word
  PROVE  InUse(AddScalar(p, s))
  <1>1. [x \in Word |-> x + s] \in [Word -> Int]
    BY Conversions
  <1> QED
    BY <1>1, DropFactsInUse, RewriteInUse DEF AddScalar

LEMMA MulScalarInUse ==
  ASSUME NEW p, InUse(p), NEW s \in Word
  PROVE  InUse(MulScalar(p, s))
  <1>1. [x \in Word |-> x * s] \in [Word -> Int]
    BY Conversions
  <1> QED
    BY <1>1, DropFactsInUse, RewriteInUse DEF MulScalar

LEMMA TransformInUse ==
  ASSUME NEW p, InUse(p), NEW f \in [Word -> Word]
  PROVE  InUse(Transform(p, f))
  <1> DEFINE r == Rewrite(DropFacts(p), f)
             e == Bump(p.epoch, Count(p))
             q == [r EXCEPT !.epoch = e]
  <1>1. f \in [Word -> Int]
    <2>1. Word \subseteq Int
      BY Conversions
    <2>2. \A x \in Word : f[x] \in Word
      OBVIOUS
    <2> QED
      BY <2>1, <2>2
  <1>2. InUse(r)
    BY <1>1, DropFactsInUse, RewriteInUse
  <1>3. e \in 0 .. EpochMod - 1
    BY Fields, BumpRange DEF InUse
  <1> HIDE DEF r, e
  <1>4. /\ q \in PoolType /\ q.data = r.data /\ q.size = r.size /\ q.capacity = r.capacity
        /\ q.byte_cap = r.byte_cap /\ q.buf = r.buf
    BY <1>2, <1>3 DEF InUse, PoolType
  <1> HIDE DEF q
  <1>5. InUse(q)
    BY <1>2, <1>4, SameBlock
  <1> QED
    BY <1>5 DEF Transform, q, r, e

\* No elements fit any block.
LEMMA ClearInUse ==
  ASSUME NEW p, InUse(p)
  PROVE  InUse(Clear(p))
  <1> DEFINE d == DropFacts(p)
             none == <<>>
  <1>1. InUse(d)
    BY DropFactsInUse
  <1> HIDE DEF d
  <1>2. none \in Seq(Word) /\ Len(none) = 0 /\ \A i \in DOMAIN none : none[i] < Pow(Abs(d.size))
    OBVIOUS
  <1>3. d.capacity \in Nat
    BY <1>1, Fields DEF InUse
  <1>4. InUse([d EXCEPT !.data = none])
    <2> HIDE DEF none
    <2>1. Len(none) <= d.capacity
      BY <1>2, <1>3
    <2> QED
      BY <1>1, <1>2, <2>1, DataInUse
  <1> QED
    BY <1>4 DEF Clear, d

LEMMA RemoveSwapInUse ==
  ASSUME NEW p, InUse(p), NEW i \in DOMAIN p.data
  PROVE  InUse(RemoveSwap(p, i))
  <1> DEFINE last == Count(p)
             q == IF i = last THEN p
                  ELSE IF IsSigned(p) THEN SetSigned(p, i, GetSigned(p, last))
                  ELSE Set(p, i, Get(p, last))
  <1>1. p \in PoolType /\ Count(p) \in Nat /\ DOMAIN p.data = 1 .. Count(p)
    BY Fields DEF InUse
  <1>2. last \in DOMAIN p.data
    BY <1>1
  <1>3. GetSigned(p, last) \in Int /\ Get(p, last) \in Int
    <2>1. GetSigned(p, last) \in Int64 /\ p.data[last] \in Word
      BY <1>1, <1>2, GetSignedRange, Fields
    <2>2. Int64 \subseteq Int /\ Word \subseteq Int
      BY Conversions DEF Int64
    <2> QED
      BY <2>1, <2>2 DEF Get
  <1>4. InUse(q) /\ Count(q) = last
    BY <1>3, SetInUse, SetSignedInUse
  <1>5. RemoveSwap(p, i) = [q EXCEPT !.data = SubSeq(q.data, 1, last - 1)]
    BY DEF RemoveSwap
  <1> HIDE DEF q, last
  <1> DEFINE d == SubSeq(q.data, 1, last - 1)
  <1>6. /\ last \in Nat /\ last > 0 /\ q.data \in Seq(Word) /\ q.capacity \in Nat
        /\ Len(q.data) = last /\ Sound(q)
    BY <1>1, <1>2, <1>4, Fields DEF InUse, Count, last
  <1>7. \A j \in 1 .. last - 1 : q.data[j] \in Word /\ q.data[j] < Pow(Abs(q.size))
    BY <1>6 DEF Sound
  <1>8. /\ d \in Seq(Word) /\ Len(d) = last - 1
        /\ \A j \in 1 .. last - 1 : d[j] = q.data[j]
    BY <1>6, <1>7
  <1>9. Len(d) <= q.capacity
    BY <1>6, <1>8 DEF Sound, Count
  <1>10. \A j \in DOMAIN d : d[j] < Pow(Abs(q.size))
    <2> HIDE DEF d
    <2> QED
      BY <1>6, <1>7, <1>8
  <1>11. RemoveSwap(p, i) = [q EXCEPT !.data = d]
    BY <1>5
  <1> HIDE DEF d
  <1>12. InUse([q EXCEPT !.data = d])
    BY <1>4, <1>8, <1>9, <1>10, DataInUse
  <1> QED
    BY <1>11, <1>12

-----------------------------------------------------------------------------
(* Facts, order, deduplication.                                             *)

\* A flag is raised.
LEMMA FlagInUse ==
  ASSUME NEW p, InUse(p), NEW flags \in SUBSET Flags
  PROVE  InUse([p EXCEPT !.flags = flags])
  <1> DEFINE q == [p EXCEPT !.flags = flags]
  <1>1. /\ q \in PoolType /\ q.data = p.data /\ q.size = p.size /\ q.capacity = p.capacity
        /\ q.byte_cap = p.byte_cap /\ q.buf = p.buf
    BY DEF InUse, PoolType
  <1> HIDE DEF q
  <1>2. InUse(q)
    BY <1>1, SameBlock
  <1> QED
    BY <1>2 DEF q

\* A summary is recorded.
LEMMA RecordedInUse ==
  ASSUME NEW p, InUse(p), NEW mn \in Word, NEW mx \in Word, NEW sm \in Word
  PROVE  InUse(Recorded(p, mn, mx, sm))
  <1> DEFINE flags == p.flags \cup {"SUMMARY"}
             q == [p EXCEPT !.smin = mn, !.smax = mx, !.ssum = sm, !.flags = flags]
  <1>1. p \in PoolType /\ flags \in SUBSET Flags
    BY Fields DEF InUse, Flags
  <1> HIDE DEF flags
  <1>2. /\ q \in PoolType /\ q.data = p.data /\ q.size = p.size /\ q.capacity = p.capacity
        /\ q.byte_cap = p.byte_cap /\ q.buf = p.buf
    BY <1>1 DEF PoolType
  <1> HIDE DEF q
  <1>3. InUse(q)
    BY <1>2, SameBlock
  <1> QED
    BY <1>3 DEF Recorded, q, flags

LEMMA SummarizeInUse ==
  ASSUME NEW p, InUse(p), NEW q \in Summarize(p)
  PROVE  InUse(q)
  <1>1. 0 \in Word
    BY PowFacts, Conversions DEF Word
  <1>2. q = p \/ \E mn, mx, sm \in Word : q = Recorded(p, mn, mx, sm)
    BY <1>1 DEF Summarize
  <1> QED
    BY <1>2, RecordedInUse

LEMMA SummarizeEmptyInUse ==
  ASSUME NEW p, InUse(p)
  PROVE  InUse(SummarizeEmpty(p))
  <1>1. 0 \in Word
    BY PowFacts, Conversions DEF Word
  <1> QED
    BY <1>1, RecordedInUse DEF SummarizeEmpty

LEMMA MarkSortedInUse ==
  ASSUME NEW p, InUse(p)
  PROVE  InUse(MarkSorted(p))
  <1>1. p.flags \cup {"SORTED"} \in SUBSET Flags
    BY Fields DEF InUse, Flags
  <1> QED
    BY <1>1, FlagInUse DEF MarkSorted

\* Any selection of the elements, no longer than they were, fits the block.
LEMMA SelectionInUse ==
  ASSUME NEW p, InUse(p), NEW m \in Nat, m <= Count(p), NEW f \in [1 .. m -> DOMAIN p.data]
  PROVE  /\ InUse([p EXCEPT !.data = [j \in 1 .. m |-> p.data[f[j]]]])
         /\ Len([j \in 1 .. m |-> p.data[f[j]]]) = m
  <1> DEFINE d == [j \in 1 .. m |-> p.data[f[j]]]
  <1>1. p \in PoolType /\ Sound(p)
    BY DEF InUse
  <1>2. \A i \in DOMAIN p.data : p.data[i] \in Word /\ p.data[i] < Pow(Abs(p.size))
    BY <1>1, Fields DEF Sound
  <1>3. \A j \in 1 .. m : d[j] \in Word /\ d[j] < Pow(Abs(p.size))
    BY <1>2
  <1>4. d \in [1 .. m -> Word] /\ DOMAIN d = 1 .. m
    BY <1>3
  <1> HIDE DEF d
  <1>5. d \in Seq(Word) /\ Len(d) = m
    BY <1>4
  <1>6. Len(d) <= p.capacity
    <2>1. Count(p) \in Nat /\ p.capacity \in Nat /\ Count(p) <= p.capacity
      BY <1>1, Fields DEF Sound
    <2> QED
      BY <1>5, <2>1
  <1>7. \A j \in DOMAIN d : d[j] < Pow(Abs(p.size))
    BY <1>3, <1>4
  <1>8. InUse([p EXCEPT !.data = d])
    BY <1>5, <1>6, <1>7, DataInUse
  <1> QED
    BY <1>5, <1>8 DEF d

LEMMA SortInUse ==
  ASSUME NEW p, InUse(p), NEW q \in Sort(p)
  PROVE  InUse(q)
  <1>1. CASE q = p
    BY <1>1
  <1>2. CASE q \in SortResults(p)
    <2>1. PICK f \in Rearrangements(Count(p)) :
            q = [p EXCEPT !.data = [i \in 1 .. Count(p) |-> p.data[f[i]]],
                          !.flags = p.flags \cup {"SORTED"}]
      BY <1>2 DEF SortResults
    <2> DEFINE d == [i \in 1 .. Count(p) |-> p.data[f[i]]]
               r == [p EXCEPT !.data = d]
               flags == p.flags \cup {"SORTED"}
    <2>2. p \in PoolType /\ Count(p) \in Nat /\ DOMAIN p.data = 1 .. Count(p)
      BY Fields DEF InUse
    <2>3. InUse(r)
      BY <2>2, SelectionInUse DEF Rearrangements
    <2>4. flags \in SUBSET Flags
      BY <2>2, Fields DEF Flags
    <2>5. q = [r EXCEPT !.flags = flags]
      <3> HIDE DEF d, flags
      <3>1. q = [p EXCEPT !.data = d, !.flags = flags]
        BY <2>1 DEF d, flags
      <3> QED
        BY <2>2, <3>1 DEF PoolType
    <2> HIDE DEF r, flags
    <2> QED
      BY <2>3, <2>4, <2>5, FlagInUse
  <1> QED
    BY <1>1, <1>2 DEF Sort

LEMMA UniqueSortedInUse ==
  ASSUME NEW p, InUse(p), NEW ok \in BOOLEAN, NEW q \in UniqueSorted(p, ok)
  PROVE  InUse(q)
  <1>1. ASSUME NEW d \in Compactions(p)  PROVE InUse(Compacted(p, d))
    <2>1. p \in PoolType /\ Count(p) \in Nat /\ DOMAIN p.data = 1 .. Count(p)
      BY Fields DEF InUse
    <2>a. PICK m \in 1 .. Count(p) : \E f \in [1 .. m -> RunStarts(p)] :
            d = [j \in 1 .. m |-> p.data[f[j]]]
      BY <1>1 DEF Compactions
    <2>2. PICK f \in [1 .. m -> RunStarts(p)] : d = [j \in 1 .. m |-> p.data[f[j]]]
      BY <2>a
    <2>3. m \in Nat /\ m <= Count(p) /\ f \in [1 .. m -> DOMAIN p.data]
      BY <2>1, <2>2 DEF RunStarts
    <2>4. InUse([p EXCEPT !.data = d]) /\ Len(d) = m
      BY <2>2, <2>3, SelectionInUse
    <2> DEFINE r == DropFacts(p)
               e == Bump(p.epoch, Len(d) - 1)
    <2>5. InUse(r) /\ r.data = p.data /\ Count(r) = Count(p)
      BY DropFactsInUse DEF Count
    <2>6. InUse([r EXCEPT !.data = d])
      <3> HIDE DEF r
      <3> QED
        BY <2>2, <2>3, <2>5, SelectionInUse
    <2>7. e \in 0 .. EpochMod - 1
      BY <2>1, <2>2, <2>4, Fields, BumpRange
    <2>8. InUse([r EXCEPT !.data = d, !.epoch = e])
      <3> DEFINE s == [r EXCEPT !.data = d]
                 t == [r EXCEPT !.data = d, !.epoch = e]
      <3> HIDE DEF r, e
      <3>1. r \in PoolType /\ s \in PoolType
        BY <2>5, <2>6 DEF InUse
      <3>2. d \in Seq(Word)
        BY <3>1 DEF PoolType
      <3>3. /\ t \in PoolType /\ t.data = s.data /\ t.size = s.size /\ t.capacity = s.capacity
            /\ t.byte_cap = s.byte_cap /\ t.buf = s.buf
        BY <2>7, <3>1, <3>2 DEF PoolType
      <3> HIDE DEF s, t
      <3>4. InUse(t)
        BY <2>6, <3>3, SameBlock DEF s
      <3> QED
        BY <3>4 DEF t
    <2> QED
      BY <2>4, <2>8 DEF Compacted
  <1>2. CASE q = p
    BY <1>2
  <1>3. CASE q \in {FitClass(Compacted(p, d), ok).pool : d \in Compactions(p)}
    BY <1>1, <1>3, FitClassInUse
  <1> QED
    BY <1>2, <1>3 DEF UniqueSorted

-----------------------------------------------------------------------------
(* Creation and release.                                                    *)

\* A zeroed structure.
LEMMA ZeroedType ==
  ASSUME NEW heap \in Int
  PROVE  Zeroed(heap) \in PoolType
  <1>1. 0 \in Word /\ 0 \in 0 .. EpochMod - 1 /\ 0 \in -K .. K
    BY PowFacts, Conversions, MemoryAssumption, ClassAssumption DEF Word
  <1>2. <<>> \in Seq(Word) /\ {} \in SUBSET Flags
    OBVIOUS
  <1> QED
    BY <1>1, <1>2 DEF Zeroed, PoolType

LEMMA PoolFreeType ==
  ASSUME NEW p \in PoolType
  PROVE  PoolFree(p) \in PoolType
  <1> DEFINE h == IF p.buf # "null" /\ "EXTERNAL" \notin p.flags THEN p.heap - 1 ELSE p.heap
  <1>1. h \in Int /\ 0 \in -K .. K
    BY Fields, ClassAssumption
  <1>2. <<>> \in Seq(Word) /\ {} \in SUBSET Flags
    OBVIOUS
  <1>3. PoolFree(p) = [p EXCEPT !.data = <<>>, !.size = 0, !.flags = {}, !.capacity = 0,
                                !.byte_cap = 0, !.buf = "null", !.heap = h]
    BY DEF PoolFree
  <1> DEFINE r == [p EXCEPT !.data = <<>>, !.size = 0, !.flags = {}]
  <1>4. r \in PoolType
    BY <1>1, <1>2, RefitType
  <1>5. PoolFree(p) = [r EXCEPT !.capacity = 0, !.byte_cap = 0, !.buf = "null", !.heap = h]
    <2> HIDE DEF h
    <2> QED
      BY <1>3 DEF PoolType
  <1> HIDE DEF r, h
  <1>6. [r EXCEPT !.capacity = 0, !.byte_cap = 0, !.buf = "null", !.heap = h] \in PoolType
    BY <1>1, <1>4 DEF PoolType
  <1> QED
    BY <1>5, <1>6

\* A pool that was created is empty, of its class, with the capacity asked for.
LEMMA PoolInitInUse ==
  ASSUME NEW heap \in Int, NEW size \in Sizes, NEW cap \in Nat, NEW ok \in BOOLEAN
  PROVE  /\ PoolInit(heap, size, cap, ok).pool \in PoolType
         /\ PoolInit(heap, size, cap, ok).ret =>
              /\ Aligns(cap * Bytes(size)) => InUse(PoolInit(heap, size, cap, ok).pool)
              /\ PoolInit(heap, size, cap, ok).pool.capacity = cap
              /\ PoolInit(heap, size, cap, ok).pool.size = size
  <1> DEFINE bytes == AlignUp(cap * Bytes(size))
             z == Zeroed(heap)
             fresh == [z EXCEPT !.size = size, !.flags = SignFlag(size), !.capacity = cap]
             q == [fresh EXCEPT !.buf = "heap", !.byte_cap = bytes, !.heap = fresh.heap + 1]
  <1>1. cap * Bytes(size) \in Nat /\ size \in -K .. K /\ size # 0
    BY SizeFacts DEF Sizes
  <1> DEFINE m == cap * Bytes(size)
             long == m > SizeMax
  <1>2. bytes \in Nat /\ (Aligns(m) /\ ~long => m <= bytes)
    <2>1. m \in Nat /\ bytes = AlignUp(m) /\ long = (m > SizeMax)
      BY <1>1
    <2> HIDE DEF m, bytes, long
    <2>2. ~ m > SizeMax => m <= SizeMax
      BY <2>1, MemoryAssumption
    <2> QED
      BY <2>1, <2>2, AlignUpBound, GrantedEnough
  <1>3. SignFlag(size) \in SUBSET Flags
    BY SignFlagType DEF Flags
  <1>4. /\ z \in PoolType /\ z.data = <<>> /\ z.byte_cap = 0 /\ z.heap = heap
        /\ z.buf = "null"
    BY ZeroedType DEF Zeroed
  <1> HIDE DEF z
  <1>5. /\ fresh \in PoolType /\ fresh.data = <<>> /\ fresh.size = size /\ fresh.capacity = cap
        /\ fresh.byte_cap = 0 /\ fresh.heap = heap
    BY <1>1, <1>3, <1>4 DEF PoolType
  <1>6. PoolInit(heap, size, cap, ok) =
          IF cap = 0 THEN Result(fresh, TRUE)
          ELSE IF long \/ ~CanAlloc(ok, bytes) THEN Result(fresh, FALSE) ELSE Result(q, TRUE)
    BY DEF PoolInit, z
  <1>m. m = cap * Bytes(size)
    OBVIOUS
  <1> HIDE DEF fresh, bytes, m, long
  <1>7. /\ q \in PoolType /\ q.data = <<>> /\ q.size = size /\ q.capacity = cap
        /\ q.byte_cap = bytes /\ q.buf = "heap"
    <2> DEFINE h == fresh.heap + 1
    <2>1. h \in Int
      BY <1>5
    <2> HIDE DEF h
    <2>2. [fresh EXCEPT !.buf = "heap", !.byte_cap = bytes, !.heap = h] \in PoolType
      BY <1>2, <1>5, <2>1 DEF PoolType
    <2>3. q = [fresh EXCEPT !.buf = "heap", !.byte_cap = bytes, !.heap = h]
      BY DEF h
    <2> QED
      BY <1>5, <2>2, <2>3 DEF PoolType
  <1> HIDE DEF q
  <1>8. Aligns(m) /\ ~long /\ bytes <= Memory => InUse(q)
    BY <1>1, <1>2, <1>7, <1>m DEF InUse, Sound, Count
  <1>9. cap = 0 => InUse(fresh)
    BY <1>1, <1>5, SizeFacts, AddressAssumption DEF InUse, Sound, Count
  <1> QED
    BY <1>5, <1>6, <1>7, <1>8, <1>9, <1>m DEF Result, CanAlloc

\* A created pool filled with values of its class.
LEMMA FilledInUse ==
  ASSUME NEW heap \in Int, NEW size \in Sizes, NEW ok \in BOOLEAN, NEW data \in Seq(Word),
         PoolInit(heap, size, Len(data), ok).ret, Aligns(Len(data) * Bytes(size)),
         \A i \in DOMAIN data : data[i] < Pow(Abs(size))
  PROVE  InUse([PoolInit(heap, size, Len(data), ok).pool EXCEPT !.data = data])
  <1> DEFINE p == PoolInit(heap, size, Len(data), ok).pool
  <1>1. Len(data) \in Nat
    OBVIOUS
  <1>2. InUse(p) /\ p.capacity = Len(data) /\ p.size = size
    BY <1>1, PoolInitInUse
  <1> HIDE DEF p
  <1>3. Len(data) <= p.capacity
    BY <1>1, <1>2
  <1>4. InUse([p EXCEPT !.data = data])
    BY <1>2, <1>3, DataInUse
  <1> QED
    BY <1>4 DEF p

\* A filled pool handed back by a constructor.
LEMMA FilledResult ==
  ASSUME NEW heap \in Int, NEW size \in Sizes, NEW ok \in BOOLEAN, NEW data \in Seq(Word),
         \A i \in DOMAIN data : data[i] < Pow(Abs(size)), Aligns(Len(data) * Bytes(size)),
         NEW r, r = PoolInit(heap, size, Len(data), ok),
         NEW q, q \in {r, [r EXCEPT !.pool.data = data]},
         q # r => r.ret
  PROVE  q.pool \in PoolType /\ (q.ret => InUse(q.pool))
  <1>1. Len(data) \in Nat
    OBVIOUS
  <1>2. r.pool \in PoolType /\ (r.ret => InUse(r.pool))
    BY <1>1, PoolInitInUse
  <1>3. r = [pool |-> r.pool, ret |-> r.ret]
    BY DEF PoolInit, Result
  <1>4. r.ret => InUse([r.pool EXCEPT !.data = data])
    BY FilledInUse
  <1>5. /\ [r EXCEPT !.pool.data = data].pool = [r.pool EXCEPT !.data = data]
        /\ [r EXCEPT !.pool.data = data].ret = r.ret
    BY <1>3
  <1> QED
    BY <1>2, <1>4, <1>5 DEF InUse

LEMMA FromArrayAutoInUse ==
  ASSUME NEW heap \in Int, NEW arr \in Seq(Word), Askable(Len(arr)), NEW ok \in BOOLEAN
  PROVE  /\ FromArrayAuto(heap, arr, ok).pool \in PoolType
         /\ FromArrayAuto(heap, arr, ok).ret => InUse(FromArrayAuto(heap, arr, ok).pool)
  <1> DEFINE vs == {arr[i] : i \in DOMAIN arr}
             c == Classify(vs)
             r == PoolInit(heap, c, Len(arr), ok)
             q == FromArrayAuto(heap, arr, ok)
  <1>1. \A i \in DOMAIN arr : arr[i] \in Word
    OBVIOUS
  <1>2. UFits(K, vs)
    <2>1. Pow(K) \in Nat
      BY Conversions, PowFacts
    <2> QED
      BY <1>1, <2>1 DEF UFits, Word
  <1>3. c \in Classes /\ UFits(c, vs)
    <2> HIDE DEF vs
    <2> QED
      BY <1>2, Conversions, ClassifyFits
  <1>4. c \in Sizes /\ Abs(c) = c
    <2> HIDE DEF c
    <2> QED
      BY <1>3, ClassAssumption DEF Classes, Sizes, Abs
  <1>5. \A i \in DOMAIN arr : arr[i] < Pow(Abs(c))
    <2>1. \A i \in DOMAIN arr : arr[i] < Pow(c)
      BY <1>3 DEF UFits
    <2> QED
      BY <1>4, <2>1
  <1>6. q = IF arr # <<>> /\ r.ret THEN [r EXCEPT !.pool.data = arr] ELSE r
    BY DEF FromArrayAuto
  <1> HIDE DEF c, q
  <1>7. q \in {r, [r EXCEPT !.pool.data = arr]} /\ (q # r => r.ret)
    BY <1>6
  <1>8. q.pool \in PoolType /\ (q.ret => InUse(q.pool))
    <2> DEFINE rr == r
    <2>1. rr = PoolInit(heap, c, Len(arr), ok)
      OBVIOUS
    <2>2. q \in {rr, [rr EXCEPT !.pool.data = arr]} /\ (q # rr => rr.ret)
      BY <1>7
    <2>3. Aligns(Len(arr) * Bytes(c))
      BY <1>4, AskableAligns
    <2> HIDE DEF rr
    <2> QED
      BY <1>4, <1>5, <2>1, <2>2, <2>3, FilledResult
  <1> QED
    BY <1>8 DEF q

LEMMA FromArraySignedAutoInUse ==
  ASSUME NEW heap \in Int, NEW arr \in Seq(Int64), Askable(Len(arr)), NEW ok \in BOOLEAN
  PROVE  /\ FromArraySignedAuto(heap, arr, ok).pool \in PoolType
         /\ FromArraySignedAuto(heap, arr, ok).ret => InUse(FromArraySignedAuto(heap, arr, ok).pool)
  <1> DEFINE vs == {arr[i] : i \in DOMAIN arr}
             size == ClassifySigned(vs)
             n == Len(arr)
             data == [i \in DOMAIN arr |-> Raw(-size, arr[i])]
             r == PoolInit(heap, size, n, ok)
             q == FromArraySignedAuto(heap, arr, ok)
  <1>1. /\ \A i \in DOMAIN arr : arr[i] \in Int64
        /\ n \in Nat /\ DOMAIN arr = 1 .. n
    OBVIOUS
  <1>2. SFits(K, vs)
    BY <1>1, Conversions DEF SFits, Int64
  <1>3. -size \in Classes /\ size \in Int
    <2> HIDE DEF vs
    <2> QED
      BY <1>2, Conversions, ClassifySignedFits
  <1> HIDE DEF size
  <1>4. size \in Sizes /\ Abs(size) = -size
    BY <1>3, ClassAssumption DEF Classes, Sizes, Abs
  <1>5. \A i \in 1 .. n : Raw(-size, arr[i]) \in Word /\ Raw(-size, arr[i]) < Pow(-size)
    BY <1>1, <1>3, RawRange, Conversions DEF Int64
  <1>6. data \in [1 .. n -> Word]
    BY <1>1, <1>5
  <1>7. q = IF arr # <<>> /\ r.ret THEN [r EXCEPT !.pool.data = data] ELSE r
    BY DEF FromArraySignedAuto, size
  <1>8. \A i \in DOMAIN data : data[i] < Pow(Abs(size))
    BY <1>1, <1>4, <1>5
  <1> HIDE DEF q, data
  <1>9. data \in Seq(Word) /\ Len(data) = n
    BY <1>1, <1>6
  <1>10. q \in {r, [r EXCEPT !.pool.data = data]} /\ (q # r => r.ret)
    BY <1>7
  <1>11. q.pool \in PoolType /\ (q.ret => InUse(q.pool))
    <2> DEFINE rr == r
    <2>1. rr = PoolInit(heap, size, Len(data), ok)
      BY <1>9
    <2>2. q \in {rr, [rr EXCEPT !.pool.data = data]} /\ (q # rr => rr.ret)
      BY <1>10
    <2>3. Aligns(Len(data) * Bytes(size))
      BY <1>4, <1>9, AskableAligns
    <2> HIDE DEF rr
    <2> QED
      BY <1>4, <1>8, <1>9, <2>1, <2>2, <2>3, FilledResult
  <1> QED
    BY <1>11 DEF q

LEMMA CopyInUse ==
  ASSUME NEW heap \in Int, NEW src, InUse(src), NEW ok \in BOOLEAN
  PROVE  Copy(heap, src, ok).ret => InUse(Copy(heap, src, ok).pool)
  <1> DEFINE r == PoolInit(heap, src.size, Count(src), ok)
             flags == src.flags \ {"EXTERNAL"}
             p == [r.pool EXCEPT !.data = src.data]
             q == [r EXCEPT !.pool.data = src.data, !.pool.flags = flags]
  <1>1. src \in PoolType /\ Sound(src) /\ src.size \in Sizes /\ src.data \in Seq(Word)
    BY Fields DEF InUse, Sound, Sizes, PoolType
  <1>2. \A i \in DOMAIN src.data : src.data[i] < Pow(Abs(src.size))
    BY <1>1 DEF Sound
  <1>3. r.ret => InUse(p)
    <2>1. Aligns(Count(src) * Bytes(src.size))
      BY <1>1, CountAskable, AskableAligns
    <2> QED
      BY <1>1, <1>2, <2>1, FilledInUse DEF Count
  <1>4. flags \in SUBSET Flags
    BY <1>1, Fields
  <1>5. r = [pool |-> r.pool, ret |-> r.ret] /\ r.pool \in PoolType
    <2>1. Count(src) \in Nat
      BY <1>1, Fields
    <2>2. r.pool \in PoolType
      BY <1>1, <2>1, PoolInitInUse
    <2> QED
      BY <2>2 DEF PoolInit, Result
  <1>6. Copy(heap, src, ok) = IF r.ret THEN q ELSE r
    BY DEF Copy
  <1> HIDE DEF r, flags
  <1>7. q.pool = [p EXCEPT !.flags = flags]
    BY <1>5 DEF PoolType
  <1> HIDE DEF p
  <1>8. r.ret => InUse([p EXCEPT !.flags = flags])
    BY <1>3, <1>4, FlagInUse
  <1> HIDE DEF q
  <1> QED
    BY <1>6, <1>7, <1>8

LEMMA MappedInUse ==
  ASSUME NEW heap \in Int, NEW size \in Sizes, NEW data \in Seq(Word),
         Len(data) * Bytes(size) <= Memory,
         \A i \in DOMAIN data : data[i] < Pow(Abs(size))
  PROVE  InUse(Mapped(heap, size, data))
  <1> DEFINE z == Zeroed(heap)
             flags == SignFlag(size) \cup {"READONLY", "EXTERNAL"}
             n == Len(data)
             b == n * Bytes(size)
             r == [z EXCEPT !.data = data, !.size = size, !.flags = flags]
             q == [r EXCEPT !.buf = "mapping", !.capacity = n, !.byte_cap = b]
  <1>1. size \in -K .. K /\ size # 0 /\ Bytes(size) \in Nat /\ n \in Nat /\ b \in Nat
    BY SizeFacts DEF Sizes
  <1>2. flags \in SUBSET Flags
    BY DEF SignFlag, Flags
  <1>3. z \in PoolType
    BY ZeroedType
  <1>4. Mapped(heap, size, data) = q
    <2> HIDE DEF z, flags
    <2> QED
      BY <1>3 DEF Mapped, PoolType, z, flags
  <1> HIDE DEF z, flags
  <1>5. r \in PoolType /\ r.data = data /\ r.size = size
    BY <1>1, <1>2, <1>3, RefitType DEF PoolType
  <1> HIDE DEF r, b
  <1>6. /\ q \in PoolType /\ q.data = data /\ q.size = size /\ q.capacity = n
        /\ q.byte_cap = b /\ q.buf = "mapping"
    BY <1>1, <1>5 DEF PoolType
  <1> HIDE DEF q
  <1>7. Sound(q)
    BY <1>1, <1>6 DEF Sound, Count, b
  <1> QED
    BY <1>4, <1>6, <1>7 DEF InUse

-----------------------------------------------------------------------------
(* Remainders, and the readings of a word.                                  *)

\* Division with remainder.
LEMMA DivMod ==
  ASSUME NEW v \in Int, NEW n \in Nat \ {0}
  PROVE  v \div n \in Int /\ v = (v \div n) * n + (v % n) /\ (v % n) \in 0 .. n - 1
  BY SMT

\* A multiple of n strictly between -n and n is 0.
LEMMA SmallMultiple ==
  ASSUME NEW n \in Nat \ {0}, NEW k \in Int, -n < k * n, k * n < n
  PROVE  k = 0
  <1>1. CASE k >= 1
    <2>1. k * n >= n
      BY <1>1, SMT
    <2> QED
      BY <2>1
  <1>2. CASE k <= -1
    <2>1. k * n <= -n
      BY <1>2, SMT
    <2> QED
      BY <2>1
  <1> QED
    BY <1>1, <1>2

\* A remainder is determined by the equation of division.
LEMMA ModUnique ==
  ASSUME NEW v \in Int, NEW n \in Nat \ {0}, NEW k \in Int, NEW r \in 0 .. n - 1, v = k * n + r
  PROVE  v % n = r
  <1> DEFINE q == v \div n
             s == v % n
  <1>1. q \in Int /\ v = q * n + s /\ s \in 0 .. n - 1
    BY DivMod
  <1> HIDE DEF q, s
  <1>2. (q - k) * n = r - s
    BY <1>1
  <1>3. q - k = 0
    BY <1>1, <1>2, SmallMultiple
  <1> QED
    BY <1>1, <1>3 DEF s

\* Adding a multiple of the divisor leaves the remainder.
LEMMA ModPlus ==
  ASSUME NEW v \in Int, NEW n \in Nat \ {0}, NEW k \in Int
  PROVE  (v + k * n) % n = v % n
  <1> DEFINE q == v \div n
             s == v % n
  <1>1. q \in Int /\ v = q * n + s /\ s \in 0 .. n - 1
    BY DivMod
  <1> HIDE DEF q, s
  <1>2. v + k * n = (q + k) * n + s
    BY <1>1
  <1>3. v + k * n \in Int /\ q + k \in Int
    BY <1>1
  <1> QED
    BY <1>1, <1>2, <1>3, ModUnique DEF s

\* A positive number without remainder is a positive multiple.
LEMMA MultipleOf ==
  ASSUME NEW h \in Nat \ {0}, NEW p \in Nat \ {0}, h % p = 0
  PROVE  \E q \in Nat \ {0} : h = q * p
  <1> DEFINE q == h \div p
  <1>1. q \in Int /\ h = q * p
    BY DivMod
  <1> HIDE DEF q
  <1>2. q > 0
    <2> SUFFICES ASSUME q <= 0  PROVE FALSE
      BY <1>1
    <2>1. q * p <= 0
      BY <1>1, SMT
    <2> QED
      BY <1>1, <2>1
  <1> QED
    BY <1>1, <1>2

\* A wider class has a whole number of times the words of a narrower one.
LEMMA PowDivides ==
  ASSUME NEW c \in Classes, NEW d \in Classes, c <= d
  PROVE  \E m \in Nat \ {0} : Pow(d) = m * Pow(c)
  <1>1. Half[c] \in Nat \ {0} /\ Half[d] \in Nat \ {0} /\ Pow(c) \in Nat \ {0} /\ Pow(d) \in Nat \ {0}
    BY PowFacts
  <1>2. CASE c = d
    BY <1>1, <1>2
  <1>3. CASE c # d
    <2>1. c < d
      BY <1>3, ClassAssumption DEF Classes
    <2>2. Half[d] % (2 * Half[c]) = 0
      BY <2>1, WidthAssumption, Zenon DEF Classes
    <2>3. PICK q \in Nat \ {0} : Half[d] = q * (2 * Half[c])
      BY <1>1, <2>2, MultipleOf DEF Pow
    <2>4. Pow(d) = (2 * q) * Pow(c)
      BY <1>1, <2>3 DEF Pow
    <2> QED
      BY <2>3, <2>4
  <1> QED
    BY <1>2, <1>3

\* Adding the divisor once.
LEMMA ModShift ==
  ASSUME NEW v \in Int, NEW n \in Nat \ {0}
  PROVE  (v + n) % n = v % n
  <1> DEFINE k == 1
  <1>1. k \in Int /\ k * n = n
    OBVIOUS
  <1> HIDE DEF k
  <1>2. (v + k * n) % n = v % n
    BY <1>1, ModPlus
  <1> QED
    BY <1>1, <1>2

\* A remainder by a multiple of p keeps the remainder by p.
LEMMA ModOfMod ==
  ASSUME NEW v \in Int, NEW p \in Nat \ {0}, NEW m \in Nat \ {0}
  PROVE  (v % (m * p)) % p = v % p
  <1> DEFINE n == m * p
             q == v \div n
             s == v % n
  <1>0. n \in Nat \ {0}
    BY SMT
  <1> HIDE DEF n
  <1>1. q \in Int /\ v = q * n + s /\ s \in Int
    BY <1>0, DivMod
  <1> HIDE DEF q, s
  <1>2. q * n = (q * m) * p
    BY <1>1 DEF n
  <1>3. v = s + (q * m) * p /\ q * m \in Int
    BY <1>0, <1>1, <1>2
  <1> DEFINE k == q * m
  <1>4. (s + k * p) % p = s % p
    <2>1. k \in Int
      BY <1>3
    <2> HIDE DEF k
    <2> QED
      BY <1>1, <2>1, ModPlus
  <1> QED
    BY <1>3, <1>4 DEF s, n

\* Narrowing by way of a wider class is narrowing.
LEMMA RawRaw ==
  ASSUME NEW c \in Classes, NEW d \in Classes, c <= d, NEW v \in Int
  PROVE  Raw(c, Raw(d, v)) = Raw(c, v)
  <1>1. Pow(c) \in Nat \ {0} /\ Pow(d) \in Nat \ {0}
    BY PowFacts
  <1>2. PICK m \in Nat \ {0} : Pow(d) = m * Pow(c)
    BY PowDivides
  <1>3. (v % Pow(d)) % Pow(c) = v % Pow(c)
    BY <1>1, <1>2, ModOfMod
  <1> QED
    BY <1>3 DEF Raw

\* A value of the class is its own word.
LEMMA RawSmall ==
  ASSUME NEW c \in Classes, NEW v \in Nat, v < Pow(c)
  PROVE  Raw(c, v) = v
  <1>1. Pow(c) \in Nat \ {0}
    BY PowFacts
  <1>2. v \in 0 .. Pow(c) - 1 /\ v = 0 * Pow(c) + v
    BY <1>1
  <1> QED
    BY <1>1, <1>2, ModUnique DEF Raw

\* A value of the signed class comes back from its word.
LEMMA SignExtended ==
  ASSUME NEW c \in Classes, NEW v \in Int, -Half[c] <= v, v < Half[c]
  PROVE  /\ AsSigned(c, Raw(c, v)) = v
         /\ Raw(c, v) = IF v >= 0 THEN v ELSE v + Pow(c)
  <1>1. Pow(c) \in Nat \ {0} /\ Half[c] \in Nat \ {0} /\ Pow(c) = 2 * Half[c]
    BY PowFacts DEF Pow
  <1>2. CASE v >= 0
    <2>1. Raw(c, v) = v
      BY <1>1, <1>2, RawSmall
    <2> QED
      BY <1>2, <2>1 DEF AsSigned
  <1>3. CASE v < 0
    <2>1. v + Pow(c) \in Nat /\ v + Pow(c) < Pow(c)
      BY <1>1, <1>3
    <2>2. v % Pow(c) = v + Pow(c)
      BY <1>1, <2>1, RawSmall, ModShift DEF Raw
    <2> QED
      BY <1>1, <1>3, <2>2 DEF AsSigned, Raw
  <1> QED
    BY <1>2, <1>3

\* A word comes back from its signed reading.
LEMMA RawSigned ==
  ASSUME NEW c \in Classes, NEW r \in Nat, r < Pow(c)
  PROVE  Raw(c, AsSigned(c, r)) = r
  <1>1. Pow(c) \in Nat \ {0} /\ Half[c] \in Nat \ {0} /\ Pow(c) = 2 * Half[c]
    BY PowFacts DEF Pow
  <1>2. -Half[c] <= AsSigned(c, r) /\ AsSigned(c, r) < Half[c] /\ AsSigned(c, r) \in Int
    BY AsSignedRange
  <1>3. Raw(c, AsSigned(c, r)) = IF AsSigned(c, r) >= 0 THEN AsSigned(c, r) ELSE AsSigned(c, r) + Pow(c)
    BY <1>2, SignExtended
  <1> QED
    BY <1>1, <1>3 DEF AsSigned
-----------------------------------------------------------------------------
(* Vocabulary.                                                              *)

\* The block was replaced by a new one, the old one freed unless it is borrowed.
Moved(p, q) ==
  /\ q.buf = "heap"
  /\ q.heap = IF p.buf # "null" /\ "EXTERNAL" \notin p.flags THEN p.heap ELSE p.heap + 1
InPlace(p, q) == q.buf = p.buf /\ q.heap = p.heap

\* Summary and epoch were left alone.
SameRecord(p, q) ==
  q.smin = p.smin /\ q.smax = p.smax /\ q.ssum = p.ssum /\ q.epoch = p.epoch

\* The same elements of the same class.
SameElements(p, q) == q.data = p.data /\ q.size = p.size

\* Reading depends on the words, the class and the signedness.
LEMMA SameReading ==
  ASSUME NEW p, NEW q, SameElements(p, q), IsSigned(q) = IsSigned(p)
  PROVE  Values(q) = Values(p) /\ Count(q) = Count(p) /\ DOMAIN q.data = DOMAIN p.data
  <1>1. \A i : Value(q, i) = Value(p, i)
    BY DEF SameElements, Value, GetSigned, Get
  <1>2. DOMAIN q.data = DOMAIN p.data
    BY DEF SameElements
  <1> QED
    BY <1>1, <1>2 DEF SameElements, Values, Count

\* The domain of the values.
LEMMA ValuesDomain ==
  ASSUME NEW p
  PROVE  /\ DOMAIN Values(p) = DOMAIN p.data
         /\ \A i \in DOMAIN p.data : Values(p)[i] = Value(p, i)
  BY DEF Values

\* Equal columns have equal elements.
LEMMA SameValues ==
  ASSUME NEW p, NEW q, Values(q) = Values(p)
  PROVE  /\ DOMAIN q.data = DOMAIN p.data
         /\ \A i \in DOMAIN p.data : Value(q, i) = Value(p, i)
  BY ValuesDomain

\* A value that its class represents is read back.
LEMMA ReadsBack ==
  ASSUME NEW size \in Sizes, NEW v \in Int,
         IF size < 0 THEN -Half[-size] <= v /\ v < Half[-size]
                     ELSE 0 <= v /\ v < Pow(size)
  PROVE  IF size < 0 THEN AsSigned(-size, Raw(Abs(size), v)) = v
                     ELSE Raw(Abs(size), v) = v
  <1>1. Abs(size) \in Classes /\ Abs(size) = IF size < 0 THEN -size ELSE size
    BY SizeFacts DEF Abs
  <1>2. CASE size < 0
    BY <1>1, <1>2, SignExtended
  <1>3. CASE ~ size < 0
    BY <1>1, <1>3, RawSmall
  <1> QED
    BY <1>2, <1>3

\* Elements re-stored in a class that represents them all keep their values.
LEMMA Restored ==
  ASSUME NEW p, InUse(p), NEW size \in Sizes, NEW q,
         q.data = Recast(p, Abs(size)), q.size = size, IsSigned(q) = (size < 0),
         \A i \in DOMAIN p.data :
           IF size < 0 THEN -Half[-size] <= Value(p, i) /\ Value(p, i) < Half[-size]
                       ELSE 0 <= Value(p, i) /\ Value(p, i) < Pow(size)
  PROVE  Values(q) = Values(p) /\ Count(q) = Count(p)
  <1>1. DOMAIN q.data = DOMAIN p.data
    BY DEF Recast
  <1>2. ASSUME NEW i \in DOMAIN p.data  PROVE Value(q, i) = Value(p, i)
    <2> DEFINE v == Value(p, i)
    <2>1. v \in Int
      BY ValueRange
    <2>2. q.data[i] = Raw(Abs(size), v)
      BY DEF Recast
    <2> HIDE DEF v
    <2>3. IF size < 0 THEN AsSigned(-size, Raw(Abs(size), v)) = v ELSE Raw(Abs(size), v) = v
      BY <2>1, ReadsBack DEF v
    <2>4. Value(q, i) = IF size < 0 THEN AsSigned(-size, q.data[i]) ELSE q.data[i]
      BY DEF Value, GetSigned, Get
    <2> QED
      BY <2>2, <2>3, <2>4 DEF v
  <1>3. Values(q) = Values(p)
    BY <1>1, <1>2 DEF Values
  <1>4. Count(q) = Count(p)
    <2>1. Len(Recast(p, Abs(size))) = Count(p)
      BY SizeFacts, RecastType
    <2> QED
      BY <2>1 DEF Count
  <1> QED
    BY <1>3, <1>4

-----------------------------------------------------------------------------
(* Blocks replaced.                                                         *)

\* Adopting a block touches nothing else.
LEMMA AdoptFields ==
  ASSUME NEW p \in PoolType, NEW bytes \in Nat, NEW cap \in Nat
  PROVE  LET a == Adopt(p, bytes, cap) IN
         a \in PoolType /\ Moved(p, a) /\ SameElements(p, a) /\ SameRecord(p, a) /\ a.flags = p.flags
  <1> DEFINE h == IF p.buf # "null" /\ "EXTERNAL" \notin p.flags THEN p.heap ELSE p.heap + 1
  <1>1. Adopt(p, bytes, cap) =
          [p EXCEPT !.buf = "heap", !.byte_cap = bytes, !.capacity = cap, !.heap = h]
    BY DEF Adopt
  <1>2. Adopt(p, bytes, cap) \in PoolType
    BY AdoptType
  <1> DEFINE a == [p EXCEPT !.buf = "heap", !.byte_cap = bytes, !.capacity = cap, !.heap = h]
  <1>3. a.buf = "heap" /\ a.heap = h /\ a.data = p.data /\ a.size = p.size /\ a.flags = p.flags
        /\ a.smin = p.smin /\ a.smax = p.smax /\ a.ssum = p.ssum /\ a.epoch = p.epoch
    <2> HIDE DEF h
    <2> QED BY DEF PoolType
  <1>4. Moved(p, a) /\ SameElements(p, a) /\ SameRecord(p, a)
    BY <1>3 DEF Moved, SameElements, SameRecord
  <1> QED
    BY <1>1, <1>2, <1>3, <1>4

\* A larger or smaller block with the same elements, which the pool owns.
Regrown(p, q) ==
  Moved(p, q) /\ SameElements(p, q) /\ SameRecord(p, q) /\ q.flags = p.flags \ {"EXTERNAL"}

LEMMA AdoptRegrown ==
  ASSUME NEW p \in PoolType, NEW bytes \in Nat, NEW cap \in Nat
  PROVE  Regrown(p, [Adopt(p, bytes, cap) EXCEPT !.flags = @ \ {"EXTERNAL"}])
  <1> DEFINE a == Adopt(p, bytes, cap)
             b == [a EXCEPT !.flags = a.flags \ {"EXTERNAL"}]
  <1>1. a \in PoolType /\ Moved(p, a) /\ SameElements(p, a) /\ SameRecord(p, a) /\ a.flags = p.flags
    BY AdoptFields
  <1> HIDE DEF a
  <1>2. Moved(p, b) /\ SameElements(p, b) /\ SameRecord(p, b) /\ b.flags = p.flags \ {"EXTERNAL"}
    BY <1>1 DEF PoolType, Moved, SameElements, SameRecord
  <1> QED
    BY <1>2 DEF Regrown, a

LEMMA ReserveEffect ==
  ASSUME NEW p, InUse(p), NEW cap \in Nat, NEW ok \in BOOLEAN, NEW q, q = Reserve(p, cap, ok).pool
  PROVE  q = p \/ ("READONLY" \notin p.flags /\ Regrown(p, q))
  <1> DEFINE bytes == AlignUp(cap * Bytes(p.size))
  <1>1. p \in PoolType /\ p.size \in Sizes
    BY DEF InUse, Sound, Sizes, PoolType
  <1>2. bytes \in Nat
    BY <1>1, SizeFacts, AlignUpBound
  <1> HIDE DEF bytes
  <1>3. Regrown(p, [Adopt(p, bytes, cap) EXCEPT !.flags = @ \ {"EXTERNAL"}])
    BY <1>1, <1>2, AdoptRegrown
  <1>4. q = p \/ ("READONLY" \notin p.flags
                  /\ q = [Adopt(p, bytes, cap) EXCEPT !.flags = @ \ {"EXTERNAL"}])
    BY DEF Reserve, Result, bytes
  <1> QED
    BY <1>3, <1>4

LEMMA ShrinkEffect ==
  ASSUME NEW p, InUse(p), NEW ok \in BOOLEAN, NEW q, q = ShrinkToFit(p, ok).pool
  PROVE  q = p \/ ("READONLY" \notin p.flags /\ Regrown(p, q))
  <1> DEFINE bytes == AlignUp(Count(p) * Bytes(p.size))
  <1>1. p \in PoolType /\ p.size \in Sizes /\ Count(p) \in Nat
    BY Fields DEF InUse, Sound, Sizes, PoolType
  <1>2. bytes \in Nat
    BY <1>1, SizeFacts, AlignUpBound
  <1> HIDE DEF bytes
  <1>3. Regrown(p, [Adopt(p, bytes, Count(p)) EXCEPT !.flags = @ \ {"EXTERNAL"}])
    BY <1>1, <1>2, AdoptRegrown
  <1>4. q = p \/ ("READONLY" \notin p.flags
                  /\ q = [Adopt(p, bytes, Count(p)) EXCEPT !.flags = @ \ {"EXTERNAL"}])
    BY DEF ShrinkToFit, Result, bytes
  <1> QED
    BY <1>3, <1>4

-----------------------------------------------------------------------------
(* Classes changed.                                                         *)

\* The elements were moved to a block of another class: they read as they did,
\* and what was recorded of them was left alone.
Refitted(p, q) ==
  /\ Moved(p, q) /\ SameRecord(p, q)
  /\ Values(q) = Values(p) /\ Count(q) = Count(p)

\* The tail of the class changes: a block of `size` for elements stored anew.
Rebuilt(p, size, data, flags) ==
  [Adopt(p, AlignUp(Count(p) * Bytes(size)), Count(p))
     EXCEPT !.data = data, !.size = size, !.flags = flags]

LEMMA RebuiltFields ==
  ASSUME NEW p, InUse(p), NEW size \in Sizes, NEW data, NEW flags, NEW q,
         q = Rebuilt(p, size, data, flags)
  PROVE  q.data = data /\ q.size = size /\ q.flags = flags /\ Moved(p, q) /\ SameRecord(p, q)
  <1> DEFINE bytes == AlignUp(Count(p) * Bytes(size))
             a == Adopt(p, bytes, Count(p))
  <1>1. p \in PoolType /\ Count(p) \in Nat
    BY Fields DEF InUse
  <1>2. bytes \in Nat
    BY <1>1, SizeFacts, AlignUpBound
  <1> HIDE DEF bytes
  <1>3. a \in PoolType /\ Moved(p, a) /\ SameRecord(p, a)
    BY <1>1, <1>2, AdoptFields
  <1>4. q = [a EXCEPT !.data = data, !.size = size, !.flags = flags]
    BY DEF bytes, Rebuilt
  <1> HIDE DEF a
  <1>5. q.data = data /\ q.size = size /\ q.flags = flags /\ InPlace(a, q) /\ SameRecord(a, q)
    BY <1>3, <1>4 DEF PoolType, InPlace, SameRecord
  <1> QED
    BY <1>3, <1>5 DEF Moved, InPlace, SameRecord

\* A class that represents the value.
Holds(size, v) ==
  IF size < 0 THEN -Half[-size] <= v /\ v < Half[-size] ELSE 0 <= v /\ v < Pow(size)

LEMMA ReclassEffect ==
  ASSUME NEW p, InUse(p), Count(p) # 0, NEW size \in Sizes, NEW ok \in BOOLEAN,
         \A i \in DOMAIN p.data : Holds(size, Value(p, i)),
         NEW r, r = Reclass(p, size, ok)
  PROVE  \/ r.pool = p /\ ~r.ret
         \/ /\ r.ret /\ Refitted(p, r.pool) /\ r.pool.size = size
            /\ r.pool.flags = Resigned(p.flags, size)
  <1> DEFINE data == Recast(p, Abs(size))
             q == Rebuilt(p, size, data, Resigned(p.flags, size))
  <1>1. r = Result(p, FALSE) \/ r = Result(q, TRUE)
    BY DEF Reclass, Rebuilt
  <1>2. /\ q.data = data /\ q.size = size /\ q.flags = Resigned(p.flags, size)
        /\ Moved(p, q) /\ SameRecord(p, q)
    BY RebuiltFields
  <1> HIDE DEF q
  <1>3. IsSigned(q) = (size < 0)
    BY <1>2 DEF IsSigned, Resigned, SignFlag
  <1>4. Values(q) = Values(p) /\ Count(q) = Count(p)
    BY <1>2, <1>3, Restored DEF Holds
  <1> QED
    BY <1>1, <1>2, <1>4 DEF Result, Refitted

\* A wider class has room for the signed half, or for all, of a narrower one.
LEMMA Wider ==
  ASSUME NEW c \in Classes, NEW d \in Classes, c < d
  PROVE  /\ Pow(c) <= Half[d] /\ Half[c] <= Half[d] /\ Pow(c) <= Pow(d)
         /\ Half[c] \in Nat /\ Half[d] \in Nat /\ Pow(c) \in Nat /\ Pow(d) \in Nat
  <1>1. Half[c] \in Nat /\ Half[d] \in Nat /\ 2 * Half[c] <= Half[d]
    BY ClassAssumption DEF Classes
  <1> QED
    BY <1>1 DEF Pow

\* How an element is read, and between which limits.
LEMMA Reading ==
  ASSUME NEW p, InUse(p), NEW i \in DOMAIN p.data
  PROVE  /\ p.data[i] \in Nat /\ p.data[i] < Pow(Abs(p.size)) /\ Abs(p.size) \in Classes
         /\ p.size < 0 => /\ Value(p, i) = AsSigned(Abs(p.size), p.data[i])
                          /\ -Half[Abs(p.size)] <= Value(p, i) /\ Value(p, i) < Half[Abs(p.size)]
         /\ ~ p.size < 0 => Value(p, i) = IF "SIGNED" \in p.flags THEN I64(p.data[i]) ELSE p.data[i]
  <1>1. p \in PoolType /\ p.size \in Sizes /\ Abs(p.size) \in Classes
    BY SizeFacts DEF InUse, Sound, Sizes, PoolType
  <1>2. p.data[i] \in Nat /\ p.data[i] < Pow(Abs(p.size))
    BY <1>1, Fields, Conversions DEF InUse, Sound
  <1>3. p.size < 0 => Value(p, i) = AsSigned(Abs(p.size), p.data[i])
    BY DEF Value, IsSigned, GetSigned, Abs
  <1>4. ~ p.size < 0 => Value(p, i) = IF "SIGNED" \in p.flags THEN I64(p.data[i]) ELSE p.data[i]
    BY DEF Value, IsSigned, GetSigned, Get
  <1> QED
    BY <1>1, <1>2, <1>3, <1>4, AsSignedRange

\* A word below the signed half reads the same signed and unsigned.
LEMMA LowReading ==
  ASSUME NEW d \in Classes, NEW w \in Nat, w < Half[d]
  PROVE  I64(w) = w /\ AsSigned(d, w) = w
  <1>1. Half[d] \in Nat /\ Half[K] \in Nat /\ Half[d] <= Half[K]
    BY HalfMonotone
  <1> QED
    BY <1>1 DEF I64, AsSigned

\* A wider class of the same signedness represents every element.
LEMMA WiderHolds ==
  ASSUME NEW p, InUse(p), NEW i \in DOMAIN p.data, NEW size \in Sizes,
         Abs(size) > Abs(p.size), IsSigned(p) = (size < 0)
  PROVE  Holds(size, Value(p, i))
  <1> DEFINE c == Abs(p.size)
             d == Abs(size)
             w == p.data[i]
  <1>1. d \in Classes /\ d = (IF size < 0 THEN -size ELSE size)
    BY SizeFacts DEF Abs
  <1>2. /\ w \in Nat /\ w < Pow(c) /\ c \in Classes
        /\ p.size < 0 => -Half[c] <= Value(p, i) /\ Value(p, i) < Half[c]
        /\ ~ p.size < 0 => Value(p, i) = IF "SIGNED" \in p.flags THEN I64(w) ELSE w
    BY Reading
  <1>3. c \in Int /\ d \in Int /\ c < d
    BY <1>1, <1>2, ClassAssumption DEF Classes
  <1> HIDE DEF c, d, w
  <1>4. /\ Pow(c) <= Half[d] /\ Half[c] <= Half[d] /\ Pow(c) <= Pow(d)
        /\ Half[c] \in Nat /\ Half[d] \in Nat /\ Pow(c) \in Nat /\ Pow(d) \in Nat
    BY <1>1, <1>2, <1>3, Wider
  <1>5. w < Half[d] /\ I64(w) = w
    BY <1>1, <1>2, <1>4, LowReading
  <1>6. Value(p, i) \in Int
    BY ValueRange
  <1>7. CASE p.size < 0
    <2>1. size < 0
      BY <1>7 DEF IsSigned
    <2> QED
      BY <1>1, <1>2, <1>4, <1>6, <1>7, <2>1 DEF Holds
  <1>8. CASE ~ p.size < 0
    <2>1. Value(p, i) = w
      BY <1>2, <1>5, <1>8
    <2> QED
      BY <1>1, <1>2, <1>4, <1>5, <2>1 DEF Holds
  <1> QED
    BY <1>7, <1>8

LEMMA PromoteEffect ==
  ASSUME NEW p, InUse(p), NEW size \in Sizes, NEW ok \in BOOLEAN, NEW r, r = Promote(p, size, ok)
  PROVE  \/ r.pool = p /\ ~r.ret
         \/ /\ r.ret /\ Refitted(p, r.pool) /\ r.pool.size = size
            /\ r.pool.flags = SignFlag(size) /\ IsSigned(p) = (size < 0)
            /\ Abs(size) > Abs(p.size)
  <1> DEFINE data == Recast(p, Abs(size))
             q == Rebuilt(p, size, data, SignFlag(size))
  <1>0. Abs(size) \in Int /\ Abs(p.size) \in Int
    <2>1. p.size \in Sizes
      BY DEF InUse, Sound, Sizes, PoolType
    <2> QED
      BY <2>1, SizeFacts, ClassAssumption DEF Classes
  <1>a. \/ r = Result(p, FALSE)
        \/ r = Result(q, TRUE) /\ IsSigned(p) = (size < 0) /\ ~ Abs(size) <= Abs(p.size)
    BY Zenon DEF Promote, Rebuilt
  <1>1. \/ r = Result(p, FALSE)
        \/ r = Result(q, TRUE) /\ IsSigned(p) = (size < 0) /\ Abs(size) > Abs(p.size)
    <2>1. ~ Abs(size) <= Abs(p.size) => Abs(size) > Abs(p.size)
      BY <1>0
    <2> QED
      BY <1>a, <2>1, Zenon
  <1>2. CASE r = Result(p, FALSE)
    BY <1>2 DEF Result
  <1>3. CASE r = Result(q, TRUE) /\ IsSigned(p) = (size < 0) /\ Abs(size) > Abs(p.size)
    <2>2. /\ q.data = data /\ q.size = size /\ q.flags = SignFlag(size)
          /\ Moved(p, q) /\ SameRecord(p, q)
      BY RebuiltFields
    <2> HIDE DEF q
    <2>3. IsSigned(q) = (size < 0)
      BY <2>2 DEF IsSigned, SignFlag
    <2>4. \A i \in DOMAIN p.data : Holds(size, Value(p, i))
      BY <1>3, WiderHolds
    <2>5. Values(q) = Values(p) /\ Count(q) = Count(p)
      BY <2>2, <2>3, <2>4, Restored DEF Holds
    <2> QED
      BY <1>3, <2>2, <2>5 DEF Result, Refitted
  <1> QED
    BY <1>1, <1>2, <1>3

\* s2r_demote keeps the words, which fit the narrower class; the flags stay.
LEMMA DemoteEffect ==
  ASSUME NEW p, InUse(p), NEW size \in Sizes, NEW ok \in BOOLEAN, NEW r, r = Demote(p, size, ok)
  PROVE  \/ r.pool = p /\ ~r.ret
         \/ /\ r.ret /\ Refitted(p, r.pool) /\ r.pool.size = size /\ size > 0
            /\ r.pool.flags = p.flags /\ r.pool.data = p.data
  <1> DEFINE q == Rebuilt(p, size, p.data, p.flags)
             c == Abs(p.size)
             d == Abs(size)
  <1>0. c \in Classes /\ d \in Classes /\ c \in Int /\ d \in Int /\ p.size \in Sizes /\ p \in PoolType
    <2>1. p.size \in Sizes /\ p \in PoolType
      BY DEF InUse, Sound, Sizes, PoolType
    <2> QED
      BY SMTT(30), <2>1, SizeFacts, ClassAssumption DEF Classes
  <1>9. [Adopt(p, AlignUp(Count(p) * Bytes(size)), Count(p)) EXCEPT !.size = size] = q
    BY <1>0 DEF Rebuilt, Adopt, PoolType
  <1>1. \/ r = Result(p, FALSE)
        \/ /\ r = Result(q, TRUE) /\ ~ size < 0 /\ ~ d >= c
           /\ ~ \E i \in DOMAIN p.data : Get(p, i) > MaxValue(size)
    BY <1>9 DEF Demote
  <1>2. CASE r = Result(p, FALSE)
    BY <1>2 DEF Result
  <1>3. CASE /\ r = Result(q, TRUE) /\ ~ size < 0 /\ ~ d >= c
             /\ ~ \E i \in DOMAIN p.data : Get(p, i) > MaxValue(size)
    <2>1. size \in Int /\ size > 0 /\ d = size /\ d < c
      BY <1>0, <1>3, ClassAssumption DEF Sizes, Abs
    <2>2. /\ q.data = p.data /\ q.size = size /\ q.flags = p.flags
          /\ Moved(p, q) /\ SameRecord(p, q)
      BY RebuiltFields
    <2> HIDE DEF q
    <2>3. ASSUME NEW i \in DOMAIN p.data  PROVE Value(q, i) = Value(p, i)
      <3> DEFINE w == p.data[i]
      <3>1. /\ w \in Nat /\ w < Pow(c)
            /\ p.size < 0 => Value(p, i) = AsSigned(c, w)
            /\ ~ p.size < 0 => Value(p, i) = IF "SIGNED" \in p.flags THEN I64(w) ELSE w
        BY Reading
      <3>2. ~ w > Pow(d) - 1
        BY <1>3, MaxValueRange DEF Get
      <3>3. Pow(d) <= Half[c] /\ Pow(d) \in Nat /\ Half[c] \in Nat
        BY <1>0, <2>1, Wider
      <3> HIDE DEF w, c, d
      <3>4. w < Half[c]
        BY <3>1, <3>2, <3>3
      <3>5. I64(w) = w /\ AsSigned(c, w) = w
        BY <1>0, <3>1, <3>4, LowReading
      <3>6. Value(p, i) = w
        BY <3>1, <3>5
      <3>7. Value(q, i) = IF "SIGNED" \in p.flags THEN I64(w) ELSE w
        BY <2>1, <2>2 DEF Value, IsSigned, GetSigned, Get, w
      <3> QED
        BY <3>5, <3>6, <3>7
    <2>4. Values(q) = Values(p) /\ Count(q) = Count(p)
      BY <2>2, <2>3 DEF Values, Count
    <2> QED
      BY <1>3, <2>1, <2>2, <2>4 DEF Result, Refitted
  <1> QED
    BY <1>1, <1>2, <1>3

\* The class that fits the values of a pool: it holds them all, with their sign.
Target(p) == IF IsSigned(p) THEN ClassifySigned(ValueSet(p)) ELSE Classify(RawSet(p))

LEMMA TargetHolds ==
  ASSUME NEW p, InUse(p)
  PROVE  /\ Target(p) \in Sizes /\ IsSigned(p) = (Target(p) < 0)
         /\ \A i \in DOMAIN p.data : Holds(Target(p), Value(p, i))
  <1>0. IsSigned(p) \in BOOLEAN
    BY DEF IsSigned
  <1>1. CASE IsSigned(p)
    <2> DEFINE t == ClassifySigned(ValueSet(p))
    <2>1. \A v \in ValueSet(p) : v \in Int64
      BY <1>1, ValueRange DEF ValueSet
    <2>2. K \in Classes /\ SFits(K, ValueSet(p))
      <3>1. Half[K] \in Nat
        BY Conversions
      <3> QED
        BY <2>1, <3>1, Conversions DEF SFits, Int64
    <2>3. -t \in Classes /\ SFits(-t, ValueSet(p)) /\ t \in Int
      BY <2>2, ClassifySignedFits
    <2> HIDE DEF t
    <2>4. t \in Sizes /\ t < 0
      BY <2>3, ClassAssumption DEF Classes, Sizes
    <2>5. \A i \in DOMAIN p.data : Holds(t, Value(p, i))
      BY <2>3, <2>4 DEF SFits, ValueSet, Holds
    <2>6. Target(p) = t
      BY <1>1 DEF Target, t
    <2> QED
      BY <1>0, <1>1, <2>4, <2>5, <2>6
  <1>2. CASE ~IsSigned(p)
    <2> DEFINE c == Classify(RawSet(p))
    <2>1. \A v \in RawSet(p) : v \in Word
      BY Fields DEF RawSet, InUse
    <2>2. K \in Classes /\ UFits(K, RawSet(p)) /\ Pow(K) \in Nat
      <3>1. K \in Classes /\ Pow(K) \in Nat
        BY Conversions, PowFacts
      <3> QED
        BY <2>1, <3>1 DEF UFits, Word
    <2>3. c \in Classes /\ UFits(c, RawSet(p))
      BY <2>2, ClassifyFits
    <2> HIDE DEF c
    <2>4. c \in Sizes /\ ~ c < 0
      BY <2>3, ClassAssumption DEF Classes, Sizes
    <2>5. ASSUME NEW i \in DOMAIN p.data  PROVE Holds(c, Value(p, i))
      <3>1. Value(p, i) = p.data[i]
        BY <1>2 DEF Value, Get
      <3>2. p.data[i] \in Nat /\ p.data[i] < Pow(c)
        BY <2>3, <2>1, Conversions DEF UFits, RawSet
      <3> QED
        BY <2>4, <3>1, <3>2 DEF Holds
    <2>6. Target(p) = c
      BY <1>2 DEF Target, c
    <2> QED
      BY <1>0, <1>2, <2>4, <2>5, <2>6
  <1> QED
    BY <1>0, <1>1, <1>2

\* What the fit calls leave: the pool as it was, or another class that holds the
\* same values, with the flags of its sign.
Fitted(p, q) ==
  \/ q = p
  \/ /\ Refitted(p, q) /\ q.size \in Sizes /\ q.flags = Resigned(p.flags, q.size)
     /\ Count(p) # 0

LEMMA FitClassEffect ==
  ASSUME NEW p, InUse(p), NEW ok \in BOOLEAN
  PROVE  /\ Fitted(p, FitClass(p, ok).pool)
         /\ FitClass(p, ok).pool = p \/ IsSigned(p) = (FitClass(p, ok).pool.size < 0)
  <1> DEFINE r == Reclass(p, Target(p), ok)
  <1>1. FitClass(p, ok) = Result(p, TRUE) \/ (Count(p) # 0 /\ FitClass(p, ok) = r)
    BY DEF FitClass, Target
  <1>2. ASSUME Count(p) # 0
        PROVE  \/ r.pool = p
               \/ /\ Refitted(p, r.pool) /\ r.pool.size = Target(p)
                  /\ r.pool.flags = Resigned(p.flags, Target(p))
    <2> DEFINE rr == r
    <2> HIDE DEF rr
    <2>1. \/ rr.pool = p /\ ~rr.ret
          \/ /\ rr.ret /\ Refitted(p, rr.pool) /\ rr.pool.size = Target(p)
             /\ rr.pool.flags = Resigned(p.flags, Target(p))
      BY <1>2, TargetHolds, ReclassEffect DEF rr
    <2> QED
      BY <2>1 DEF rr
  <1> HIDE DEF r
  <1> QED
    BY <1>1, <1>2, TargetHolds DEF Result, Fitted

LEMMA FitClassSignednessEffect ==
  ASSUME NEW p, InUse(p), NEW ok \in BOOLEAN
  PROVE  /\ Fitted(p, FitClassSignedness(p, ok).pool)
         /\ \/ FitClassSignedness(p, ok).pool = p
            \/ IsSigned(p) = (FitClassSignedness(p, ok).pool.size < 0)
            \/ IsSigned(p) /\ \A i \in DOMAIN p.data : Value(p, i) >= 0
  <1> DEFINE c == Classify(ValueSet(p))
             r == Reclass(p, c, ok)
             f == FitClassSignedness(p, ok)
  <1>1. \/ f = Result(p, TRUE)
        \/ f = FitClass(p, ok)
        \/ /\ Count(p) # 0 /\ f = r
           /\ IsSigned(p) /\ ~ \E v \in ValueSet(p) : v < 0
    BY Zenon DEF FitClassSignedness
  <1>2. CASE f = Result(p, TRUE)
    BY <1>2 DEF Result, Fitted
  <1>3. CASE f = FitClass(p, ok)
    BY <1>3, FitClassEffect
  <1>4. CASE /\ Count(p) # 0 /\ f = r
             /\ IsSigned(p) /\ ~ \E v \in ValueSet(p) : v < 0
    <2>1. \A v \in ValueSet(p) : v \in Int64
      BY <1>4, ValueRange DEF ValueSet
    <2>2. \A v \in ValueSet(p) : v \in Nat
      BY <1>4, <2>1, Conversions DEF Int64
    <2>3. K \in Classes /\ UFits(K, ValueSet(p))
      <3>1. Half[K] \in Nat /\ K \in Classes
        BY Conversions
      <3> QED
        BY <2>1, <2>2, <3>1 DEF UFits, Int64, Pow
    <2>4. c \in Classes /\ UFits(c, ValueSet(p))
      BY <2>3, ClassifyFits
    <2> HIDE DEF c
    <2>5. c \in Sizes /\ ~ c < 0
      BY <2>4, ClassAssumption DEF Classes, Sizes
    <2>6. \A i \in DOMAIN p.data : Holds(c, Value(p, i)) /\ Value(p, i) >= 0
      BY <2>2, <2>4, <2>5 DEF UFits, ValueSet, Holds
    <2> DEFINE rr == r
    <2> HIDE DEF rr
    <2>7. \/ rr.pool = p /\ ~rr.ret
          \/ /\ rr.ret /\ Refitted(p, rr.pool) /\ rr.pool.size = c
             /\ rr.pool.flags = Resigned(p.flags, c)
      BY <1>4, <2>5, <2>6, ReclassEffect DEF rr
    <2> QED
      BY <1>4, <2>5, <2>6, <2>7 DEF rr, Fitted
  <1> QED
    BY <1>1, <1>2, <1>3, <1>4

\* An empty pool changes class where it is.
LEMMA WidenEffect ==
  ASSUME NEW p, InUse(p), NEW size \in Sizes, NEW ok \in BOOLEAN, NEW r, r = Widen(p, size, ok)
  PROVE  \/ /\ Count(p) = 0 /\ r.ret
            /\ InPlace(p, r.pool) /\ SameRecord(p, r.pool)
            /\ r.pool.data = p.data /\ r.pool.size = size /\ r.pool.flags = p.flags
         \/ r = Promote(p, size, ok)
  <1> DEFINE s == [p EXCEPT !.size = size]
             q == RecapEmpty(s)
  <1>1. p \in PoolType
    BY DEF InUse
  <1>2. s \in PoolType /\ s.data = p.data /\ s.size = size /\ s.flags = p.flags
        /\ InPlace(p, s) /\ SameRecord(p, s)
    BY <1>1, SizeFacts DEF PoolType, InPlace, SameRecord
  <1> HIDE DEF s
  <1> DEFINE cap == IF s.size = 0 THEN 0 ELSE s.byte_cap \div Bytes(s.size)
  <1>3. q = [s EXCEPT !.capacity = cap]
    BY DEF RecapEmpty
  <1> HIDE DEF cap
  <1>4. q.data = s.data /\ q.size = s.size /\ q.flags = s.flags /\ InPlace(s, q) /\ SameRecord(s, q)
    BY <1>2, <1>3 DEF PoolType, InPlace, SameRecord
  <1>5. (Count(p) = 0 /\ r = Result(q, TRUE)) \/ r = Promote(p, size, ok)
    BY DEF Widen, s
  <1> HIDE DEF q
  <1> QED
    BY <1>2, <1>4, <1>5 DEF Result, InPlace, SameRecord

-----------------------------------------------------------------------------
(* Writes in place.                                                         *)

\* The facts were dropped and the epoch moved on by k; the block, the class and
\* the sign are the same.
Dropped(p, q, k) ==
  /\ InPlace(p, q) /\ q.size = p.size /\ q.flags = p.flags \ FactFlags
  /\ q.epoch = Bump(p.epoch, k)

\* Only the elements were written.
Written(p, q) ==
  InPlace(p, q) /\ SameRecord(p, q) /\ q.size = p.size /\ q.flags = p.flags

LEMMA DataFields ==
  ASSUME NEW p \in PoolType, NEW data, NEW q, q = [p EXCEPT !.data = data]
  PROVE  q.data = data /\ Written(p, q)
  BY DEF PoolType, Written, InPlace, SameRecord

LEMMA DroppedWritten ==
  ASSUME NEW p, NEW s, NEW q, NEW k, Dropped(p, s, k), Written(s, q)
  PROVE  Dropped(p, q, k)
  BY DEF Dropped, Written, InPlace, SameRecord

LEMMA DropFactsEffect ==
  ASSUME NEW p, InUse(p)
  PROVE  Dropped(p, DropFacts(p), 1) /\ DropFacts(p).data = p.data
  <1> DEFINE e == Bump(p.epoch, 1)
             q == [p EXCEPT !.flags = p.flags \ FactFlags, !.epoch = e]
  <1>1. DropFacts(p) = q
    BY DEF DropFacts
  <1>2. q.buf = p.buf /\ q.heap = p.heap /\ q.size = p.size /\ q.data = p.data
        /\ q.flags = p.flags \ FactFlags /\ q.epoch = e
    <2> HIDE DEF e
    <2> QED
      BY DEF InUse, PoolType
  <1> QED
    BY <1>1, <1>2 DEF Dropped, InPlace

\* Successive bumps add up.
LEMMA BumpTwice ==
  ASSUME NEW e \in Int, NEW j \in Nat, NEW k \in Nat
  PROVE  Bump(Bump(e, j), k) = Bump(e, j + k)
  <1> DEFINE n == EpochMod
             q == (e + j) \div n
             s == (e + j) % n
  <1>1. n \in Nat \ {0} /\ e + j \in Int
    BY MemoryAssumption
  <1> HIDE DEF n
  <1>2. q \in Int /\ e + j = q * n + s /\ s \in 0 .. n - 1
    BY <1>1, DivMod
  <1> HIDE DEF q
  <1> DEFINE m == q * n
  <1>3. s \in Int /\ m \in Int /\ e + j = m + s
    BY <1>1, <1>2
  <1> HIDE DEF m, s
  <1>4. e + (j + k) = (s + k) + m /\ s + k \in Int
    BY <1>3
  <1>5. ((s + k) + m) % n = (s + k) % n
    BY <1>1, <1>2, <1>4, ModPlus DEF m
  <1>6. Bump(e, j) = s /\ Bump(s, k) = (s + k) % n /\ Bump(e, j + k) = (e + (j + k)) % n
    BY DEF Bump, s, n
  <1> QED
    BY <1>4, <1>5, <1>6

LEMMA SetEffect ==
  ASSUME NEW p, InUse(p), NEW i \in DOMAIN p.data, NEW v \in Int
  PROVE  /\ Dropped(p, Set(p, i, v), 1)
         /\ Set(p, i, v).data = [p.data EXCEPT ![i] = Raw(Abs(p.size), v)]
  <1> DEFINE s == DropFacts(p)
             w == Raw(Abs(p.size), v)
             q == [s EXCEPT !.data[i] = w]
             data == [s.data EXCEPT ![i] = w]
  <1>1. InUse(s) /\ Dropped(p, s, 1) /\ s.data = p.data
    BY DropFactsInUse, DropFactsEffect
  <1>2. Set(p, i, v) = q
    BY DEF Set
  <1> HIDE DEF s, w
  <1>3. q = [s EXCEPT !.data = data]
    BY <1>1 DEF InUse, PoolType
  <1> HIDE DEF q, data
  <1>4. q.data = data /\ Written(s, q)
    BY <1>1, <1>3, DataFields DEF InUse
  <1>5. Dropped(p, q, 1)
    BY <1>1, <1>4, DroppedWritten
  <1> QED
    BY <1>1, <1>2, <1>4, <1>5 DEF data, w

LEMMA SetSignedEffect ==
  ASSUME NEW p, InUse(p), NEW i \in DOMAIN p.data, NEW v \in Int
  PROVE  /\ \E k \in 1 .. 2 : Dropped(p, SetSigned(p, i, v), k)
         /\ SetSigned(p, i, v).data = [p.data EXCEPT ![i] = Raw(Abs(p.size), v)]
  <1>1. CASE p.size < 0
    <2>1. SetSigned(p, i, v) = Set(p, i, v)
      BY <1>1 DEF SetSigned, Set, Abs
    <2> QED
      BY <2>1, SetEffect
  <1>2. CASE ~ p.size < 0
    <2> DEFINE s == DropFacts(p)
               q == Set(s, i, v)
    <2>1. InUse(s) /\ Dropped(p, s, 1) /\ s.data = p.data /\ s.size = p.size
      BY DropFactsInUse, DropFactsEffect
    <2> HIDE DEF s
    <2>2. Dropped(s, q, 1) /\ q.data = [p.data EXCEPT ![i] = Raw(Abs(p.size), v)]
      BY <2>1, SetEffect
    <2>3. q.epoch = Bump(p.epoch, 2)
      <3>1. p.epoch \in Int
        BY Fields DEF InUse
      <3>2. Bump(Bump(p.epoch, 1), 1) = Bump(p.epoch, 1 + 1)
        BY SMTT(30), <3>1, BumpTwice
      <3> QED
        BY <2>1, <2>2, <3>2 DEF Dropped
    <2> HIDE DEF q
    <2>4. Dropped(p, q, 2)
      BY <2>1, <2>2, <2>3 DEF Dropped, InPlace
    <2>5. SetSigned(p, i, v) = q
      BY <1>2 DEF SetSigned, s, q
    <2> QED
      BY <2>2, <2>4, <2>5
  <1> QED
    BY <1>1, <1>2

LEMMA RewriteEffect ==
  ASSUME NEW p, InUse(p), NEW f
  PROVE  /\ Written(p, Rewrite(p, f))
         /\ Rewrite(p, f).data = [i \in DOMAIN p.data |-> Raw(Abs(p.size), f[p.data[i]])]
  <1> DEFINE data == [i \in DOMAIN p.data |-> Raw(Abs(p.size), f[p.data[i]])]
             q == [p EXCEPT !.data = data]
  <1>1. Rewrite(p, f) = q
    BY DEF Rewrite
  <1> HIDE DEF data, q
  <1>2. q.data = data /\ Written(p, q)
    BY DataFields DEF InUse, q
  <1> QED
    BY <1>1, <1>2 DEF data

\* A write that drops the facts and replaces every element.
LEMMA DroppedRewrite ==
  ASSUME NEW p, InUse(p), NEW f
  PROVE  /\ Dropped(p, Rewrite(DropFacts(p), f), 1)
         /\ Rewrite(DropFacts(p), f).data = [i \in DOMAIN p.data |-> Raw(Abs(p.size), f[p.data[i]])]
  <1> DEFINE s == DropFacts(p)
  <1>1. InUse(s) /\ Dropped(p, s, 1) /\ s.data = p.data /\ s.size = p.size
    BY DropFactsInUse, DropFactsEffect
  <1> HIDE DEF s
  <1>2. /\ Written(s, Rewrite(s, f))
        /\ Rewrite(s, f).data = [i \in DOMAIN p.data |-> Raw(Abs(p.size), f[p.data[i]])]
    BY <1>1, RewriteEffect
  <1>3. Dropped(p, Rewrite(s, f), 1)
    BY <1>1, <1>2, DroppedWritten
  <1> QED
    BY <1>2, <1>3 DEF s

LEMMA AddScalarEffect ==
  ASSUME NEW p, InUse(p), NEW s
  PROVE  AddScalar(p, s) = p \/ Dropped(p, AddScalar(p, s), 1)
  BY DroppedRewrite DEF AddScalar

LEMMA MulScalarEffect ==
  ASSUME NEW p, InUse(p), NEW s
  PROVE  MulScalar(p, s) = p \/ Dropped(p, MulScalar(p, s), 1)
  BY DroppedRewrite DEF MulScalar

LEMMA TransformEffect ==
  ASSUME NEW p, InUse(p), NEW f
  PROVE  Transform(p, f) = p \/ (Count(p) # 0 /\ Dropped(p, Transform(p, f), Count(p)))
  <1> DEFINE r == Rewrite(DropFacts(p), f)
             e == Bump(p.epoch, Count(p))
             q == [r EXCEPT !.epoch = e]
  <1>1. Dropped(p, r, 1)
    BY DroppedRewrite
  <1>2. DOMAIN r = DOMAIN p /\ DOMAIN p = {"data", "size", "flags", "smin", "smax", "ssum", "epoch",
                                            "capacity", "byte_cap", "buf", "heap"}
    BY DEF InUse, PoolType, Rewrite, DropFacts
  <1>3. Transform(p, f) = p \/ (Count(p) # 0 /\ Transform(p, f) = q)
    BY DEF Transform
  <1> HIDE DEF r, e
  <1>4. q.buf = r.buf /\ q.heap = r.heap /\ q.size = r.size /\ q.flags = r.flags /\ q.epoch = e
    BY <1>2
  <1>5. Dropped(p, q, Count(p))
    BY <1>1, <1>4 DEF Dropped, InPlace, e
  <1> QED
    BY <1>3, <1>5

LEMMA ClearEffect ==
  ASSUME NEW p, InUse(p)
  PROVE  Dropped(p, Clear(p), 1) /\ Clear(p).data = <<>>
  <1> DEFINE s == DropFacts(p)
             q == [s EXCEPT !.data = <<>>]
  <1>1. InUse(s) /\ Dropped(p, s, 1)
    BY DropFactsInUse, DropFactsEffect
  <1> HIDE DEF s
  <1>2. q.data = <<>> /\ Written(s, q)
    BY <1>1, DataFields DEF InUse
  <1> QED
    BY <1>1, <1>2, DroppedWritten DEF Clear, s

\* Removing the last element cuts the column; removing another one writes first.
LEMMA RemoveSwapEffect ==
  ASSUME NEW p, InUse(p), NEW i \in DOMAIN p.data
  PROVE  LET q == RemoveSwap(p, i) IN
         \/ i = Count(p) /\ Written(p, q) /\ q.data = SubSeq(p.data, 1, Count(p) - 1)
         \/ /\ i # Count(p)
            /\ \E k \in 1 .. 2 : Dropped(p, q, k)
            /\ q.data = SubSeq([p.data EXCEPT ![i] = p.data[Count(p)]], 1, Count(p) - 1)
  <1> DEFINE last == Count(p)
  <1>1. CASE i = Count(p)
    <2> DEFINE data == SubSeq(p.data, 1, last - 1)
               q == [p EXCEPT !.data = data]
    <2>1. RemoveSwap(p, i) = q
      BY <1>1 DEF RemoveSwap
    <2> HIDE DEF data
    <2>2. q.data = data /\ Written(p, q)
      BY DataFields DEF InUse
    <2> QED
      BY <1>1, <2>1, <2>2 DEF data
  <1>2. CASE i # Count(p)
    <2> DEFINE w == IF IsSigned(p) THEN GetSigned(p, last) ELSE Get(p, last)
               s == IF IsSigned(p) THEN SetSigned(p, i, w) ELSE Set(p, i, w)
               data == SubSeq(s.data, 1, last - 1)
               q == [s EXCEPT !.data = data]
    <2>1. RemoveSwap(p, i) = q
      BY <1>2 DEF RemoveSwap
    <2>2. p \in PoolType /\ last \in DOMAIN p.data /\ p.size \in Sizes
      BY Fields DEF InUse, Sound, Sizes, PoolType
    <2>3. w \in Int
      BY <2>2, ValueRange DEF Value
    <2>4. Raw(Abs(p.size), w) = p.data[last]
      <3> DEFINE c == Abs(p.size)
                 x == p.data[last]
      <3>1. /\ x \in Nat /\ x < Pow(c) /\ c \in Classes
        BY <2>2, Reading
      <3>2. IF IsSigned(p) THEN w = (IF p.size < 0 THEN AsSigned(c, x) ELSE I64(x)) ELSE w = x
        BY DEF GetSigned, Get, Abs
      <3> HIDE DEF w, x, c
      <3>3. Raw(c, AsSigned(c, x)) = x
        BY <3>1, RawSigned
      <3>4. Raw(c, x) = x
        BY <3>1, RawSmall
      <3>5. Raw(c, I64(x)) = x
        <4>1. c <= K /\ K \in Classes /\ Pow(c) <= Pow(K) /\ Pow(c) \in Nat /\ Pow(K) \in Nat
          BY <3>1, PowFacts, ClassAssumption DEF Classes
        <4>2. x < Pow(K)
          BY <3>1, <4>1
        <4>3. Raw(K, I64(x)) = x
          BY <3>1, <4>1, <4>2, RawSigned DEF I64
        <4>4. I64(x) \in Int
          BY <3>1, <4>1, <4>2, AsSignedRange DEF I64
        <4>5. Raw(c, Raw(K, I64(x))) = Raw(c, I64(x))
          BY <3>1, <4>1, <4>4, RawRaw
        <4> QED
          BY <3>4, <4>3, <4>5
      <3> QED
        BY <3>2, <3>3, <3>4, <3>5 DEF x, c
    <2>5. /\ InUse(s)
          /\ \E k \in 1 .. 2 : Dropped(p, s, k)
          /\ s.data = [p.data EXCEPT ![i] = p.data[last]]
      <3> HIDE DEF w, last
      <3>1. InUse(SetSigned(p, i, w)) /\ InUse(Set(p, i, w))
        BY <2>3, SetSignedInUse, SetInUse
      <3>2. /\ \E k \in 1 .. 2 : Dropped(p, SetSigned(p, i, w), k)
            /\ SetSigned(p, i, w).data = [p.data EXCEPT ![i] = p.data[last]]
        BY <2>3, <2>4, SetSignedEffect
      <3>3. /\ \E k \in 1 .. 2 : Dropped(p, Set(p, i, w), k)
            /\ Set(p, i, w).data = [p.data EXCEPT ![i] = p.data[last]]
        <4>1. /\ Dropped(p, Set(p, i, w), 1)
              /\ Set(p, i, w).data = [p.data EXCEPT ![i] = Raw(Abs(p.size), w)]
          BY <2>3, SetEffect, Zenon
        <4>2. 1 \in 1 .. 2
          OBVIOUS
        <4> QED
          BY <2>4, <4>1, <4>2
      <3> QED
        BY <3>1, <3>2, <3>3
    <2> HIDE DEF s, data
    <2>6. q.data = data /\ Written(s, q)
      BY <2>5, DataFields DEF InUse
    <2>7. \E k \in 1 .. 2 : Dropped(p, q, k)
      BY <2>5, <2>6, DroppedWritten
    <2> QED
      BY <1>2, <2>1, <2>5, <2>6, <2>7 DEF data
  <1> QED
    BY <1>1, <1>2

-----------------------------------------------------------------------------
(* Appends.                                                                 *)

LEMMA PushFactsFields ==
  ASSUME NEW p, InUse(p), NEW v \in Word
  PROVE  LET q == PushFacts(p, v)
             empty == Count(p) = 0
             summed == "SUMMARY" \in p.flags
         IN  /\ InPlace(p, q) /\ SameElements(p, q)
             /\ q.epoch = Bump(p.epoch, 1)
             /\ q.flags = IF KeepsOrder(p, v) THEN p.flags ELSE p.flags \ {"SORTED"}
             /\ q.smin = IF summed /\ (empty \/ Less(p, v, p.smin)) THEN v ELSE p.smin
             /\ q.smax = IF summed /\ (empty \/ Less(p, p.smax, v)) THEN v ELSE p.smax
             /\ q.ssum = IF ~summed THEN p.ssum ELSE IF empty THEN v ELSE Raw(K, p.ssum + v)
  <1> DEFINE e == Bump(p.epoch, 1)
             fl == IF KeepsOrder(p, v) THEN p.flags ELSE p.flags \ {"SORTED"}
             mn == IF "SUMMARY" \in p.flags /\ (Count(p) = 0 \/ Less(p, v, p.smin)) THEN v ELSE p.smin
             mx == IF "SUMMARY" \in p.flags /\ (Count(p) = 0 \/ Less(p, p.smax, v)) THEN v ELSE p.smax
             sm == IF ~("SUMMARY" \in p.flags) THEN p.ssum
                   ELSE IF Count(p) = 0 THEN v ELSE Raw(K, p.ssum + v)
             q == [p EXCEPT !.epoch = e, !.flags = fl, !.smin = mn, !.smax = mx, !.ssum = sm]
  <1>1. PushFacts(p, v) = q
    BY DEF PushFacts
  <1>2. /\ q.epoch = e /\ q.flags = fl /\ q.smin = mn /\ q.smax = mx /\ q.ssum = sm
        /\ q.data = p.data /\ q.size = p.size /\ q.buf = p.buf /\ q.heap = p.heap
    <2> HIDE DEF e, fl, mn, mx, sm
    <2> QED
      BY DEF InUse, PoolType
  <1> HIDE DEF q
  <1> QED
    BY <1>1, <1>2 DEF InPlace, SameElements

\* The value was stored at the end, in the block or in a larger one.
Pushed(p, v, q) ==
  /\ q.data = Append(p.data, Raw(Abs(p.size), v)) /\ q.size = p.size
  /\ SameRecord(PushFacts(p, v), q)
  /\ \/ InPlace(p, q) /\ q.flags = PushFacts(p, v).flags
     \/ Moved(p, q) /\ q.flags = PushFacts(p, v).flags \ {"EXTERNAL"}

LEMMA StoreFields ==
  ASSUME NEW p \in PoolType, NEW v
  PROVE  Written(p, Store(p, v)) /\ Store(p, v).data = Append(p.data, Raw(Abs(p.size), v))
  <1> DEFINE data == Append(p.data, Raw(Abs(p.size), v))
             q == [p EXCEPT !.data = data]
  <1>1. Store(p, v) = q
    BY DEF Store
  <1> HIDE DEF data
  <1>2. q.data = data /\ Written(p, q)
    BY DataFields
  <1> QED
    BY <1>1, <1>2 DEF data

LEMMA PushEffect ==
  ASSUME NEW p, InUse(p), NEW v \in Word, NEW ok \in BOOLEAN, NEW r, r = Push(p, v, ok)
  PROVE  \/ "READONLY" \in p.flags /\ r.pool = p /\ r.ret = FALSE
         \/ "READONLY" \notin p.flags /\ r.pool = PushFacts(p, v) /\ r.ret = FALSE /\ Count(p) >= p.capacity
         \/ "READONLY" \notin p.flags /\ Pushed(p, v, r.pool) /\ r.ret = TRUE
  <1> DEFINE q == PushFacts(p, v)
             g == Reserve(q, GrownCap(q.capacity), ok)
  <1>1. /\ InUse(q) /\ q.data = p.data /\ q.size = p.size /\ q.capacity = p.capacity
        /\ q.capacity \in Nat /\ p.size # 0 /\ Count(p) \in Nat
        /\ InPlace(p, q) /\ ("READONLY" \in q.flags <=> "READONLY" \in p.flags)
        /\ ("EXTERNAL" \in q.flags <=> "EXTERNAL" \in p.flags)
    <2>1. InUse(q) /\ q.data = p.data /\ q.size = p.size /\ q.capacity = p.capacity
      BY PushFactsInUse
    <2>2. InPlace(p, q) /\ q.flags = IF KeepsOrder(p, v) THEN p.flags ELSE p.flags \ {"SORTED"}
      BY PushFactsFields
    <2>3. q.capacity \in Nat /\ p.size # 0 /\ Count(p) \in Nat
      BY <2>1, Fields DEF InUse, Sound
    <2> QED
      BY <2>1, <2>2, <2>3
  <1>2. GrownCap(q.capacity) \in Nat
    BY <1>1, GrownLarger
  <1>3. \/ "READONLY" \in p.flags /\ r = Result(p, FALSE)
        \/ "READONLY" \notin p.flags /\ r = Result(q, FALSE) /\ Count(p) >= p.capacity
        \/ "READONLY" \notin p.flags /\ r = Result(Store(q, v), TRUE)
        \/ "READONLY" \notin p.flags /\ g.ret /\ r = Result(Store(g.pool, v), TRUE)
    <2>1. Count(p) < p.capacity \/ Count(p) >= p.capacity
      BY <1>1
    <2>2. ~ (Count(p) < p.capacity /\ p.size = 0)
      BY <1>1
    <2> HIDE DEF q, g
    <2> QED
      BY <2>1, <2>2, Zenon DEF Push, q, g
  <1>4. SameRecord(q, q)
    BY DEF SameRecord
  <1>5. Pushed(p, v, Store(q, v))
    <2>1. /\ Written(q, Store(q, v))
          /\ Store(q, v).data = Append(p.data, Raw(Abs(p.size), v))
      <3> HIDE DEF q
      <3> QED
        BY <1>1, StoreFields DEF InUse
    <2> QED
      BY <1>1, <2>1 DEF Pushed, Written, InPlace
  <1>6. ASSUME "READONLY" \notin p.flags  PROVE Pushed(p, v, Store(g.pool, v))
    <2> DEFINE s == g.pool
    <2> HIDE DEF q
    <2>1. InUse(s)
      BY <1>1, <1>2, GrownAskable, ReserveInUse
    <2>2. s = q \/ Regrown(q, s)
      BY <1>1, <1>2, ReserveEffect
    <2>3. s.data = p.data /\ s.size = p.size
      BY <1>1, <2>2 DEF Regrown, SameElements
    <2> HIDE DEF s
    <2>4. /\ Written(s, Store(s, v))
          /\ Store(s, v).data = Append(p.data, Raw(Abs(p.size), v))
      BY <2>1, <2>3, StoreFields DEF InUse
    <2>5. CASE s = q
      BY <1>5, <2>5 DEF s
    <2>6. CASE Regrown(q, s)
      <3>1. SameRecord(q, Store(s, v)) /\ Store(s, v).flags = q.flags \ {"EXTERNAL"}
        BY <2>4, <2>6 DEF Regrown, Written, SameRecord
      <3>2. Moved(p, Store(s, v))
        BY <1>1, <2>4, <2>6 DEF Regrown, Written, InPlace, Moved
      <3> QED
        BY <2>3, <2>4, <3>1, <3>2 DEF Pushed, Written, q, s
    <2> QED
      BY <2>2, <2>5, <2>6
  <1> HIDE DEF q, g
  <1> QED
    BY <1>3, <1>5, <1>6 DEF Result, q

\* A push into a block with room, on a pool that can be written, stores.
LEMMA PushStores ==
  ASSUME NEW p, InUse(p), NEW v \in Word, NEW ok \in BOOLEAN,
         "READONLY" \notin p.flags, Count(p) < p.capacity
  PROVE  Push(p, v, ok).ret = TRUE /\ Pushed(p, v, Push(p, v, ok).pool)
  <1>1. ~ Count(p) >= p.capacity
    BY Fields DEF InUse
  <1> QED
    BY <1>1, PushEffect

-----------------------------------------------------------------------------
(* Facts and order.                                                         *)

\* A flag was set, nothing else.
Flagged(p, q, f) ==
  InPlace(p, q) /\ SameElements(p, q) /\ q.epoch = p.epoch /\ q.flags = p.flags \cup {f}

LEMMA MarkSortedEffect ==
  ASSUME NEW p, InUse(p)
  PROVE  \/ MarkSorted(p) = p
         \/ Adjacent(p) /\ Flagged(p, MarkSorted(p), "SORTED") /\ SameRecord(p, MarkSorted(p))
  <1> DEFINE fl == p.flags \cup {"SORTED"}
             q == [p EXCEPT !.flags = fl]
  <1>1. MarkSorted(p) = p \/ (Adjacent(p) /\ MarkSorted(p) = q)
    BY DEF MarkSorted
  <1>2. q.flags = fl /\ InPlace(p, q) /\ SameElements(p, q) /\ SameRecord(p, q) /\ q.epoch = p.epoch
    <2> HIDE DEF fl
    <2> QED
      BY DEF InUse, PoolType, InPlace, SameElements, SameRecord
  <1> HIDE DEF q
  <1> QED
    BY <1>1, <1>2 DEF Flagged

LEMMA RecordedEffect ==
  ASSUME NEW p, InUse(p), NEW mn, NEW mx, NEW sm
  PROVE  LET q == Recorded(p, mn, mx, sm) IN
         Flagged(p, q, "SUMMARY") /\ q.smin = mn /\ q.smax = mx /\ q.ssum = sm
  <1> DEFINE fl == p.flags \cup {"SUMMARY"}
             q == [p EXCEPT !.smin = mn, !.smax = mx, !.ssum = sm, !.flags = fl]
  <1>1. Recorded(p, mn, mx, sm) = q
    BY DEF Recorded
  <1>2. q.flags = fl /\ InPlace(p, q) /\ SameElements(p, q) /\ q.epoch = p.epoch
        /\ q.smin = mn /\ q.smax = mx /\ q.ssum = sm
    <2> HIDE DEF fl
    <2> QED
      BY DEF InUse, PoolType, InPlace, SameElements
  <1> HIDE DEF q
  <1> QED
    BY <1>1, <1>2 DEF Flagged

LEMMA SortEffect ==
  ASSUME NEW p, InUse(p), NEW q \in Sort(p)
  PROVE  \/ q = p /\ ("READONLY" \in p.flags \/ Count(p) < 2)
         \/ /\ "READONLY" \notin p.flags
            /\ InPlace(p, q) /\ SameRecord(p, q) /\ q.size = p.size
            /\ q.flags = p.flags \cup {"SORTED"}
            /\ InOrder(q)
            /\ \E f \in Rearrangements(Count(p)) : q.data = [i \in 1 .. Count(p) |-> p.data[f[i]]]
  <1>1. CASE "READONLY" \in p.flags \/ Count(p) < 2
    BY <1>1 DEF Sort
  <1>2. CASE ~ ("READONLY" \in p.flags \/ Count(p) < 2)
    <2>1. q \in SortResults(p) /\ InOrder(q)
      BY <1>2 DEF Sort
    <2>2. PICK f \in Rearrangements(Count(p)) :
            q = [p EXCEPT !.data = [i \in 1 .. Count(p) |-> p.data[f[i]]],
                          !.flags = p.flags \cup {"SORTED"}]
      BY <2>1 DEF SortResults
    <2> DEFINE data == [i \in 1 .. Count(p) |-> p.data[f[i]]]
               fl == p.flags \cup {"SORTED"}
    <2>3. q.data = data /\ q.flags = fl /\ InPlace(p, q) /\ SameRecord(p, q) /\ q.size = p.size
      <3>1. q = [p EXCEPT !.data = data, !.flags = fl]
        BY <2>2
      <3> HIDE DEF data, fl
      <3> QED
        BY <3>1 DEF InUse, PoolType, InPlace, SameRecord
    <2> QED
      BY <1>2, <2>1, <2>3
  <1> QED
    BY <1>1, <1>2

\* Increasing choices of all the run starts.
Choices(p, m) ==
  {g \in [1 .. m -> RunStarts(p)] :
     /\ \A a, b \in 1 .. m : a < b => g[a] < g[b]
     /\ {g[a] : a \in 1 .. m} = RunStarts(p)}

\* Duplicates of a sorted column cut out, where they are.
LEMMA CompactedEffect ==
  ASSUME NEW p, InUse(p), NEW d \in Compactions(p), NEW q, q = Compacted(p, d)
  PROVE  /\ InUse(q) /\ q.data = d
         /\ \E m \in 1 .. Count(p) : \E f \in Choices(p, m) :
              m \in Nat /\ Len(d) = m /\ d = [j \in 1 .. m |-> p.data[f[j]]]
         /\ \/ Len(d) = 1 /\ Written(p, q)
            \/ Len(d) # 1 /\ Dropped(p, q, Len(d) - 1)
  <1>1. p \in PoolType /\ Count(p) \in Nat /\ DOMAIN p.data = 1 .. Count(p)
    BY Fields DEF InUse
  <1>2. PICK m \in 1 .. Count(p) : \E f \in Choices(p, m) : d = [j \in 1 .. m |-> p.data[f[j]]]
    BY DEF Compactions, Choices
  <1>3. PICK f \in Choices(p, m) : d = [j \in 1 .. m |-> p.data[f[j]]]
    BY <1>2
  <1>4. m \in Nat /\ m <= Count(p) /\ f \in [1 .. m -> DOMAIN p.data]
    BY <1>1, <1>3 DEF RunStarts, Choices
  <1>5. InUse([p EXCEPT !.data = d]) /\ Len(d) = m
    BY <1>3, <1>4, SelectionInUse
  <1>6. \E mm \in 1 .. Count(p) : \E ff \in Choices(p, mm) :
              mm \in Nat /\ Len(d) = mm /\ d = [j \in 1 .. mm |-> p.data[ff[j]]]
    BY <1>2, <1>3, <1>4, <1>5
  <1>7. CASE Len(d) = 1
    <2>1. q = [p EXCEPT !.data = d]
      BY <1>7 DEF Compacted
    <2>2. q.data = d /\ Written(p, q)
      BY <1>1, <2>1, DataFields
    <2> QED
      BY <1>5, <1>6, <1>7, <2>1, <2>2
  <1>8. CASE Len(d) # 1
    <2> DEFINE s == DropFacts(p)
               e == Bump(p.epoch, Len(d) - 1)
    <2>1. InUse(s) /\ s.data = p.data /\ s.size = p.size /\ s.capacity = p.capacity /\ Dropped(p, s, 1)
      BY DropFactsInUse, DropFactsEffect
    <2>2. q = [s EXCEPT !.data = d, !.epoch = e]
      BY <1>8 DEF Compacted
    <2>3. e \in 0 .. EpochMod - 1
      <3>1. Len(d) - 1 \in Nat
        BY <1>4, <1>5
      <3> QED
        BY <1>1, <3>1, Fields, BumpRange
    <2>4. d \in Seq(Word) /\ Len(d) <= p.capacity /\ \A i \in DOMAIN d : d[i] < Pow(Abs(p.size))
      <3>1. [p EXCEPT !.data = d].data = d /\ [p EXCEPT !.data = d].capacity = p.capacity
            /\ [p EXCEPT !.data = d].size = p.size
        BY <1>1 DEF PoolType
      <3> DEFINE r == [p EXCEPT !.data = d]
      <3>2. InUse(r) /\ r.data = d /\ r.capacity = p.capacity /\ r.size = p.size
        BY <1>5, <3>1
      <3> HIDE DEF r
      <3> QED
        BY <3>2, Fields DEF InUse, Sound, Count
    <2> HIDE DEF s, e
    <2> DEFINE t == [s EXCEPT !.data = d]
    <2>5. InUse(t)
      BY <2>1, <2>4, DataInUse
    <2>6. /\ q \in PoolType /\ q.data = t.data /\ q.size = t.size /\ q.capacity = t.capacity
          /\ q.byte_cap = t.byte_cap /\ q.buf = t.buf
      BY <2>1, <2>2, <2>3, <2>4 DEF PoolType, InUse
    <2>7. InUse(q)
      <3> HIDE DEF t
      <3> QED
        BY <2>5, <2>6, SameBlock
    <2>8. q.data = d /\ q.epoch = e /\ q.buf = s.buf /\ q.heap = s.heap /\ q.size = s.size
          /\ q.flags = s.flags
      BY <2>1, <2>2 DEF PoolType, InUse
    <2>9. Dropped(p, q, Len(d) - 1)
      BY <2>1, <2>8 DEF Dropped, InPlace, e
    <2> QED
      BY <1>6, <1>8, <2>7, <2>8, <2>9
  <1> QED
    BY <1>7, <1>8

LEMMA UniqueSortedEffect ==
  ASSUME NEW p, InUse(p), NEW ok \in BOOLEAN, NEW q \in UniqueSorted(p, ok)
  PROVE  \/ q = p
         \/ /\ "READONLY" \notin p.flags /\ Count(p) > 1
            /\ \E d \in Compactions(p) :
                 InUse(Compacted(p, d)) /\ Fitted(Compacted(p, d), q)
  <1>1. CASE "READONLY" \in p.flags \/ Count(p) < 2
    BY <1>1 DEF UniqueSorted
  <1>2. CASE ~ ("READONLY" \in p.flags \/ Count(p) < 2)
    <2>1. PICK d \in Compactions(p) : q = FitClass(Compacted(p, d), ok).pool
      BY <1>2 DEF UniqueSorted
    <2>2. InUse(Compacted(p, d))
      BY CompactedEffect
    <2>3. Fitted(Compacted(p, d), q)
      BY <2>1, <2>2, FitClassEffect
    <2>4. Count(p) > 1
      BY <1>2, Fields DEF InUse
    <2> QED
      BY <1>2, <2>2, <2>3, <2>4
  <1> QED
    BY <1>1, <1>2

-----------------------------------------------------------------------------
(* Creation and release.                                                    *)

\* An empty pool without facts, with a block of its own or none.
Fresh(heap, size, q) ==
  /\ q.size = size /\ q.flags = SignFlag(size)
  /\ q.smin = 0 /\ q.smax = 0 /\ q.ssum = 0 /\ q.epoch = 0
  /\ \/ q.buf = "null" /\ q.heap = heap
     \/ q.buf = "heap" /\ q.heap = heap + 1

LEMMA PoolInitEffect ==
  ASSUME NEW heap \in Int, NEW size \in Sizes, NEW cap \in Nat, NEW ok \in BOOLEAN
  PROVE  LET r == PoolInit(heap, size, cap, ok) IN
         /\ Fresh(heap, size, r.pool) /\ r.pool.data = <<>>
         /\ ~r.ret => r.pool.heap = heap
         /\ r.ret \in BOOLEAN
  <1> DEFINE bytes == AlignUp(cap * Bytes(size))
             flags == SignFlag(size)
             z == Zeroed(heap)
             fresh == [z EXCEPT !.size = size, !.flags = flags, !.capacity = cap]
             q == [fresh EXCEPT !.buf = "heap", !.byte_cap = bytes, !.heap = fresh.heap + 1]
             r == PoolInit(heap, size, cap, ok)
  <1>1. r = Result(fresh, TRUE) \/ r = Result(fresh, FALSE) \/ r = Result(q, TRUE)
    BY DEF PoolInit
  <1> HIDE DEF bytes, flags
  <1>z. z = [data |-> <<>>, size |-> 0, flags |-> {}, smin |-> 0, smax |-> 0, ssum |-> 0,
             epoch |-> 0, capacity |-> 0, byte_cap |-> 0, buf |-> "null", heap |-> heap]
    BY DEF Zeroed
  <1> HIDE DEF z
  <1>2. /\ fresh.data = <<>> /\ fresh.size = size /\ fresh.flags = flags
        /\ fresh.smin = 0 /\ fresh.smax = 0 /\ fresh.ssum = 0 /\ fresh.epoch = 0
        /\ fresh.buf = "null" /\ fresh.heap = heap
        /\ DOMAIN fresh = {"data", "size", "flags", "smin", "smax", "ssum", "epoch",
                           "capacity", "byte_cap", "buf", "heap"}
    BY <1>z
  <1> HIDE DEF fresh
  <1>3. /\ q.data = <<>> /\ q.size = size /\ q.flags = flags
        /\ q.smin = 0 /\ q.smax = 0 /\ q.ssum = 0 /\ q.epoch = 0
        /\ q.buf = "heap" /\ q.heap = heap + 1
    BY <1>2
  <1> HIDE DEF q
  <1>4. Fresh(heap, size, fresh) /\ fresh.heap = heap /\ fresh.data = <<>>
    BY <1>2 DEF Fresh, flags
  <1>5. Fresh(heap, size, q) /\ q.data = <<>>
    BY <1>3 DEF Fresh, flags
  <1> HIDE DEF r
  <1>6. \/ r.pool = fresh /\ (r.ret = TRUE \/ r.ret = FALSE)
        \/ r.pool = q /\ r.ret = TRUE
    BY <1>1 DEF Result
  <1>7. Fresh(heap, size, r.pool) /\ r.pool.data = <<>> /\ (~r.ret => r.pool.heap = heap) /\ r.ret \in BOOLEAN
    BY <1>4, <1>5, <1>6
  <1> QED
    BY <1>7 DEF r

LEMMA CopyEffect ==
  ASSUME NEW heap \in Int, NEW src, InUse(src), NEW ok \in BOOLEAN, Copy(heap, src, ok).ret
  PROVE  LET q == Copy(heap, src, ok).pool IN
         /\ q.data = src.data /\ q.size = src.size /\ q.flags = src.flags \ {"EXTERNAL"}
         /\ q.smin = 0 /\ q.smax = 0 /\ q.ssum = 0
         /\ \/ q.buf = "null" /\ q.heap = heap
            \/ q.buf = "heap" /\ q.heap = heap + 1
  <1> DEFINE r == PoolInit(heap, src.size, Count(src), ok)
             flags == src.flags \ {"EXTERNAL"}
             q == [r EXCEPT !.pool.data = src.data, !.pool.flags = flags]
  <1>1. src \in PoolType /\ src.size \in Sizes /\ Count(src) \in Nat
    BY Fields DEF InUse, Sound, Sizes, PoolType
  <1>2. r = [pool |-> r.pool, ret |-> r.ret] /\ r.pool \in PoolType
    <2>1. r.pool \in PoolType
      BY <1>1, PoolInitInUse
    <2> QED
      BY <2>1 DEF PoolInit, Result
  <1>3. Fresh(heap, src.size, r.pool)
    BY <1>1, PoolInitEffect
  <1>4. Copy(heap, src, ok) = q
    BY DEF Copy
  <1> HIDE DEF r, flags
  <1>5. q.pool = [r.pool EXCEPT !.data = src.data, !.flags = flags]
    BY <1>2
  <1> HIDE DEF q
  <1>6. /\ q.pool.data = src.data /\ q.pool.flags = flags /\ q.pool.size = r.pool.size
        /\ q.pool.smin = r.pool.smin /\ q.pool.smax = r.pool.smax /\ q.pool.ssum = r.pool.ssum
        /\ q.pool.buf = r.pool.buf /\ q.pool.heap = r.pool.heap
    BY <1>2, <1>5 DEF PoolType
  <1> QED
    BY <1>3, <1>4, <1>6 DEF Fresh, flags

\* A constructor that allocated fills the pool.
WithData(s, data) == [s EXCEPT !.pool.data = data]

LEMMA FilledEffect ==
  ASSUME NEW heap \in Int, NEW size \in Sizes, NEW n \in Nat, NEW ok \in BOOLEAN, NEW data, NEW r,
         r = WithData(PoolInit(heap, size, n, ok), data)
  PROVE  /\ Fresh(heap, size, r.pool) /\ r.pool.data = data
         /\ r.ret = PoolInit(heap, size, n, ok).ret
  <1> DEFINE s == PoolInit(heap, size, n, ok)
  <1>1. s = [pool |-> s.pool, ret |-> s.ret] /\ s.pool \in PoolType
    <2>1. s.pool \in PoolType
      BY PoolInitInUse
    <2> QED
      BY <2>1 DEF PoolInit, Result
  <1>2. Fresh(heap, size, s.pool)
    BY PoolInitEffect
  <1> HIDE DEF s
  <1>3. r.pool = [s.pool EXCEPT !.data = data] /\ r.ret = s.ret
    BY <1>1 DEF s, WithData
  <1>4. r.pool.data = data /\ Written(s.pool, r.pool)
    BY <1>1, <1>3, DataFields
  <1> QED
    BY <1>2, <1>3, <1>4 DEF Fresh, Written, InPlace, SameRecord, s

\* What s2r_from_array_auto builds of an array of words.
AutoBuilt(heap, arr, r) ==
  /\ \E size \in Sizes : size > 0 /\ Fresh(heap, size, r.pool)
  /\ ~r.ret => r.pool.heap = heap
  /\ r.ret => r.pool.data = arr
  /\ r.ret \in BOOLEAN

LEMMA FromArrayAutoEffect ==
  ASSUME NEW heap \in Int, NEW arr \in Seq(Word), NEW ok \in BOOLEAN
  PROVE  AutoBuilt(heap, arr, FromArrayAuto(heap, arr, ok))
  <1> DEFINE vs == {arr[i] : i \in DOMAIN arr}
             c == Classify(vs)
             s == PoolInit(heap, c, Len(arr), ok)
             q == [s EXCEPT !.pool.data = arr]
             r == FromArrayAuto(heap, arr, ok)
  <1>1. \A i \in DOMAIN arr : arr[i] \in Word
    OBVIOUS
  <1>2. UFits(K, vs)
    <2>1. Pow(K) \in Nat
      BY Conversions, PowFacts
    <2> QED
      BY <1>1, <2>1 DEF UFits, Word
  <1>3. c \in Classes
    <2> HIDE DEF vs
    <2> QED
      BY <1>2, Conversions, ClassifyFits
  <1> HIDE DEF c
  <1>4. c \in Sizes /\ c > 0 /\ Len(arr) \in Nat
    BY <1>3, ClassAssumption DEF Classes, Sizes
  <1>5. Fresh(heap, c, s.pool) /\ s.pool.data = <<>> /\ (~s.ret => s.pool.heap = heap) /\ s.ret \in BOOLEAN
    BY <1>4, PoolInitEffect
  <1>6. Fresh(heap, c, q.pool) /\ q.pool.data = arr /\ q.ret = s.ret
    <2> DEFINE qq == q
    <2>1. qq = WithData(PoolInit(heap, c, Len(arr), ok), arr)
      BY DEF WithData
    <2> HIDE DEF qq
    <2>2. Fresh(heap, c, qq.pool) /\ qq.pool.data = arr /\ qq.ret = PoolInit(heap, c, Len(arr), ok).ret
      BY <1>4, <2>1, FilledEffect
    <2> QED
      BY <2>2 DEF qq
  <1>7. r = IF arr # <<>> /\ s.ret THEN q ELSE s
    BY DEF FromArrayAuto, c
  <1> HIDE DEF s, q, r
  <1>8. AutoBuilt(heap, arr, r)
    BY <1>4, <1>5, <1>6, <1>7 DEF AutoBuilt
  <1> QED
    BY <1>8 DEF r

LEMMA FromArraySignedAutoEffect ==
  ASSUME NEW heap \in Int, NEW arr \in Seq(Int64), NEW ok \in BOOLEAN, NEW r,
         r = FromArraySignedAuto(heap, arr, ok)
  PROVE  /\ \E size \in Sizes : size < 0 /\ Fresh(heap, size, r.pool)
         /\ ~r.ret => r.pool.heap = heap
         /\ r.ret => Values(r.pool) = arr
         /\ r.ret \in BOOLEAN
  <1> DEFINE vs == {arr[i] : i \in DOMAIN arr}
             size == ClassifySigned(vs)
             n == Len(arr)
             data == [i \in DOMAIN arr |-> Raw(-size, arr[i])]
             s == PoolInit(heap, size, n, ok)
             q == [s EXCEPT !.pool.data = data]
  <1>1. /\ \A i \in DOMAIN arr : arr[i] \in Int64
        /\ n \in Nat /\ DOMAIN arr = 1 .. n
    OBVIOUS
  <1>2. SFits(K, vs)
    BY <1>1, Conversions DEF SFits, Int64
  <1>3. -size \in Classes /\ size \in Int /\ SFits(-size, vs)
    <2> HIDE DEF vs
    <2> QED
      BY <1>2, Conversions, ClassifySignedFits
  <1> HIDE DEF size
  <1>4. size \in Sizes /\ size < 0
    BY <1>3, ClassAssumption DEF Classes, Sizes
  <1>5. Fresh(heap, size, s.pool) /\ s.pool.data = <<>> /\ (~s.ret => s.pool.heap = heap) /\ s.ret \in BOOLEAN
    BY <1>1, <1>4, PoolInitEffect
  <1>6. Fresh(heap, size, q.pool) /\ q.pool.data = data /\ q.ret = s.ret
    <2> DEFINE qq == q
    <2>1. qq = WithData(PoolInit(heap, size, n, ok), data)
      BY DEF WithData
    <2> HIDE DEF qq, data, n
    <2>2. Fresh(heap, size, qq.pool) /\ qq.pool.data = data /\ qq.ret = PoolInit(heap, size, n, ok).ret
      <3>1. n \in Nat
        BY <1>1
      <3> QED
        BY ONLY heap \in Int, ok \in BOOLEAN, <1>4, <2>1, <3>1, FilledEffect
    <2> QED
      BY <2>2 DEF qq
  <1>7. r = IF arr # <<>> /\ s.ret THEN q ELSE s
    BY DEF FromArraySignedAuto, size
  <1>8. ASSUME NEW p, p.size = size, p.data = data  PROVE Values(p) = arr
    <2>1. \A i \in DOMAIN arr : arr[i] \in Int /\ -Half[-size] <= arr[i] /\ arr[i] < Half[-size]
      <3>1. Half[K] \in Int
        BY Conversions
      <3>2. \A i \in DOMAIN arr : arr[i] \in Int
        BY <1>1, <3>1 DEF Int64
      <3>3. \A i \in DOMAIN arr : -Half[-size] <= arr[i] /\ arr[i] < Half[-size]
        BY <1>3 DEF SFits
      <3> QED
        BY <3>2, <3>3
    <2>2. \A i \in DOMAIN arr : AsSigned(-size, Raw(-size, arr[i])) = arr[i]
      BY <1>3, <2>1, SignExtended
    <2>3. \A i \in DOMAIN arr : Value(p, i) = arr[i]
      BY <1>4, <1>8, <2>2 DEF Value, IsSigned, GetSigned
    <2> QED
      BY <1>1, <1>8, <2>3 DEF Values
  <1>9. arr = <<>> => data = <<>>
    OBVIOUS
  <1> HIDE DEF s, q, data
  <1>10. r.ret => r.pool.data = data /\ r.pool.size = size
    BY <1>5, <1>6, <1>7, <1>9 DEF Fresh
  <1>11. r.ret => Values(r.pool) = arr
    BY <1>8, <1>10
  <1> QED
    BY <1>4, <1>5, <1>6, <1>7, <1>11

LEMMA MappedEffect ==
  ASSUME NEW heap, NEW size, NEW data
  PROVE  LET q == Mapped(heap, size, data) IN
         /\ q.data = data /\ q.size = size /\ q.flags = SignFlag(size) \cup {"READONLY", "EXTERNAL"}
         /\ q.buf = "mapping" /\ q.heap = heap
  <1> DEFINE z == Zeroed(heap)
             fl == SignFlag(size) \cup {"READONLY", "EXTERNAL"}
             n == Len(data)
             b == n * Bytes(size)
             q == [z EXCEPT !.data = data, !.size = size, !.buf = "mapping", !.flags = fl,
                            !.capacity = n, !.byte_cap = b]
  <1>1. z = [data |-> <<>>, size |-> 0, flags |-> {}, smin |-> 0, smax |-> 0, ssum |-> 0,
             epoch |-> 0, capacity |-> 0, byte_cap |-> 0, buf |-> "null", heap |-> heap]
    BY DEF Zeroed
  <1>2. Mapped(heap, size, data) = q
    BY DEF Mapped
  <1> HIDE DEF z, fl, n, b
  <1>3. q.data = data /\ q.size = size /\ q.flags = fl /\ q.buf = "mapping" /\ q.heap = heap
    BY <1>1
  <1> QED
    BY <1>2, <1>3 DEF fl

LEMMA PoolFreeEffect ==
  ASSUME NEW p \in PoolType
  PROVE  PoolFree(p).heap = IF p.buf # "null" /\ "EXTERNAL" \notin p.flags THEN p.heap - 1 ELSE p.heap
  <1> DEFINE h == IF p.buf # "null" /\ "EXTERNAL" \notin p.flags THEN p.heap - 1 ELSE p.heap
             q == [p EXCEPT !.data = <<>>, !.size = 0, !.flags = {}, !.capacity = 0, !.byte_cap = 0,
                            !.buf = "null", !.heap = h]
  <1>1. PoolFree(p) = q
    BY DEF PoolFree
  <1> HIDE DEF h
  <1>2. q.heap = h
    BY DEF PoolType
  <1> QED
    BY <1>1, <1>2 DEF h

-----------------------------------------------------------------------------
(* The running sum of a column, as a function of its values.                *)

\* f holds the sums of the first 0, 1, ..., n values of v.
Sums(f, v, n) == f = [i \in 0 .. n |-> IF i = 0 THEN 0 ELSE Raw(K, f[i - 1] + v[i])]

\* A property of 0 that passes from each number to the next holds up to n.
LEMMA UpTo ==
  ASSUME NEW n \in Nat, NEW S \in SUBSET (0 .. n), 0 \in S,
         \A m \in 1 .. n : m - 1 \in S => m \in S
  PROVE  S = 0 .. n
  <1> DEFINE T == (0 .. n) \ S
  <1>1. SUFFICES ASSUME T # {}  PROVE FALSE
    OBVIOUS
  <1>2. T \subseteq Nat
    OBVIOUS
  <1>3. \E c \in T : \A d \in T : ~ (<<d, c>> \in OpToRel(<, Nat))
    BY <1>1, <1>2, NatLessThanWellFounded, WFMin, Zenon
  <1>4. PICK c \in T : \A d \in T : ~ (<<d, c>> \in OpToRel(<, Nat))
    BY <1>3
  <1>a. c \in T
    BY <1>4
  <1>5. c \in 1 .. n /\ c - 1 \in 0 .. n /\ c - 1 < c /\ c \in Nat /\ c - 1 \in Nat
    BY <1>a
  <1>6. c - 1 \notin T
    BY <1>4, <1>5 DEF OpToRel
  <1> QED
    BY <1>4, <1>5, <1>6

\* There is a function that steps from a through st.
Stepping(f, m, D, a, st) ==
  f \in [0 .. m -> D] /\ f[0] = a /\ \A i \in 1 .. m : f[i] = st[i][f[i - 1]]

\* Steps that stay in a set can be taken one after another.
LEMMA StepsExist ==
  ASSUME NEW n \in Nat, NEW D, NEW a \in D, NEW st \in [1 .. n -> [D -> D]]
  PROVE  \E f : Stepping(f, n, D, a, st)
  <1> DEFINE S == {m \in 0 .. n : \E f : Stepping(f, m, D, a, st)}
  <1>1. 0 \in S
    <2> DEFINE f == [i \in 0 .. 0 |-> a]
    <2>1. Stepping(f, 0, D, a, st)
      BY DEF Stepping
    <2> QED
      BY <2>1
  <1>2. ASSUME NEW m \in 1 .. n, m - 1 \in S  PROVE m \in S
    <2>1. PICK f : Stepping(f, m - 1, D, a, st)
      BY <1>2
    <2>a. /\ f \in [0 .. m - 1 -> D] /\ f[0] = a
          /\ \A i \in 1 .. m - 1 : f[i] = st[i][f[i - 1]]
      BY <2>1 DEF Stepping
    <2>b. f[m - 1] \in D
      BY <2>a
    <2> DEFINE x == st[m][f[m - 1]]
               g == [i \in 0 .. m |-> IF i = m THEN x ELSE f[i]]
    <2>2. x \in D
      <3>1. st[m] \in [D -> D]
        OBVIOUS
      <3> QED
        BY <2>b, <3>1
    <2>3. g \in [0 .. m -> D] /\ g[0] = a
      <3> HIDE DEF x
      <3> QED
        BY <2>a, <2>2
    <2>4. ASSUME NEW i \in 1 .. m  PROVE g[i] = st[i][g[i - 1]]
      <3>1. CASE i = m
        <4>1. g[i] = st[m][f[m - 1]] /\ g[i - 1] = f[m - 1]
          BY <3>1
        <4> QED
          BY <3>1, <4>1
      <3>2. CASE i # m
        <4>1. i \in 1 .. m - 1
          BY <3>2
        <4>2. g[i] = f[i] /\ g[i - 1] = f[i - 1]
          BY <3>2, <4>1
        <4> QED
          BY <2>a, <4>1, <4>2
      <3> QED
        BY <3>1, <3>2
    <2> HIDE DEF g
    <2>5. Stepping(g, m, D, a, st)
      BY <2>3, <2>4 DEF Stepping
    <2> QED
      BY <2>5
  <1>3. S = 0 .. n
    <2> HIDE DEF S
    <2>1. S \in SUBSET (0 .. n)
      BY DEF S
    <2> QED
      BY <1>1, <1>2, <2>1, UpTo
  <1>4. n \in S
    <2> HIDE DEF S
    <2> QED
      BY <1>3
  <1> QED
    BY <1>4

\* There are such sums, words all of them.
LEMMA SumsExist ==
  ASSUME NEW n \in Nat, NEW v
  PROVE  \E f : Sums(f, v, n)
  <1> DEFINE S == {m \in 0 .. n : \E f : Sums(f, v, m)}
  <1>1. 0 \in S
    <2> DEFINE f == [i \in 0 .. 0 |-> 0]
    <2>1. Sums(f, v, 0)
      BY DEF Sums
    <2> QED
      BY <2>1
  <1>2. ASSUME NEW m \in 1 .. n, m - 1 \in S  PROVE m \in S
    <2>1. PICK f : Sums(f, v, m - 1)
      BY <1>2
    <2> DEFINE g == [i \in 0 .. m |-> IF i = m THEN Raw(K, f[m - 1] + v[m]) ELSE f[i]]
    <2>2. \A i \in 0 .. m - 1 : f[i] = IF i = 0 THEN 0 ELSE Raw(K, f[i - 1] + v[i])
      BY <2>1 DEF Sums
    <2>3. ASSUME NEW i \in 0 .. m  PROVE g[i] = IF i = 0 THEN 0 ELSE Raw(K, g[i - 1] + v[i])
      <3>1. CASE i = m
        <4>1. g[i] = Raw(K, f[m - 1] + v[m]) /\ g[m - 1] = f[m - 1] /\ i # 0
          BY <3>1
        <4> QED
          BY <3>1, <4>1
      <3>2. CASE i # m /\ i # 0
        <4>1. i \in 0 .. m - 1 /\ i - 1 \in 0 .. m /\ i - 1 # m
          BY <3>2
        <4>2. g[i] = f[i] /\ g[i - 1] = f[i - 1]
          BY <3>2, <4>1
        <4> QED
          BY <2>2, <3>2, <4>1, <4>2
      <3>3. CASE i # m /\ i = 0
        BY <2>2, <3>3
      <3> QED
        BY <3>1, <3>2, <3>3
    <2>4. Sums(g, v, m)
      <3>1. g = [i \in 0 .. m |-> g[i]]
        OBVIOUS
      <3> HIDE DEF g
      <3>2. g = [i \in 0 .. m |-> IF i = 0 THEN 0 ELSE Raw(K, g[i - 1] + v[i])]
        BY <2>3, <3>1
      <3> QED
        BY <3>2 DEF Sums
    <2> QED
      BY <2>4
  <1>3. S = 0 .. n
    <2> HIDE DEF S
    <2>1. S \in SUBSET (0 .. n)
      BY DEF S
    <2> QED
      BY <1>1, <1>2, <2>1, UpTo
  <1> QED
    BY <1>3

\* The running sum of a pool is the last of the sums of its values.
LEMMA RunningSumIs ==
  ASSUME NEW p, InUse(p)
  PROVE  \E f : Sums(f, Values(p), Count(p)) /\ RunningSum(p) = f[Count(p)]
  <1> DEFINE n == Count(p)
             P(f) == f = [i \in 0 .. n |-> IF i = 0 THEN 0 ELSE Raw(K, f[i - 1] + Value(p, i))]
  <1>1. n \in Nat /\ DOMAIN p.data = 1 .. n
    BY Fields DEF InUse
  <1>2. PICK f : Sums(f, Values(p), n)
    BY <1>1, SumsExist
  <1>3. \A i \in 1 .. n : Values(p)[i] = Value(p, i)
    BY <1>1 DEF Values
  <1>4. \A g : Sums(g, Values(p), n) <=> P(g)
    <2> TAKE g
    <2>1. [i \in 0 .. n |-> IF i = 0 THEN 0 ELSE Raw(K, g[i - 1] + Values(p)[i])]
          = [i \in 0 .. n |-> IF i = 0 THEN 0 ELSE Raw(K, g[i - 1] + Value(p, i))]
      <3>1. \A i \in 0 .. n : (IF i = 0 THEN 0 ELSE Raw(K, g[i - 1] + Values(p)[i]))
                               = IF i = 0 THEN 0 ELSE Raw(K, g[i - 1] + Value(p, i))
        <4>1. \A i \in 0 .. n : i # 0 => i \in 1 .. n
          BY <1>1
        <4> QED
          BY <1>3, <4>1
      <3> HIDE DEF n
      <3> QED
        BY <3>1
    <2> QED
      BY <2>1 DEF Sums
  <1> DEFINE s == CHOOSE g : P(g)
  <1>5. P(s)
    BY <1>2, <1>4
  <1>6. RunningSum(p) = s[n]
    BY DEF RunningSum
  <1> QED
    BY <1>4, <1>5, <1>6

\* Narrowing before an addition changes nothing after it.
LEMMA RawPlus ==
  ASSUME NEW a \in Int, NEW b \in Int
  PROVE  Raw(K, Raw(K, a) + b) = Raw(K, a + b)
  <1> DEFINE n == Pow(K)
             q == a \div n
             s == a % n
             m == q * n
  <1>1. n \in Nat \ {0}
    BY Conversions, PowFacts
  <1> HIDE DEF n
  <1>2. q \in Int /\ a = m + s /\ s \in 0 .. n - 1 /\ m \in Int
    BY <1>1, DivMod
  <1> HIDE DEF q
  <1>3. s \in Int
    BY <1>1, <1>2
  <1> HIDE DEF m, s
  <1>4. a + b = (s + b) + m /\ s + b \in Int
    BY <1>2, <1>3
  <1>5. ((s + b) + m) % n = (s + b) % n
    BY <1>1, <1>2, <1>4, ModPlus DEF m
  <1>6. Raw(K, a) = s /\ Raw(K, s + b) = (s + b) % n /\ Raw(K, a + b) = (a + b) % n
    BY DEF Raw, s, n
  <1> QED
    BY <1>4, <1>5, <1>6

\* The sums step by step, for values that are integers.
LEMMA SumsFacts ==
  ASSUME NEW n \in Nat, NEW v, NEW f, Sums(f, v, n), \A i \in 1 .. n : v[i] \in Int
  PROVE  /\ f[0] = 0
         /\ \A i \in 1 .. n : f[i] = Raw(K, f[i - 1] + v[i])
         /\ \A i \in 0 .. n : f[i] \in Int
  <1>1. \A i \in 0 .. n : f[i] = IF i = 0 THEN 0 ELSE Raw(K, f[i - 1] + v[i])
    BY DEF Sums
  <1>2. f[0] = 0
    BY <1>1
  <1>3. \A i \in 1 .. n : f[i] = Raw(K, f[i - 1] + v[i])
    BY <1>1
  <1> DEFINE S == {m \in 0 .. n : f[m] \in Int}
  <1>4. 0 \in S
    BY <1>2
  <1>5. ASSUME NEW m \in 1 .. n, m - 1 \in S  PROVE m \in S
    <2>1. f[m - 1] + v[m] \in Int
      BY <1>5
    <2>2. K \in Classes /\ Word \subseteq Int
      BY Conversions
    <2>3. Raw(K, f[m - 1] + v[m]) \in Int
      BY <2>1, <2>2, RawRange
    <2> QED
      BY <1>3, <2>3
  <1>6. S = 0 .. n
    <2> HIDE DEF S
    <2>1. S \in SUBSET (0 .. n)
      BY DEF S
    <2> QED
      BY <1>4, <1>5, <2>1, UpTo
  <1> QED
    BY <1>2, <1>3, <1>6

\* Columns that begin alike have the same sums so far.
LEMMA SumsAgree ==
  ASSUME NEW n \in Nat, NEW m \in Nat, NEW k \in Nat, k <= n, k <= m,
         NEW v, NEW w, NEW f, NEW g, Sums(f, v, n), Sums(g, w, m),
         \A i \in 1 .. k : v[i] = w[i]
  PROVE  f[k] = g[k]
  <1> DEFINE S == {i \in 0 .. k : f[i] = g[i]}
  <1>1. \A i \in 0 .. k : f[i] = IF i = 0 THEN 0 ELSE Raw(K, f[i - 1] + v[i])
    BY DEF Sums
  <1>2. \A i \in 0 .. k : g[i] = IF i = 0 THEN 0 ELSE Raw(K, g[i - 1] + w[i])
    BY DEF Sums
  <1>3. 0 \in S
    BY <1>1, <1>2
  <1>4. ASSUME NEW i \in 1 .. k, i - 1 \in S  PROVE i \in S
    BY <1>1, <1>2, <1>4
  <1>5. S = 0 .. k
    <2> HIDE DEF S
    <2>1. S \in SUBSET (0 .. k)
      BY DEF S
    <2> QED
      BY <1>3, <1>4, <2>1, UpTo
  <1> QED
    BY <1>5

\* One value replaced by another.
DifferAt(v, w, n, j) ==
  /\ v \in [1 .. n -> Int] /\ w \in [1 .. n -> Int]
  /\ \A i \in 1 .. n : i # j => w[i] = v[i]
LEMMA SumsReplaced ==
  ASSUME NEW n \in Nat, NEW v, NEW w, NEW j \in 1 .. n, DifferAt(v, w, n, j),
         NEW f, NEW g, Sums(f, v, n), Sums(g, w, n)
  PROVE  Raw(K, g[n] + v[j]) = Raw(K, f[n] + w[j])
  <1>v. v \in [1 .. n -> Int] /\ w \in [1 .. n -> Int]
    BY DEF DifferAt
  <1> DEFINE x == w[j]
  <1>0. x \in Int
    BY <1>v
  <1>1. w[j] = x /\ \A i \in 1 .. n : i # j => w[i] = v[i]
    BY DEF DifferAt
  <1>2. Sums(g, w, n)
    OBVIOUS
  <1>3. /\ \A i \in 1 .. n : f[i] = Raw(K, f[i - 1] + v[i])
        /\ \A i \in 0 .. n : f[i] \in Int
    BY <1>v, SumsFacts
  <1>4. /\ \A i \in 1 .. n : g[i] = Raw(K, g[i - 1] + w[i])
        /\ \A i \in 0 .. n : g[i] \in Int
    BY ZenonT(60), <1>v, <1>1, <1>2, SumsFacts
  <1>5. g[j - 1] = f[j - 1]
    <2>1. j - 1 \in Nat /\ j - 1 <= n /\ \A i \in 1 .. j - 1 : v[i] = w[i]
      BY <1>1
    <2> QED
      BY <1>2, <2>1, SumsAgree
  <1> DEFINE S == {m \in 0 .. n : m >= j => Raw(K, g[m] + v[j]) = Raw(K, f[m] + x)}
  <1>6. 0 \in S
    OBVIOUS
  <1>7. ASSUME NEW m \in 1 .. n, m - 1 \in S  PROVE m \in S
    <2>0. m - 1 \in 0 .. n /\ f[m - 1] \in Int /\ g[m - 1] \in Int /\ v[m] \in Int /\ v[j] \in Int
      BY <1>v, <1>3, <1>4
    <2> DEFINE a == f[m - 1]
               b == g[m - 1]
               y == v[m]
               z == v[j]
    <2>a. x \in Int /\ a \in Int /\ b \in Int /\ y \in Int /\ z \in Int
      BY <1>0, <2>0
    <2>1. CASE m = j
      <3>1. a = b /\ y = z
        BY <1>5, <2>1
      <3>2. g[m] = Raw(K, b + x) /\ f[m] = Raw(K, a + y)
        BY <1>1, <1>3, <1>4, <2>1
      <3> HIDE DEF a, b, y, z, x
      <3>3. Raw(K, Raw(K, b + x) + z) = Raw(K, (b + x) + z)
        BY <2>a, RawPlus
      <3>4. Raw(K, Raw(K, a + y) + x) = Raw(K, (a + y) + x)
        BY <2>a, RawPlus
      <3>5. (b + x) + z = (a + y) + x
        BY <2>a, <3>1
      <3>6. Raw(K, g[m] + z) = Raw(K, f[m] + x)
        BY <3>2, <3>3, <3>4, <3>5
      <3> QED
        BY <3>6 DEF z
    <2>2. CASE m > j
      <3>1. Raw(K, b + z) = Raw(K, a + x)
        BY <1>7, <2>2
      <3>2. g[m] = Raw(K, b + y) /\ f[m] = Raw(K, a + y)
        BY <1>1, <1>3, <1>4, <2>2
      <3> HIDE DEF a, b, y, z, x
      <3>3. Raw(K, Raw(K, b + y) + z) = Raw(K, (b + y) + z)
        BY <2>a, RawPlus
      <3>4. Raw(K, Raw(K, a + y) + x) = Raw(K, (a + y) + x)
        BY <2>a, RawPlus
      <3>5. Raw(K, Raw(K, b + z) + y) = Raw(K, (b + z) + y)
        BY <2>a, RawPlus
      <3>6. Raw(K, Raw(K, a + x) + y) = Raw(K, (a + x) + y)
        BY <2>a, RawPlus
      <3>7. (b + y) + z = (b + z) + y /\ (a + y) + x = (a + x) + y
        BY <2>a
      <3>8. Raw(K, g[m] + z) = Raw(K, f[m] + x)
        BY <3>1, <3>2, <3>3, <3>4, <3>5, <3>6, <3>7
      <3> QED
        BY <3>8 DEF z
    <2>3. CASE m < j
      BY <2>3
    <2> QED
      BY <2>1, <2>2, <2>3
  <1>8. S = 0 .. n
    <2> HIDE DEF S
    <2>1. S \in SUBSET (0 .. n)
      BY DEF S
    <2> QED
      BY <1>6, <1>7, <2>1, UpTo
  <1> QED
    BY <1>8

\* A rearrangement of 1 .. m fixes a rearrangement of 1 .. m - 1: whoever went to
\* m goes where m went.
LEMMA Shortened ==
  ASSUME NEW m \in Nat \ {0}, NEW f \in Rearrangements(m), NEW g,
         g = [i \in 1 .. m - 1 |-> IF f[i] = m THEN f[m] ELSE f[i]]
  PROVE  g \in Rearrangements(m - 1)
  <1>1. f \in [1 .. m -> 1 .. m] /\ \A i, j \in 1 .. m : i # j => f[i] # f[j]
    BY DEF Rearrangements
  <1>2. m \in 1 .. m /\ \A i \in 1 .. m - 1 : i \in 1 .. m /\ i # m
    OBVIOUS
  <1>3. \A i \in 1 .. m - 1 : f[i] \in 1 .. m /\ f[m] \in 1 .. m /\ f[i] # f[m]
    BY <1>1, <1>2
  <1>4. \A i \in 1 .. m - 1 : g[i] = IF f[i] = m THEN f[m] ELSE f[i]
    OBVIOUS
  <1>5. \A i \in 1 .. m - 1 : g[i] \in 1 .. m - 1
    BY <1>3, <1>4
  <1>6. g \in [1 .. m - 1 -> 1 .. m - 1]
    BY <1>5
  <1>7. ASSUME NEW i \in 1 .. m - 1, NEW j \in 1 .. m - 1, i # j  PROVE g[i] # g[j]
    <2>1. f[i] # f[j] /\ f[i] # f[m] /\ f[j] # f[m]
      BY <1>1, <1>2, <1>7
    <2> QED
      BY <1>4, <2>1
  <1> QED
    BY <1>6, <1>7 DEF Rearrangements

\* Rearranging m values leaves their sum.
Through(w, v, f, m) == w = [i \in 1 .. m |-> v[f[i]]]
Alike(m) ==
  \A v, f, w, a, b :
    /\ v \in [1 .. m -> Int] /\ f \in Rearrangements(m)
    /\ Through(w, v, f, m) /\ Sums(a, v, m) /\ Sums(b, w, m)
    => a[m] = b[m]

LEMMA AlikeStep ==
  ASSUME NEW m \in Nat \ {0}, Alike(m - 1)
  PROVE  Alike(m)
  <1>a. SUFFICES ASSUME NEW u, NEW g, NEW ug, NEW aa, NEW bb,
                        u \in [1 .. m -> Int], g \in Rearrangements(m),
                        Through(ug, u, g, m), Sums(aa, u, m), Sums(bb, ug, m)
                 PROVE  aa[m] = bb[m]
    BY DEF Alike
  <1>0. m - 1 \in Nat /\ m - 1 <= m - 1 /\ m - 1 <= m /\ m \in Nat
    OBVIOUS
  <1> DEFINE j == g[m]
             h == [i \in 1 .. m - 1 |-> IF g[i] = m THEN g[m] ELSE g[i]]
             short == [i \in 1 .. m - 1 |-> u[i]]
             moved == [i \in 1 .. m - 1 |-> IF i = j THEN u[m] ELSE u[i]]
             mh == [i \in 1 .. m - 1 |-> moved[h[i]]]
  <1>2. /\ g \in [1 .. m -> 1 .. m] /\ \A i, k \in 1 .. m : i # k => g[i] # g[k]
        /\ m \in 1 .. m /\ \A i \in 1 .. m - 1 : i \in 1 .. m /\ i # m
    BY SMTT(30), <1>a DEF Rearrangements
  <1>3. h \in Rearrangements(m - 1)
    <2> HIDE DEF h
    <2>1. h = [i \in 1 .. m - 1 |-> IF g[i] = m THEN g[m] ELSE g[i]]
      BY DEF h
    <2> QED
      BY <1>a, <2>1, Shortened
  <1>4. /\ short \in [1 .. m - 1 -> Int] /\ moved \in [1 .. m - 1 -> Int]
        /\ \A i \in 1 .. m : ug[i] = u[g[i]] /\ ug[i] \in Int /\ u[i] \in Int
        /\ j \in 1 .. m
    BY <1>a, <1>2 DEF Through
  <1>5. \A i \in 1 .. m - 1 : mh[i] = ug[i]
    <2> SUFFICES ASSUME NEW i \in 1 .. m - 1  PROVE mh[i] = ug[i]
      OBVIOUS
    <2>1. g[i] \in 1 .. m /\ g[i] # j /\ i \in 1 .. m /\ j \in 1 .. m
      BY <1>2
    <2>2. CASE g[i] = m
      <3>1. h[i] = j /\ j \in 1 .. m - 1
        BY <2>1, <2>2
      <3>2. moved[j] = u[m]
        BY <3>1
      <3>3. mh[i] = moved[h[i]] /\ ug[i] = u[g[i]]
        BY <1>4, <2>1
      <3> QED
        BY <2>2, <3>1, <3>2, <3>3
    <2>3. CASE g[i] # m
      <3>1. h[i] = g[i] /\ g[i] \in 1 .. m - 1
        BY <2>1, <2>3
      <3>2. moved[g[i]] = u[g[i]]
        BY <2>1, <3>1
      <3>3. mh[i] = moved[h[i]] /\ ug[i] = u[g[i]]
        BY <1>4, <2>1
      <3> QED
        BY <3>1, <3>2, <3>3
    <2> QED
      BY <2>2, <2>3
  <1>6. Through(mh, moved, h, m - 1) /\ \A i \in 1 .. m - 1 : short[i] = u[i]
    BY DEF Through
  <1>7. j = m => moved = short
    OBVIOUS
  <1>8. ASSUME j \in 1 .. m - 1
        PROVE  /\ moved[j] = u[m] /\ short[j] = u[j]
               /\ \A i \in 1 .. m - 1 : i # j => moved[i] = short[i]
    <2> HIDE DEF j
    <2> QED
      BY <1>8
  <1> DEFINE l == m - 1
  <1>l. l \in Nat /\ l <= l /\ l <= m /\ m \in Nat
    OBVIOUS
  <1> HIDE DEF j, h, short, moved, mh, l
  <1>9. PICK am : Sums(am, moved, l)
    BY <1>l, SumsExist
  <1>10. PICK bm : Sums(bm, mh, l)
    BY <1>l, SumsExist
  <1>11. PICK sh : Sums(sh, short, l)
    BY <1>l, SumsExist
  <1>12. am[l] = bm[l]
    BY <1>3, <1>4, <1>6, <1>9, <1>10 DEF Alike, l
  <1>13. sh[l] = aa[l]
    <2>1. \A i \in 1 .. l : short[i] = u[i]
      BY <1>6 DEF l
    <2>2. Sums(aa, u, m)
      BY <1>a
    <2> QED
      BY <1>l, <1>11, <2>1, <2>2, SumsAgree
  <1>14. bm[l] = bb[l]
    <2>1. \A i \in 1 .. l : mh[i] = ug[i]
      BY <1>5 DEF l
    <2>2. Sums(bb, ug, m)
      BY <1>a
    <2> QED
      BY <1>l, <1>10, <2>1, <2>2, SumsAgree
  <1>15. aa[m] = Raw(K, aa[l] + u[m])
    <2>1. Sums(aa, u, m) /\ \A i \in 1 .. m : u[i] \in Int
      BY <1>a, <1>4
    <2>2. \A i \in 1 .. m : aa[i] = Raw(K, aa[i - 1] + u[i])
      BY <1>l, <2>1, SumsFacts
    <2> QED
      BY <1>2, <2>2 DEF l
  <1>16. bb[m] = Raw(K, bb[l] + u[j])
    <2>1. Sums(bb, ug, m) /\ \A i \in 1 .. m : ug[i] \in Int
      BY <1>a, <1>4
    <2>2. \A i \in 1 .. m : bb[i] = Raw(K, bb[i - 1] + ug[i])
      BY <1>l, <2>1, SumsFacts
    <2>3. ug[m] = u[j]
      BY <1>2, <1>4 DEF j
    <2> QED
      BY <1>2, <2>2, <2>3 DEF l
  <1>17. CASE j = m
    <2>1. am[l] = sh[l]
      <3>1. moved = short /\ \A i \in 1 .. l : moved[i] = short[i]
        BY <1>7, <1>17
      <3> QED
        BY <1>l, <1>9, <1>11, <3>1, SumsAgree
    <2> QED
      BY <1>12, <1>13, <1>14, <1>15, <1>16, <1>17, <2>1
  <1>18. CASE j # m
    <2>1. j \in 1 .. l
      BY <1>4, <1>18 DEF l
    <2>2. /\ moved[j] = u[m] /\ short[j] = u[j]
          /\ \A i \in 1 .. l : i # j => moved[i] = short[i]
      BY <1>8, <2>1 DEF l
    <2>3. u[m] \in Int /\ short \in [1 .. l -> Int] /\ moved \in [1 .. l -> Int]
      BY <1>2, <1>4 DEF l
    <2>4. DifferAt(short, moved, l, j)
      BY <2>2, <2>3 DEF DifferAt
    <2>5. Raw(K, am[l] + short[j]) = Raw(K, sh[l] + moved[j])
      BY <1>l, <1>9, <1>11, <2>1, <2>4, SumsReplaced
    <2> QED
      BY <1>12, <1>13, <1>14, <1>15, <1>16, <2>2, <2>5
  <1> QED
    BY <1>17, <1>18

LEMMA SumsPermuted ==
  ASSUME NEW n \in Nat
  PROVE  Alike(n)
  <1> DEFINE S == {m \in 0 .. n : Alike(m)}
  <1>1. 0 \in S
    <2>1. ASSUME NEW v, NEW a, Sums(a, v, 0)  PROVE a[0] = 0
      BY <2>1 DEF Sums
    <2>2. Alike(0)
      BY <2>1 DEF Alike
    <2> QED
      BY <2>2
  <1>2. ASSUME NEW m \in 1 .. n, m - 1 \in S  PROVE m \in S
    BY <1>2, AlikeStep
  <1>3. S = 0 .. n
    <2> HIDE DEF S
    <2>1. S \in SUBSET (0 .. n)
      BY DEF S
    <2> QED
      BY <1>1, <1>2, <2>1, UpTo
  <1> QED
    BY <1>3

-----------------------------------------------------------------------------
(* What a pool records of itself.                                           *)

\* It owns one heap block or none, and is marked EXTERNAL (and then READONLY)
\* exactly while its data lie in a mapping.
Placed(p) ==
  /\ p.heap = IF p.buf = "heap" THEN 1 ELSE 0
  /\ "EXTERNAL" \in p.flags <=> p.buf = "mapping"
  /\ "EXTERNAL" \in p.flags => "READONLY" \in p.flags

\* The two records of its sign agree.
Agrees(p) == p.size < 0 <=> "SIGNED" \in p.flags

\* The order and the summary it claims are those of its elements.
OrderKnown(p) == "SORTED" \in p.flags => InOrder(p)
Summarised(p) ==
  "SUMMARY" \in p.flags /\ Count(p) > 0 =>
    IsMinimum(p, p.smin) /\ IsMaximum(p, p.smax) /\ p.ssum = RunningSum(p)

Honest(p) == InUse(p) /\ Placed(p) /\ Agrees(p) /\ OrderKnown(p) /\ Summarised(p)

\* The same but for the sign, which demoting a signed pool spoils.
Truthful(p) == InUse(p) /\ Placed(p) /\ OrderKnown(p) /\ Summarised(p)

\* A step between honest pools that lets no mapping go.
Onward(p, q) == Honest(q) /\ ("EXTERNAL" \in p.flags => "EXTERNAL" \in q.flags)

LEMMA OnwardTwice ==
  ASSUME NEW p, NEW q, NEW r, Onward(p, q), Onward(q, r)
  PROVE  Onward(p, r)
  BY DEF Onward

\* Sums, extremes and order are those of the values.
LEMMA SameFacts ==
  ASSUME NEW p, NEW q, InUse(p), InUse(q), Values(q) = Values(p), Count(q) = Count(p)
  PROVE  /\ RunningSum(q) = RunningSum(p)
         /\ InOrder(q) <=> InOrder(p)
         /\ \A w : (IsMinimum(q, w) <=> IsMinimum(p, w)) /\ (IsMaximum(q, w) <=> IsMaximum(p, w))
  <1>1. /\ DOMAIN q.data = DOMAIN p.data
        /\ \A i \in DOMAIN p.data : Value(q, i) = Value(p, i)
    BY SameValues
  <1>2. RunningSum(q) = RunningSum(p)
    <2>0. Count(p) \in Nat /\ Count(p) <= Count(p)
      BY Fields DEF InUse
    <2>1. PICK f : Sums(f, Values(p), Count(p)) /\ RunningSum(p) = f[Count(p)]
      BY RunningSumIs
    <2>2. PICK g : Sums(g, Values(q), Count(q)) /\ RunningSum(q) = g[Count(q)]
      BY RunningSumIs
    <2>3. g[Count(p)] = f[Count(p)]
      <3>1. \A i \in 1 .. Count(p) : Values(q)[i] = Values(p)[i]
        OBVIOUS
      <3> QED
        BY <2>0, <2>1, <2>2, <3>1, SumsAgree
    <2> QED
      BY <2>1, <2>2, <2>3
  <1>3. InOrder(q) <=> InOrder(p)
    BY <1>1 DEF InOrder
  <1>4. ASSUME NEW w  PROVE (IsMinimum(q, w) <=> IsMinimum(p, w)) /\ (IsMaximum(q, w) <=> IsMaximum(p, w))
    BY <1>1 DEF IsMinimum, IsMaximum
  <1> QED
    BY <1>2, <1>3, <1>4

-----------------------------------------------------------------------------
(* Steps that keep the records true.                                        *)

LEMMA SameHonest ==
  ASSUME NEW p, NEW q, Honest(p), InUse(q), Placed(q), Agrees(q),
         Values(q) = Values(p), Count(q) = Count(p), SameRecord(p, q),
         q.flags \cap FactFlags \subseteq p.flags
  PROVE  Honest(q)
  <1>1. InUse(p)
    BY DEF Honest
  <1>2. /\ RunningSum(q) = RunningSum(p)
        /\ InOrder(q) <=> InOrder(p)
        /\ \A w : (IsMinimum(q, w) <=> IsMinimum(p, w)) /\ (IsMaximum(q, w) <=> IsMaximum(p, w))
    BY <1>1, SameFacts
  <1>3. "SORTED" \in q.flags => "SORTED" \in p.flags
    BY DEF FactFlags
  <1>4. "SUMMARY" \in q.flags => "SUMMARY" \in p.flags
    BY DEF FactFlags
  <1>5. OrderKnown(q)
    BY <1>2, <1>3 DEF Honest, OrderKnown
  <1>6. Summarised(q)
    BY <1>2, <1>4 DEF Honest, Summarised, SameRecord
  <1> QED
    BY <1>5, <1>6 DEF Honest

\* A pool without facts has none to get wrong.
LEMMA PlainHonest ==
  ASSUME NEW q, InUse(q), Placed(q), Agrees(q), q.flags \cap FactFlags = {}
  PROVE  Honest(q)
  BY DEF Honest, OrderKnown, Summarised, FactFlags

\* An owned block replaced by another one leaves the pool with one block.
LEMMA MovedPlaced ==
  ASSUME NEW p, NEW q, Placed(p), InUse(p), "EXTERNAL" \notin p.flags, Moved(p, q),
         "EXTERNAL" \notin q.flags
  PROVE  Placed(q)
  <1>1. p.buf \in {"null", "heap", "mapping"}
    BY DEF InUse, PoolType
  <1> QED
    BY <1>1 DEF Placed, Moved

LEMMA RegrownOnward ==
  ASSUME NEW p, NEW q, Honest(p), InUse(q), "READONLY" \notin p.flags, Regrown(p, q)
  PROVE  Onward(p, q)
  <1>1. InUse(p) /\ Placed(p) /\ Agrees(p) /\ "EXTERNAL" \notin p.flags
    BY DEF Honest, Placed
  <1>2. Placed(q)
    BY <1>1, MovedPlaced DEF Regrown
  <1>3. Agrees(q)
    BY <1>1 DEF Agrees, Regrown, SameElements
  <1>4. IsSigned(q) = IsSigned(p)
    <2>1. q.size = p.size /\ ("SIGNED" \in q.flags <=> "SIGNED" \in p.flags)
      BY DEF Regrown, SameElements
    <2> QED
      BY <2>1 DEF IsSigned
  <1>5. Values(q) = Values(p) /\ Count(q) = Count(p)
    BY <1>4, SameReading DEF Regrown
  <1>6. SameRecord(p, q) /\ q.flags \cap FactFlags \subseteq p.flags
    BY DEF Regrown
  <1>7. Honest(q)
    BY <1>2, <1>3, <1>5, <1>6, SameHonest
  <1> QED
    BY <1>1, <1>7 DEF Onward

LEMMA RefittedOnward ==
  ASSUME NEW p, NEW q, Honest(p), InUse(q), "EXTERNAL" \notin p.flags, Refitted(p, q),
         Agrees(q), q.flags \ {"SIGNED"} \subseteq p.flags
  PROVE  Onward(p, q)
  <1>1. InUse(p) /\ Placed(p)
    BY DEF Honest
  <1>2. "EXTERNAL" \notin q.flags
    OBVIOUS
  <1>3. Placed(q)
    BY <1>1, <1>2, MovedPlaced DEF Refitted
  <1>4. q.flags \cap FactFlags \subseteq p.flags
    BY DEF FactFlags
  <1>5. Honest(q)
    BY <1>3, <1>4, SameHonest DEF Refitted
  <1> QED
    BY <1>5 DEF Onward

LEMMA DroppedOnward ==
  ASSUME NEW p, NEW q, NEW k, Honest(p), InUse(q), Dropped(p, q, k)
  PROVE  Onward(p, q)
  <1>1. /\ \A f \in Flags \ FactFlags : f \in q.flags <=> f \in p.flags
        /\ q.flags \cap FactFlags = {}
    BY DEF Dropped
  <1>2. \A f \in {"SIGNED", "READONLY", "EXTERNAL"} : f \in q.flags <=> f \in p.flags
    BY <1>1 DEF Flags, FactFlags
  <1>3. Placed(q)
    BY <1>2 DEF Dropped, InPlace, Honest, Placed
  <1>4. Agrees(q)
    BY <1>2 DEF Dropped, Honest, Agrees
  <1>5. Honest(q)
    BY <1>1, <1>3, <1>4, PlainHonest
  <1> QED
    BY <1>2, <1>5 DEF Onward

LEMMA WrittenPlaced ==
  ASSUME NEW p, NEW q, Honest(p), Written(p, q)
  PROVE  Placed(q) /\ Agrees(q) /\ q.flags = p.flags /\ IsSigned(q) = IsSigned(p)
  BY DEF Written, InPlace, Honest, Placed, Agrees, IsSigned

LEMMA WrittenOnward ==
  ASSUME NEW p, NEW q, Honest(p), InUse(q), Written(p, q), p.flags \cap FactFlags = {}
  PROVE  Onward(p, q)
  BY WrittenPlaced, PlainHonest DEF Onward

\* Elements kept in their order stay in order.
Selected(p, q, n, g) ==
  /\ n \in Nat /\ g \in [1 .. n -> DOMAIN p.data]
  /\ \A a, b \in 1 .. n : a < b => g[a] < g[b]
  /\ q.data = [j \in 1 .. n |-> p.data[g[j]]]

LEMMA SelectedOnward ==
  ASSUME NEW p, NEW q, Honest(p), InUse(q), Written(p, q), "SUMMARY" \notin p.flags,
         NEW n, NEW g, Selected(p, q, n, g)
  PROVE  Onward(p, q)
  <1>1. Placed(q) /\ Agrees(q) /\ q.flags = p.flags /\ IsSigned(q) = IsSigned(p) /\ q.size = p.size
    BY WrittenPlaced DEF Written
  <1>2. DOMAIN q.data = 1 .. n /\ \A j \in 1 .. n : q.data[j] = p.data[g[j]] /\ g[j] \in DOMAIN p.data
    BY DEF Selected
  <1>3. \A j \in 1 .. n : Value(q, j) = Value(p, g[j])
    BY <1>1, <1>2 DEF Value, GetSigned, Get
  <1>4. InOrder(p) => InOrder(q)
    <2> SUFFICES ASSUME InOrder(p), NEW a \in DOMAIN q.data, NEW b \in DOMAIN q.data, a < b
                 PROVE  Value(q, a) <= Value(q, b)
      BY DEF InOrder
    <2>1. a \in 1 .. n /\ b \in 1 .. n /\ g[a] < g[b]
      BY <1>2 DEF Selected
    <2>2. Value(p, g[a]) <= Value(p, g[b])
      BY <1>2, <2>1 DEF InOrder
    <2> QED
      BY <1>3, <2>1, <2>2
  <1>5. OrderKnown(q) /\ Summarised(q)
    BY <1>1, <1>4 DEF Honest, OrderKnown, Summarised
  <1> QED
    BY <1>1, <1>5 DEF Honest, Onward

\* Neighbours in order put the whole column in order.
LEMMA AdjacentInOrder ==
  ASSUME NEW p, InUse(p), Adjacent(p)
  PROVE  InOrder(p)
  <1> DEFINE n == Count(p)
  <1>1. n \in Nat /\ DOMAIN p.data = 1 .. n /\ \A i \in 1 .. n : Value(p, i) \in Int
    BY Fields, ValueRange DEF InUse
  <1>2. \A i \in 2 .. n : Value(p, i - 1) <= Value(p, i)
    BY DEF Adjacent
  <1> HIDE DEF n
  <1> SUFFICES ASSUME NEW i \in 1 .. n, NEW j \in 1 .. n, i < j  PROVE Value(p, i) <= Value(p, j)
    BY <1>1 DEF InOrder
  <1> DEFINE S == {m \in 0 .. n : m >= i => Value(p, i) <= Value(p, m)}
  <1>3. 0 \in S
    BY <1>1
  <1>4. ASSUME NEW m \in 1 .. n, m - 1 \in S  PROVE m \in S
    <2>1. CASE m < i
      BY <1>1, <2>1
    <2>2. CASE m = i
      BY <1>1, <2>2
    <2>3. CASE m > i
      <3> DEFINE l == m - 1
      <3>1. l \in 1 .. n /\ l >= i /\ m \in 2 .. n
        BY <1>1, <2>3
      <3>2. Value(p, i) <= Value(p, l) /\ Value(p, l) <= Value(p, m)
        BY <1>2, <1>4, <3>1
      <3> HIDE DEF l
      <3>3. Value(p, i) \in Int /\ Value(p, l) \in Int /\ Value(p, m) \in Int
        BY <1>1, <3>1
      <3> QED
        BY <3>2, <3>3
    <2> QED
      BY <1>1, <2>1, <2>2, <2>3
  <1>5. S = 0 .. n
    <2> HIDE DEF S
    <2>1. S \in SUBSET (0 .. n)
      BY DEF S
    <2> QED
      BY <1>1, <1>3, <1>4, <2>1, UpTo
  <1> QED
    BY <1>1, <1>5

\* Facts are recorded whether or not the signs agree.
Noting(p, q) ==
  Truthful(q) /\ (Agrees(p) => Agrees(q)) /\ ("EXTERNAL" \in p.flags <=> "EXTERNAL" \in q.flags)

LEMMA NotingOnward ==
  ASSUME NEW p, NEW q, Honest(p), Noting(p, q)
  PROVE  Onward(p, q)
  BY DEF Noting, Onward, Honest, Truthful

\* Setting a flag of facts changes nothing that is read.
LEMMA FlaggedReading ==
  ASSUME NEW p, NEW q, NEW f \in FactFlags, Truthful(p), InUse(q), Flagged(p, q, f)
  PROVE  /\ Placed(q) /\ (Agrees(p) => Agrees(q)) /\ Values(q) = Values(p) /\ Count(q) = Count(p)
         /\ "EXTERNAL" \in p.flags <=> "EXTERNAL" \in q.flags
         /\ RunningSum(q) = RunningSum(p)
         /\ InOrder(q) <=> InOrder(p)
         /\ \A w : (IsMinimum(q, w) <=> IsMinimum(p, w)) /\ (IsMaximum(q, w) <=> IsMaximum(p, w))
  <1>1. \A g \in {"SIGNED", "READONLY", "EXTERNAL"} : g \in q.flags <=> g \in p.flags
    BY DEF Flagged, FactFlags
  <1>2. Placed(q) /\ (Agrees(p) => Agrees(q))
    BY <1>1 DEF Flagged, InPlace, SameElements, Truthful, Placed, Agrees
  <1>3. IsSigned(q) = IsSigned(p)
    <2>1. q.size = p.size /\ ("SIGNED" \in q.flags <=> "SIGNED" \in p.flags)
      BY <1>1 DEF Flagged, SameElements
    <2> QED
      BY <2>1 DEF IsSigned
  <1>4. Values(q) = Values(p) /\ Count(q) = Count(p)
    BY <1>3, SameReading DEF Flagged
  <1>5. InUse(p)
    BY DEF Truthful
  <1> QED
    BY <1>1, <1>2, <1>4, <1>5, SameFacts

LEMMA MarkSortedTruthful ==
  ASSUME NEW p, Truthful(p)
  PROVE  Noting(p, MarkSorted(p))
  <1> DEFINE q == MarkSorted(p)
  <1>1. InUse(p) /\ InUse(q)
    BY MarkSortedInUse DEF Truthful
  <1>2. CASE q = p
    BY <1>2 DEF Noting
  <1>3. CASE Adjacent(p) /\ Flagged(p, q, "SORTED") /\ SameRecord(p, q)
    <2> HIDE DEF q
    <2>1. "SORTED" \in FactFlags
      BY DEF FactFlags
    <2>2. /\ Placed(q) /\ (Agrees(p) => Agrees(q)) /\ Count(q) = Count(p)
          /\ "EXTERNAL" \in p.flags <=> "EXTERNAL" \in q.flags
          /\ RunningSum(q) = RunningSum(p)
          /\ InOrder(q) <=> InOrder(p)
          /\ \A w : (IsMinimum(q, w) <=> IsMinimum(p, w)) /\ (IsMaximum(q, w) <=> IsMaximum(p, w))
      BY <1>1, <1>3, <2>1, FlaggedReading
    <2>3. OrderKnown(q)
      BY <1>1, <1>3, <2>2, AdjacentInOrder DEF OrderKnown
    <2>4. "SUMMARY" \in q.flags => "SUMMARY" \in p.flags
      BY <1>3 DEF Flagged
    <2>5. Summarised(q)
      BY <1>3, <2>2, <2>4 DEF Truthful, Summarised, SameRecord
    <2> QED
      BY <1>1, <2>2, <2>3, <2>5 DEF Noting, Truthful, q
  <1> QED
    BY <1>1, <1>2, <1>3, MarkSortedEffect

\* A summary just recorded is true when its words are, or the pool is empty.
LEMMA RecordedTruthful ==
  ASSUME NEW p, Truthful(p), NEW mn, NEW mx, NEW sm, InUse(Recorded(p, mn, mx, sm)),
         Count(p) > 0 => IsMinimum(p, mn) /\ IsMaximum(p, mx) /\ sm = RunningSum(p)
  PROVE  Noting(p, Recorded(p, mn, mx, sm))
  <1> DEFINE q == Recorded(p, mn, mx, sm)
  <1>1. "SUMMARY" \in FactFlags /\ InUse(p)
    BY DEF FactFlags, Truthful
  <1>2. Flagged(p, q, "SUMMARY") /\ q.smin = mn /\ q.smax = mx /\ q.ssum = sm
    BY <1>1, RecordedEffect
  <1> HIDE DEF q
  <1>3. InUse(q)
    BY DEF q
  <1>4. /\ Placed(q) /\ (Agrees(p) => Agrees(q)) /\ Count(q) = Count(p)
        /\ "EXTERNAL" \in p.flags <=> "EXTERNAL" \in q.flags
        /\ RunningSum(q) = RunningSum(p)
        /\ InOrder(q) <=> InOrder(p)
        /\ \A w : (IsMinimum(q, w) <=> IsMinimum(p, w)) /\ (IsMaximum(q, w) <=> IsMaximum(p, w))
    BY <1>1, <1>2, <1>3, FlaggedReading
  <1>5. "SORTED" \in q.flags => "SORTED" \in p.flags
    BY <1>2 DEF Flagged
  <1>6. OrderKnown(q) /\ Summarised(q)
    BY <1>2, <1>4, <1>5 DEF Truthful, OrderKnown, Summarised
  <1> QED
    BY <1>3, <1>4, <1>6 DEF Noting, Truthful, q

LEMMA SummarizeTruthful ==
  ASSUME NEW p, Truthful(p), NEW q \in Summarize(p)
  PROVE  Noting(p, q)
  <1>0. InUse(p) /\ InUse(q) /\ Count(p) \in Nat
    BY SummarizeInUse, Fields DEF Truthful, InUse
  <1>1. CASE q = p
    BY <1>1 DEF Noting
  <1>2. CASE Count(p) = 0 /\ q = Recorded(p, 0, 0, 0)
    <2>1. ~ Count(p) > 0
      BY <1>2
    <2> QED
      BY <1>0, <1>2, <2>1, RecordedTruthful
  <1>3. CASE \E mn, mx, sm : /\ q = Recorded(p, mn, mx, sm)
                             /\ IsMinimum(p, mn) /\ IsMaximum(p, mx) /\ sm = RunningSum(p)
    BY <1>0, <1>3, RecordedTruthful
  <1> QED
    BY <1>1, <1>2, <1>3 DEF Summarize

LEMMA MarkSortedOnward ==
  ASSUME NEW p, Honest(p)
  PROVE  Onward(p, MarkSorted(p))
  BY MarkSortedTruthful, NotingOnward DEF Honest, Truthful

LEMMA RecordedOnward ==
  ASSUME NEW p, Honest(p), NEW mn, NEW mx, NEW sm, InUse(Recorded(p, mn, mx, sm)),
         Count(p) > 0 => IsMinimum(p, mn) /\ IsMaximum(p, mx) /\ sm = RunningSum(p)
  PROVE  Onward(p, Recorded(p, mn, mx, sm))
  BY RecordedTruthful, NotingOnward DEF Honest, Truthful

LEMMA SummarizeOnward ==
  ASSUME NEW p, Honest(p), NEW q \in Summarize(p)
  PROVE  Onward(p, q)
  BY SummarizeTruthful, NotingOnward DEF Honest, Truthful

LEMMA SummarizeEmptyOnward ==
  ASSUME NEW p, Honest(p)
  PROVE  Onward(p, SummarizeEmpty(p))
  <1>0. InUse(p) /\ InUse(SummarizeEmpty(p)) /\ Count(p) \in Nat
    BY SummarizeEmptyInUse, Fields DEF Honest, InUse
  <1>1. CASE Count(p) # 0
    BY <1>1 DEF Onward, SummarizeEmpty
  <1>2. CASE Count(p) = 0
    <2>1. ~ Count(p) > 0 /\ SummarizeEmpty(p) = Recorded(p, 0, 0, 0)
      BY <1>2 DEF SummarizeEmpty
    <2> QED
      BY <1>0, <2>1, RecordedOnward
  <1> QED
    BY <1>1, <1>2

\* A rearrangement reaches every index.
LEMMA Onto ==
  ASSUME NEW n \in Nat, NEW f \in Rearrangements(n), NEW j \in 1 .. n
  PROVE  \E i \in 1 .. n : f[i] = j
  <1>1. f \in [1 .. n -> 1 .. n] /\ \A a, b \in 1 .. n : a # b => f[a] # f[b]
    BY DEF Rearrangements
  <1>2. IsFiniteSet(1 .. n) /\ Cardinality(1 .. n) = n
    BY FS_Interval
  <1> DEFINE T == (1 .. n) \ {j}
  <1>3. IsFiniteSet(T) /\ Cardinality(T) = n - 1
    BY <1>2, FS_RemoveElement
  <1> SUFFICES ASSUME \A i \in 1 .. n : f[i] # j  PROVE FALSE
    OBVIOUS
  <1>4. f \in [1 .. n -> T]
    BY <1>1
  <1> HIDE DEF T
  <1>5. Cardinality(T) < Cardinality(1 .. n)
    BY <1>2, <1>3
  <1>6. \E x, y \in 1 .. n : x # y /\ f[x] = f[y]
    BY <1>2, <1>3, <1>4, <1>5, FS_PigeonHole
  <1> QED
    BY <1>1, <1>6

\* As many indices are sent into a set as it has elements.
LEMMA PermutedCount ==
  ASSUME NEW n \in Nat, NEW f \in Rearrangements(n), NEW S \in SUBSET (1 .. n)
  PROVE  /\ IsFiniteSet(S)
         /\ Cardinality({i \in 1 .. n : f[i] \in S}) = Cardinality(S)
  <1> DEFINE T == {i \in 1 .. n : f[i] \in S}
             g == [i \in T |-> f[i]]
  <1>1. f \in [1 .. n -> 1 .. n] /\ \A a, b \in 1 .. n : a # b => f[a] # f[b]
    BY DEF Rearrangements
  <1>2. IsFiniteSet(1 .. n)
    BY FS_Interval
  <1>3. IsFiniteSet(S) /\ IsFiniteSet(T)
    <2>1. S \in SUBSET (1 .. n) /\ T \in SUBSET (1 .. n)
      OBVIOUS
    <2> QED
      BY <1>2, <2>1, FS_Subset
  <1>4. \A s \in S : \E i \in T : g[i] = s
    BY Onto
  <1>5. g \in [T -> S] /\ \A a, b \in T : g[a] = g[b] => a = b
    BY <1>1
  <1> HIDE DEF T, g
  <1>6. g \in Bijection(T, S)
    BY <1>4, <1>5 DEF Bijection, Injection, Surjection, IsInjective
  <1>7. Cardinality(S) = Cardinality(T)
    BY <1>3, <1>6, FS_Bijection DEF ExistsBijection
  <1> QED
    BY <1>3, <1>7 DEF T

\* A rearranged column has the sum and the extremes it had.
LEMMA RearrangedFacts ==
  ASSUME NEW p, NEW q, InUse(p), InUse(q), IsSigned(q) = IsSigned(p), q.size = p.size,
         NEW f \in Rearrangements(Count(p)), q.data = [i \in 1 .. Count(p) |-> p.data[f[i]]]
  PROVE  /\ Count(q) = Count(p)
         /\ RunningSum(q) = RunningSum(p)
         /\ \A w : (IsMinimum(p, w) => IsMinimum(q, w)) /\ (IsMaximum(p, w) => IsMaximum(q, w))
  <1> DEFINE n == Count(p)
  <1>1. n \in Nat /\ DOMAIN p.data = 1 .. n /\ f \in [1 .. n -> 1 .. n]
    BY Fields DEF InUse, Rearrangements
  <1>2. DOMAIN q.data = 1 .. n /\ \A i \in 1 .. n : q.data[i] = p.data[f[i]]
    BY <1>1
  <1>3. Count(q) = n
    BY <1>1, <1>2 DEF Count
  <1>4. \A i \in 1 .. n : Value(q, i) = Value(p, f[i]) /\ f[i] \in 1 .. n
    BY <1>1, <1>2 DEF Value, GetSigned, Get
  <1>5. RunningSum(q) = RunningSum(p)
    <2>1. PICK a : Sums(a, Values(p), n) /\ RunningSum(p) = a[n]
      BY RunningSumIs
    <2>2. PICK b : Sums(b, Values(q), n) /\ RunningSum(q) = b[n]
      BY <1>3, RunningSumIs
    <2>3. Values(p) \in [1 .. n -> Int]
      <3>1. \A i \in 1 .. n : Value(p, i) \in Int
        BY <1>1, ValueRange
      <3> QED
        BY <1>1, <3>1 DEF Values
    <2>4. Through(Values(q), Values(p), f, n)
      <3>1. Values(q) = [i \in 1 .. n |-> Value(q, i)]
        BY <1>2 DEF Values
      <3>2. \A i \in 1 .. n : Values(p)[f[i]] = Value(q, i)
        BY <1>1, <1>4 DEF Values
      <3> HIDE DEF n
      <3>3. [i \in 1 .. n |-> Value(q, i)] = [i \in 1 .. n |-> Values(p)[f[i]]]
        BY <3>2
      <3> QED
        BY <3>1, <3>3 DEF Through
    <2>5. Alike(n)
      BY <1>1, SumsPermuted
    <2> HIDE DEF n
    <2>6. f \in Rearrangements(n)
      BY DEF n
    <2>7. a[n] = b[n]
      BY <2>1, <2>2, <2>3, <2>4, <2>5, <2>6 DEF Alike
    <2> QED
      BY <2>1, <2>2, <2>7
  <1>6. \A j \in 1 .. n : \E i \in 1 .. n : f[i] = j
    BY <1>1, Onto
  <1>7. ASSUME NEW w, IsMinimum(p, w)  PROVE IsMinimum(q, w)
    <2>1. PICK j \in 1 .. n : w = U64(Value(p, j)) /\ \A k \in 1 .. n : Value(p, j) <= Value(p, k)
      BY <1>1, <1>7 DEF IsMinimum
    <2>2. PICK i \in 1 .. n : f[i] = j
      BY <1>6
    <2> QED
      BY <1>2, <1>4, <2>1, <2>2 DEF IsMinimum
  <1>8. ASSUME NEW w, IsMaximum(p, w)  PROVE IsMaximum(q, w)
    <2>1. PICK j \in 1 .. n : w = U64(Value(p, j)) /\ \A k \in 1 .. n : Value(p, k) <= Value(p, j)
      BY <1>1, <1>8 DEF IsMaximum
    <2>2. PICK i \in 1 .. n : f[i] = j
      BY <1>6
    <2> QED
      BY <1>2, <1>4, <2>1, <2>2 DEF IsMaximum
  <1> QED
    BY <1>3, <1>5, <1>7, <1>8

LEMMA SortOnward ==
  ASSUME NEW p, Honest(p), NEW q \in Sort(p)
  PROVE  Onward(p, q)
  <1>1. InUse(p) /\ InUse(q)
    BY SortInUse DEF Honest
  <1>2. CASE q = p
    BY <1>2 DEF Onward
  <1>3. CASE /\ InPlace(p, q) /\ SameRecord(p, q) /\ q.size = p.size
             /\ q.flags = p.flags \cup {"SORTED"}
             /\ InOrder(q)
             /\ \E f \in Rearrangements(Count(p)) : q.data = [i \in 1 .. Count(p) |-> p.data[f[i]]]
    <2>1. \A g \in {"SIGNED", "READONLY", "EXTERNAL", "SUMMARY"} : g \in q.flags <=> g \in p.flags
      BY <1>3
    <2>2. Placed(q) /\ Agrees(q)
      BY <1>3, <2>1 DEF InPlace, Honest, Placed, Agrees
    <2>3. IsSigned(q) = IsSigned(p)
      <3>1. "SIGNED" \in q.flags <=> "SIGNED" \in p.flags
        BY <2>1
      <3> QED
        BY <1>3, <3>1 DEF IsSigned
    <2>4. /\ Count(q) = Count(p)
          /\ RunningSum(q) = RunningSum(p)
          /\ \A w : (IsMinimum(p, w) => IsMinimum(q, w)) /\ (IsMaximum(p, w) => IsMaximum(q, w))
      BY <1>1, <1>3, <2>3, RearrangedFacts
    <2>5. OrderKnown(q)
      BY <1>3 DEF OrderKnown
    <2>6. Summarised(q)
      BY <1>3, <2>1, <2>4 DEF Honest, Summarised, SameRecord
    <2> QED
      BY <1>1, <2>1, <2>2, <2>5, <2>6 DEF Onward, Honest
  <1> QED
    BY <1>1, <1>2, <1>3, SortEffect

-----------------------------------------------------------------------------
(* Appends.                                                                 *)

\* What a word passed to a push means to the pool.
Meaning(p, v) == IF IsSigned(p) THEN I64(v) ELSE v

LEMMA Meanings ==
  ASSUME NEW p, NEW v \in Word
  PROVE  /\ Meaning(p, v) \in Int /\ U64(Meaning(p, v)) = v
         /\ \A w \in Word : Less(p, v, w) <=> Meaning(p, v) < Meaning(p, w)
  <1>1. v \in Nat /\ v < Pow(K) /\ K \in Classes /\ Pow(K) \in Nat
    BY Conversions, PowFacts DEF Word
  <1>2. I64(v) \in Int /\ Raw(K, I64(v)) = v
    BY <1>1, RawSigned, AsSignedRange DEF I64
  <1>3. Raw(K, v) = v
    BY <1>1, RawSmall
  <1>4. \A w \in Word : Less(p, v, w) <=> Meaning(p, v) < Meaning(p, w)
    BY DEF Less, Meaning
  <1>5. CASE IsSigned(p)
    BY <1>2, <1>4, <1>5 DEF Meaning, U64
  <1>6. CASE ~IsSigned(p)
    BY <1>1, <1>3, <1>4, <1>6 DEF Meaning, U64
  <1> QED
    BY <1>5, <1>6

\* The word of an element means the element.
LEMMA ElementMeaning ==
  ASSUME NEW p, InUse(p), NEW i \in DOMAIN p.data
  PROVE  U64(Value(p, i)) \in Word /\ Meaning(p, U64(Value(p, i))) = Value(p, i)
  <1>1. /\ Value(p, i) \in Int
        /\ IsSigned(p) => Value(p, i) \in Int64
        /\ ~IsSigned(p) => Value(p, i) \in Word
    BY ValueRange
  <1>2. U64(Value(p, i)) \in Word
    BY <1>1, Conversions
  <1>3. K \in Classes /\ Half[K] \in Nat /\ Pow(K) \in Nat /\ Word \subseteq Nat
    BY Conversions, PowFacts
  <1>4. CASE IsSigned(p)
    <2>1. -Half[K] <= Value(p, i) /\ Value(p, i) < Half[K]
      BY <1>1, <1>3, <1>4 DEF Int64
    <2>2. I64(U64(Value(p, i))) = Value(p, i)
      BY <1>1, <1>3, <2>1, SignExtended DEF I64, U64
    <2> QED
      BY <1>2, <1>4, <2>2 DEF Meaning
  <1>5. CASE ~IsSigned(p)
    <2>1. Value(p, i) \in Nat /\ Value(p, i) < Pow(K)
      BY <1>1, <1>3, <1>5 DEF Word
    <2>2. U64(Value(p, i)) = Value(p, i)
      BY <1>3, <2>1, RawSmall DEF U64
    <2> QED
      BY <1>2, <1>5, <2>2 DEF Meaning
  <1> QED
    BY <1>4, <1>5

\* A stored value that the class represents reads as what was meant; the others
\* read as before.
LEMMA AppendedValues ==
  ASSUME NEW p, Honest(p), NEW v \in Word, NEW q, IsSigned(q) = IsSigned(p), q.size = p.size,
         q.data = Append(p.data, Raw(Abs(p.size), v))
  PROVE  /\ Count(q) = Count(p) + 1 /\ DOMAIN q.data = 1 .. Count(p) + 1
         /\ \A i \in 1 .. Count(p) : Value(q, i) = Value(p, i)
         /\ Holds(p.size, Meaning(p, v)) => Value(q, Count(p) + 1) = Meaning(p, v)
  <1> DEFINE n == Count(p)
             c == Abs(p.size)
             w == Raw(c, v)
  <1>1. InUse(p) /\ Agrees(p) /\ p.size \in Sizes /\ c \in Classes
    BY SizeFacts DEF Honest, InUse, Sound, Sizes, PoolType
  <1>2. n \in Nat /\ p.data \in Seq(Word) /\ DOMAIN p.data = 1 .. n /\ n = Len(p.data)
    BY <1>1, Fields DEF InUse, Count
  <1>3. w \in Word /\ w < Pow(c) /\ v \in Int
    BY <1>1, RawRange, Conversions
  <1> HIDE DEF n, c, w
  <1>4. /\ Len(q.data) = n + 1 /\ DOMAIN q.data = 1 .. n + 1
        /\ \A i \in 1 .. n : q.data[i] = p.data[i]
        /\ q.data[n + 1] = w
    <2>1. q.data = Append(p.data, w)
      BY DEF w, c
    <2> QED
      BY <1>2, <1>3, <2>1
  <1>5. \A i \in 1 .. n : Value(q, i) = Value(p, i)
    BY <1>4 DEF Value, GetSigned, Get
  <1>6. ASSUME Holds(p.size, Meaning(p, v))
        PROVE  Value(q, n + 1) = Meaning(p, v)
    <2>1. CASE p.size < 0
      <3>1. IsSigned(p) /\ IsSigned(q) /\ Meaning(p, v) = I64(v) /\ c = -p.size
        BY <2>1 DEF IsSigned, Meaning, c, Abs
      <3>2. Value(q, n + 1) = AsSigned(c, w)
        BY <1>4, <2>1, <3>1 DEF Value, GetSigned
      <3>3. I64(v) \in Int /\ Raw(K, I64(v)) = v /\ K \in Classes /\ c <= K
        <4>1. v \in Nat /\ v < Pow(K) /\ K \in Classes
          BY Conversions, PowFacts DEF Word
        <4>2. c <= K
          BY <1>1 DEF Classes
        <4> QED
          BY <4>1, <4>2, RawSigned, AsSignedRange DEF I64
      <3>4. w = Raw(c, I64(v))
        BY <1>1, <3>3, RawRaw DEF w
      <3>5. -Half[c] <= I64(v) /\ I64(v) < Half[c]
        BY <1>6, <2>1, <3>1 DEF Holds
      <3>6. AsSigned(c, Raw(c, I64(v))) = I64(v)
        BY <1>1, <3>3, <3>5, SignExtended
      <3> QED
        BY <3>1, <3>2, <3>4, <3>6
    <2>2. CASE ~ p.size < 0
      <3>1. ~IsSigned(p) /\ ~IsSigned(q) /\ Meaning(p, v) = v /\ c = p.size
        BY <1>1, <2>2 DEF Agrees, IsSigned, Meaning, c, Abs
      <3>2. v \in Nat /\ v < Pow(c)
        BY <1>6, <2>2, <3>1, Conversions DEF Holds
      <3>3. w = v
        BY <1>1, <3>2, RawSmall DEF w
      <3> QED
        BY <1>4, <3>1, <3>3 DEF Value, Get
    <2> QED
      BY <2>1, <2>2
  <1> QED
    BY <1>4, <1>5, <1>6 DEF n, Count

\* q is p with the value m at the end.
Extends(p, q, m) ==
  /\ Count(q) = Count(p) + 1 /\ DOMAIN q.data = 1 .. Count(p) + 1
  /\ \A i \in 1 .. Count(p) : Value(q, i) = Value(p, i)
  /\ Value(q, Count(p) + 1) = m

\* Adding a word or the value it means is the same to the sum.
LEMMA PlusMeaning ==
  ASSUME NEW p, NEW v \in Word, NEW s \in Int
  PROVE  Raw(K, s + Meaning(p, v)) = Raw(K, s + v)
  <1> DEFINE n == Pow(K)
  <1>1. n \in Nat \ {0} /\ v \in Int /\ K \in Classes
    BY Conversions, PowFacts
  <1>2. CASE Meaning(p, v) = v
    BY <1>2
  <1>3. CASE Meaning(p, v) = v - n
    <2> DEFINE t == s + (v - n)
    <2>1. t \in Int /\ t + n = s + v
      BY <1>1
    <2> HIDE DEF t, n
    <2>2. (t + n) % n = t % n
      BY <1>1, <2>1, ModShift
    <2>3. Raw(K, s + Meaning(p, v)) = t % n
      BY <1>3 DEF Raw, t, n
    <2>4. Raw(K, s + v) = (t + n) % n
      BY <2>1 DEF Raw, n
    <2> QED
      BY <2>2, <2>3, <2>4
  <1> QED
    BY <1>2, <1>3 DEF Meaning, I64, AsSigned

\* Its sum.
LEMMA ExtendedSum ==
  ASSUME NEW p, NEW q, InUse(p), InUse(q), NEW v \in Word, Extends(p, q, Meaning(p, v))
  PROVE  RunningSum(q) = IF Count(p) = 0 THEN v ELSE Raw(K, RunningSum(p) + v)
  <1> DEFINE n == Count(p)
             k == n + 1
  <1>1. n \in Nat /\ DOMAIN p.data = 1 .. n /\ k \in Nat /\ n <= n /\ n <= k /\ Count(q) = k
        /\ DOMAIN q.data = 1 .. k /\ k \in 1 .. k /\ k - 1 = n /\ v \in Int
    <2>1. n \in Nat /\ DOMAIN p.data = 1 .. n /\ v \in Int
      BY Fields, Conversions DEF InUse
    <2>2. Count(q) = k /\ DOMAIN q.data = 1 .. k
      BY DEF Extends
    <2> HIDE DEF n
    <2> QED
      BY <2>1, <2>2
  <1>2. PICK f : Sums(f, Values(p), n) /\ RunningSum(p) = f[n]
    BY RunningSumIs
  <1>3. PICK g : Sums(g, Values(q), k) /\ RunningSum(q) = g[k]
    BY <1>1, RunningSumIs
  <1>4. /\ \A i \in 1 .. n : Values(p)[i] \in Int /\ Values(p)[i] = Values(q)[i]
        /\ \A i \in 1 .. k : Values(q)[i] \in Int
        /\ Values(q)[k] = Meaning(p, v)
    <2>1. \A i \in 1 .. n : Value(p, i) \in Int
      BY <1>1, ValueRange
    <2>2. \A i \in 1 .. k : Value(q, i) \in Int
      BY <1>1, ValueRange
    <2> QED
      BY <1>1, <2>1, <2>2 DEF Values, Extends
  <1>5. Meaning(p, v) \in Int /\ U64(Meaning(p, v)) = v
    BY Meanings
  <1> HIDE DEF n, k
  <1>6. f[n] = g[n]
    BY <1>1, <1>2, <1>3, <1>4, SumsAgree
  <1>7. f[n] \in Int /\ f[0] = 0
    BY <1>1, <1>2, <1>4, SumsFacts
  <1>8. g[k] = Raw(K, g[k - 1] + Values(q)[k])
    BY <1>1, <1>3, <1>4, SumsFacts
  <1>9. g[k] = Raw(K, f[n] + Meaning(p, v))
    BY <1>1, <1>4, <1>6, <1>8
  <1>10. CASE n = 0
    <2>1. f[n] + Meaning(p, v) = Meaning(p, v)
      BY <1>5, <1>7, <1>10
    <2> QED
      BY <1>3, <1>5, <1>9, <1>10, <2>1 DEF U64, n
  <1>11. CASE n # 0
    <2>1. Raw(K, f[n] + Meaning(p, v)) = Raw(K, f[n] + v)
      BY <1>7, PlusMeaning
    <2> QED
      BY <1>2, <1>3, <1>9, <1>11, <2>1 DEF n
  <1> QED
    BY <1>10, <1>11

\* Its extremes.
LEMMA ExtendedExtremes ==
  ASSUME NEW p, NEW q, InUse(p), NEW v \in Word, Extends(p, q, Meaning(p, v)),
         Count(p) > 0 => IsMinimum(p, p.smin) /\ IsMaximum(p, p.smax)
  PROVE  /\ IsMinimum(q, IF Count(p) = 0 \/ Less(p, v, p.smin) THEN v ELSE p.smin)
         /\ IsMaximum(q, IF Count(p) = 0 \/ Less(p, p.smax, v) THEN v ELSE p.smax)
  <1> DEFINE n == Count(p)
             k == n + 1
             m == Meaning(p, v)
  <1>1. n \in Nat /\ DOMAIN p.data = 1 .. n /\ DOMAIN q.data = 1 .. k /\ k \in 1 .. k
        /\ m \in Int /\ U64(m) = v /\ Value(q, k) = m
        /\ (\A i \in 1 .. n : Value(q, i) = Value(p, i) /\ Value(p, i) \in Int)
        /\ (\A i \in 1 .. k : i = k \/ i \in 1 .. n)
        /\ (\A i \in 1 .. n : i \in 1 .. k)
        /\ p.smin \in Word /\ p.smax \in Word
    BY Fields, Meanings, ValueRange DEF InUse, Extends
  <1> HIDE DEF m
  <1>2. CASE n = 0
    <2>1. \A i \in 1 .. k : i = k
      BY <1>2
    <2> HIDE DEF n, k
    <2>2. IsMinimum(q, v) /\ IsMaximum(q, v)
      BY <1>1, <2>1 DEF IsMinimum, IsMaximum
    <2> QED
      BY <1>2, <2>2 DEF n
  <1>3. CASE n # 0
    <2>0. IsMinimum(p, p.smin) /\ IsMaximum(p, p.smax) /\ DOMAIN p.data = 1 .. n
      BY <1>1, <1>3
    <2>1. PICK i \in 1 .. n : p.smin = U64(Value(p, i)) /\ \A j \in 1 .. n : Value(p, i) <= Value(p, j)
      <3> HIDE DEF n
      <3> QED
        BY <2>0 DEF IsMinimum
    <2>2. PICK j \in 1 .. n : p.smax = U64(Value(p, j)) /\ \A l \in 1 .. n : Value(p, l) <= Value(p, j)
      <3> HIDE DEF n
      <3> QED
        BY <2>0 DEF IsMaximum
    <2>3. Meaning(p, p.smin) = Value(p, i) /\ Meaning(p, p.smax) = Value(p, j)
      BY <1>1, <2>1, <2>2, ElementMeaning
    <2>4. Less(p, v, p.smin) <=> m < Value(p, i)
      BY <1>1, <2>3, Meanings DEF m
    <2>5. Less(p, p.smax, v) <=> Value(p, j) < m
      BY <1>1, <2>3, Meanings DEF m
    <2>6. Value(p, i) \in Int /\ Value(p, j) \in Int
      BY <1>1
    <2> HIDE DEF n, k
    <2>7. IsMinimum(q, IF Less(p, v, p.smin) THEN v ELSE p.smin)
      <3>1. CASE Less(p, v, p.smin)
        <4>1. m < Value(p, i)
          BY <2>4, <3>1
        <4>2. \A l \in 1 .. k : m <= Value(q, l)
          <5> TAKE l \in 1 .. k
          <5>1. CASE l = k
            BY <1>1, <5>1
          <5>2. CASE l \in 1 .. n
            BY <1>1, <2>1, <2>6, <4>1, <5>2
          <5> QED
            BY <1>1, <5>1, <5>2
        <4>3. IsMinimum(q, v)
          BY <1>1, <4>2 DEF IsMinimum
        <4> QED
          BY <3>1, <4>3
      <3>2. CASE ~Less(p, v, p.smin)
        <4>1. Value(p, i) <= m
          BY <1>1, <2>4, <2>6, <3>2
        <4>2. \A l \in 1 .. k : Value(q, i) <= Value(q, l)
          <5> TAKE l \in 1 .. k
          <5>1. CASE l = k
            BY <1>1, <4>1, <5>1
          <5>2. CASE l \in 1 .. n
            BY <1>1, <2>1, <5>2
          <5> QED
            BY <1>1, <5>1, <5>2
        <4>3. IsMinimum(q, p.smin)
          BY <1>1, <2>1, <4>2 DEF IsMinimum
        <4> QED
          BY <3>2, <4>3
      <3> QED
        BY <3>1, <3>2
    <2>8. IsMaximum(q, IF Less(p, p.smax, v) THEN v ELSE p.smax)
      <3>1. CASE Less(p, p.smax, v)
        <4>1. Value(p, j) < m
          BY <2>5, <3>1
        <4>2. \A l \in 1 .. k : Value(q, l) <= m
          <5> TAKE l \in 1 .. k
          <5>1. CASE l = k
            BY <1>1, <5>1
          <5>2. CASE l \in 1 .. n
            BY <1>1, <2>2, <2>6, <4>1, <5>2
          <5> QED
            BY <1>1, <5>1, <5>2
        <4>3. IsMaximum(q, v)
          BY <1>1, <4>2 DEF IsMaximum
        <4> QED
          BY <3>1, <4>3
      <3>2. CASE ~Less(p, p.smax, v)
        <4>1. m <= Value(p, j)
          BY <1>1, <2>5, <2>6, <3>2
        <4>2. \A l \in 1 .. k : Value(q, l) <= Value(q, j)
          <5> TAKE l \in 1 .. k
          <5>1. CASE l = k
            BY <1>1, <4>1, <5>1
          <5>2. CASE l \in 1 .. n
            BY <1>1, <2>2, <5>2
          <5> QED
            BY <1>1, <5>1, <5>2
        <4>3. IsMaximum(q, p.smax)
          BY <1>1, <2>2, <4>2 DEF IsMaximum
        <4> QED
          BY <3>2, <4>3
      <3> QED
        BY <3>1, <3>2
    <2> QED
      BY <1>3, <2>7, <2>8 DEF n
  <1> QED
    BY <1>2, <1>3

\* Its order.
LEMMA ExtendedOrder ==
  ASSUME NEW p, NEW q, InUse(p), NEW v \in Word, Extends(p, q, Meaning(p, v)),
         InOrder(p), KeepsOrder(p, v)
  PROVE  InOrder(q)
  <1> DEFINE n == Count(p)
             m == Meaning(p, v)
  <1>1. n \in Nat /\ DOMAIN p.data = 1 .. n /\ DOMAIN q.data = 1 .. n + 1
        /\ m \in Int /\ Value(q, n + 1) = m
        /\ \A i \in 1 .. n : Value(q, i) = Value(p, i) /\ Value(p, i) \in Int
    BY Fields, Meanings, ValueRange DEF InUse, Extends
  <1>2. n # 0 => Value(p, n) <= m
    <2>1. n # 0 => IF IsSigned(p) THEN I64(v) >= GetSigned(p, n) ELSE v >= Get(p, n)
      BY DEF KeepsOrder
    <2>2. n # 0 => n \in 1 .. n /\ Value(p, n) \in Int
      BY <1>1
    <2>3. Value(p, n) = IF IsSigned(p) THEN GetSigned(p, n) ELSE Get(p, n)
      BY DEF Value
    <2>4. m = IF IsSigned(p) THEN I64(v) ELSE v
      BY DEF Meaning
    <2> HIDE DEF n, m
    <2>5. n # 0 => m >= Value(p, n)
      BY <2>1, <2>3, <2>4
    <2> QED
      BY <1>1, <2>2, <2>5
  <1> HIDE DEF n, m
  <1> SUFFICES ASSUME NEW i \in 1 .. n + 1, NEW j \in 1 .. n + 1, i < j
               PROVE  Value(q, i) <= Value(q, j)
    BY <1>1 DEF InOrder
  <1>3. i \in 1 .. n
    BY <1>1
  <1>4. CASE j \in 1 .. n
    BY <1>1, <1>3, <1>4 DEF InOrder
  <1>5. CASE j = n + 1
    <2>1. n \in 1 .. n /\ n # 0
      BY <1>1, <1>3
    <2>2. Value(p, i) <= Value(p, n)
      BY <1>1, <1>3, <2>1 DEF InOrder
    <2>3. Value(p, i) \in Int /\ Value(p, n) \in Int /\ Value(q, i) = Value(p, i)
      BY <1>1, <1>3, <2>1
    <2> QED
      BY <1>1, <1>2, <1>5, <2>1, <2>2, <2>3
  <1> QED
    BY <1>1, <1>4, <1>5

\* A push that stores, of a value that the class represents if facts are recorded.
LEMMA PushedOnward ==
  ASSUME NEW p, NEW q, Honest(p), InUse(q), NEW v \in Word, Pushed(p, v, q),
         "READONLY" \notin p.flags,
         p.flags \cap FactFlags # {} => Holds(p.size, Meaning(p, v))
  PROVE  Onward(p, q)
  <1> DEFINE u == PushFacts(p, v)
  <1>1. InUse(p) /\ Placed(p) /\ Agrees(p) /\ "EXTERNAL" \notin p.flags
    BY DEF Honest, Placed
  <1>2. /\ InPlace(p, u) /\ u.size = p.size
        /\ u.flags = IF KeepsOrder(p, v) THEN p.flags ELSE p.flags \ {"SORTED"}
        /\ "SUMMARY" \in p.flags =>
             /\ u.smin = IF Count(p) = 0 \/ Less(p, v, p.smin) THEN v ELSE p.smin
             /\ u.smax = IF Count(p) = 0 \/ Less(p, p.smax, v) THEN v ELSE p.smax
             /\ u.ssum = IF Count(p) = 0 THEN v ELSE Raw(K, p.ssum + v)
    BY <1>1, PushFactsFields DEF SameElements
  <1> HIDE DEF u
  <1>3. /\ q.data = Append(p.data, Raw(Abs(p.size), v)) /\ q.size = p.size
        /\ SameRecord(u, q)
        /\ \/ InPlace(p, q) /\ q.flags = u.flags
           \/ Moved(p, q) /\ q.flags = u.flags \ {"EXTERNAL"}
    BY DEF Pushed, u
  <1>4. /\ "SIGNED" \in q.flags <=> "SIGNED" \in p.flags
        /\ "EXTERNAL" \notin q.flags
        /\ "SUMMARY" \in q.flags <=> "SUMMARY" \in p.flags
        /\ "SORTED" \in q.flags => "SORTED" \in p.flags /\ KeepsOrder(p, v)
    BY <1>1, <1>2, <1>3
  <1>5. Placed(q)
    <2>1. CASE InPlace(p, q)
      BY <1>1, <1>4, <2>1 DEF InPlace, Placed
    <2>2. CASE Moved(p, q)
      BY <1>1, <1>4, <2>2, MovedPlaced
    <2> QED
      BY <1>3, <2>1, <2>2
  <1>6. Agrees(q)
    BY <1>1, <1>3, <1>4 DEF Agrees
  <1>7. IsSigned(q) = IsSigned(p)
    <2>1. q.size = p.size /\ ("SIGNED" \in q.flags <=> "SIGNED" \in p.flags)
      BY <1>3, <1>4
    <2> QED
      BY <2>1 DEF IsSigned
  <1>8. p.flags \cap FactFlags # {} => Extends(p, q, Meaning(p, v))
    BY <1>3, <1>7, AppendedValues DEF Extends
  <1>9. OrderKnown(q)
    <2> SUFFICES ASSUME "SORTED" \in q.flags  PROVE InOrder(q)
      BY DEF OrderKnown
    <2>1. "SORTED" \in p.flags /\ KeepsOrder(p, v) /\ "SORTED" \in FactFlags
      BY <1>4 DEF FactFlags
    <2>2. Extends(p, q, Meaning(p, v)) /\ InOrder(p)
      BY <1>8, <2>1 DEF Honest, OrderKnown
    <2> QED
      BY <1>1, <2>1, <2>2, ExtendedOrder
  <1>10. Summarised(q)
    <2> SUFFICES ASSUME "SUMMARY" \in q.flags
                 PROVE  IsMinimum(q, q.smin) /\ IsMaximum(q, q.smax) /\ q.ssum = RunningSum(q)
      BY DEF Summarised
    <2>1. "SUMMARY" \in p.flags /\ "SUMMARY" \in FactFlags
      BY <1>4 DEF FactFlags
    <2>2. Extends(p, q, Meaning(p, v))
      BY <1>8, <2>1
    <2>3. Count(p) > 0 => IsMinimum(p, p.smin) /\ IsMaximum(p, p.smax) /\ p.ssum = RunningSum(p)
      BY <2>1 DEF Honest, Summarised
    <2>4. /\ IsMinimum(q, IF Count(p) = 0 \/ Less(p, v, p.smin) THEN v ELSE p.smin)
          /\ IsMaximum(q, IF Count(p) = 0 \/ Less(p, p.smax, v) THEN v ELSE p.smax)
      BY <1>1, <2>2, <2>3, ExtendedExtremes
    <2>5. RunningSum(q) = IF Count(p) = 0 THEN v ELSE Raw(K, RunningSum(p) + v)
      BY <1>1, <2>2, ExtendedSum
    <2>6. q.smin = u.smin /\ q.smax = u.smax /\ q.ssum = u.ssum
      BY <1>3 DEF SameRecord
    <2>7. Count(p) \in Nat
      BY <1>1, Fields DEF InUse
    <2>8. IsMinimum(q, q.smin) /\ IsMaximum(q, q.smax)
      BY <1>2, <2>1, <2>4, <2>6
    <2>9. q.ssum = RunningSum(q)
      <3>1. CASE Count(p) = 0
        BY <1>2, <2>1, <2>5, <2>6, <3>1
      <3>2. CASE Count(p) # 0
        <4>1. p.ssum = RunningSum(p)
          BY <2>3, <2>7, <3>2
        <4> QED
          BY <1>2, <2>1, <2>5, <2>6, <3>2, <4>1
      <3> QED
        BY <3>1, <3>2
    <2> QED
      BY <2>8, <2>9
  <1> QED
    BY <1>1, <1>5, <1>6, <1>9, <1>10 DEF Honest, Onward

\* A push that is refused after the facts were touched, on a pool without a summary.
LEMMA RefusedOnward ==
  ASSUME NEW p, Honest(p), NEW v \in Word, "SUMMARY" \notin p.flags
  PROVE  Onward(p, PushFacts(p, v))
  <1> DEFINE q == PushFacts(p, v)
  <1>1. InUse(p) /\ InUse(q)
    BY PushFactsInUse DEF Honest
  <1>2. /\ InPlace(p, q) /\ SameElements(p, q)
        /\ q.flags = IF KeepsOrder(p, v) THEN p.flags ELSE p.flags \ {"SORTED"}
    BY <1>1, PushFactsFields
  <1> HIDE DEF q
  <1>3. /\ \A g \in {"SIGNED", "READONLY", "EXTERNAL", "SUMMARY"} : g \in q.flags <=> g \in p.flags
        /\ "SORTED" \in q.flags => "SORTED" \in p.flags
    BY <1>2
  <1>4. Placed(q) /\ Agrees(q)
    BY <1>2, <1>3 DEF InPlace, SameElements, Honest, Placed, Agrees
  <1>5. IsSigned(q) = IsSigned(p)
    <2>1. q.size = p.size /\ ("SIGNED" \in q.flags <=> "SIGNED" \in p.flags)
      BY <1>2, <1>3 DEF SameElements
    <2> QED
      BY <2>1 DEF IsSigned
  <1>6. Values(q) = Values(p) /\ Count(q) = Count(p)
    BY <1>2, <1>5, SameReading
  <1>7. OrderKnown(q) /\ Summarised(q)
    BY <1>1, <1>3, <1>6, SameFacts DEF Honest, OrderKnown, Summarised
  <1> QED
    BY <1>1, <1>3, <1>4, <1>7 DEF Honest, Onward, q

\* s2r_push by a careful caller.
LEMMA PushOnward ==
  ASSUME NEW p, Honest(p), NEW v \in Word, NEW ok \in BOOLEAN, NEW r, r = Push(p, v, ok),
         p.flags \cap FactFlags # {} => Holds(p.size, Meaning(p, v)),
         "SUMMARY" \in p.flags /\ "SUMMARY" \in r.pool.flags => r.ret
  PROVE  Onward(p, r.pool)
  <1>1. InUse(p) /\ InUse(r.pool)
    BY PushInUse DEF Honest
  <1>2. CASE r.pool = p
    BY <1>2 DEF Onward
  <1>3. CASE r.pool = PushFacts(p, v) /\ r.ret = FALSE
    <2>0. PushFacts(p, v).flags = IF KeepsOrder(p, v) THEN p.flags ELSE p.flags \ {"SORTED"}
      BY <1>1, PushFactsFields
    <2>1. "SUMMARY" \in p.flags => "SUMMARY" \in r.pool.flags
      BY <1>3, <2>0
    <2> QED
      BY <1>3, <2>1, RefusedOnward
  <1>4. CASE "READONLY" \notin p.flags /\ Pushed(p, v, r.pool)
    BY <1>1, <1>4, PushedOnward
  <1> QED
    BY <1>1, <1>2, <1>3, <1>4, PushEffect

\* The words a class takes are those it represents, when the signs agree.
Takes(p, v) == IF IsSigned(p) THEN InRange(p, I64(v)) ELSE v <= MaxValue(p.size)

LEMMA TakesHolds ==
  ASSUME NEW p, Honest(p), NEW v \in Word
  PROVE  Takes(p, v) <=> Holds(p.size, Meaning(p, v))
  <1>1. InUse(p) /\ Agrees(p) /\ p.size \in Sizes /\ p.size \in Int
    BY Fields DEF Honest, InUse, Sound, Sizes, PoolType
  <1>2. v \in Nat /\ I64(v) \in Int
    BY Meanings, Conversions DEF Int64
  <1>3. CASE p.size < 0
    <2>1. IsSigned(p) /\ -p.size \in Classes /\ Abs(p.size) = -p.size
      BY <1>1, <1>3, SizeFacts DEF IsSigned, Abs
    <2>2. Half[-p.size] \in Int
      BY <2>1, PowFacts
    <2>3. MinSigned(p.size) = -Half[-p.size] /\ MaxSigned(p.size) = Half[-p.size] - 1
      BY <1>3 DEF MinSigned, MaxSigned
    <2>4. InRange(p, I64(v)) <=> -Half[-p.size] <= I64(v) /\ I64(v) < Half[-p.size]
      BY <1>2, <2>2, <2>3 DEF InRange
    <2> QED
      BY <1>3, <2>1, <2>4 DEF Takes, Holds, Meaning
  <1>4. CASE ~ p.size < 0
    <2>1. ~IsSigned(p) /\ Abs(p.size) = p.size
      BY <1>1, <1>4 DEF IsSigned, Agrees, Abs
    <2>2. MaxValue(p.size) = Pow(p.size) - 1 /\ Pow(p.size) \in Int
      BY <1>1, <2>1, MaxValueRange, SizeFacts, PowFacts
    <2>3. v <= MaxValue(p.size) <=> 0 <= v /\ v < Pow(p.size)
      BY <1>2, <2>2
    <2> QED
      BY <1>4, <2>1, <2>3 DEF Takes, Holds, Meaning
  <1> QED
    BY <1>3, <1>4

\* A push whose result is turned into a code.
LEMMA CodedOnward ==
  ASSUME NEW p, Honest(p), NEW v \in Word, NEW ok \in BOOLEAN, NEW r, r = Coded(Push(p, v, ok)),
         p.flags \cap FactFlags # {} => Holds(p.size, Meaning(p, v)),
         "SUMMARY" \in p.flags /\ "SUMMARY" \in r.pool.flags => r.ret # "OOM"
  PROVE  Onward(p, r.pool)
  <1> DEFINE s == Push(p, v, ok)
  <1>1. r.pool = s.pool
    BY CodedPool
  <1>2. s.ret \in BOOLEAN /\ r.ret = IF s.ret THEN "OK" ELSE "OOM"
    BY DEF Coded, Push, Result, Reserve, CanAlloc
  <1> HIDE DEF s
  <1>3. "SUMMARY" \in p.flags /\ "SUMMARY" \in s.pool.flags => s.ret
    BY <1>1, <1>2
  <1>4. Onward(p, s.pool)
    BY <1>3, PushOnward DEF s
  <1> QED
    BY <1>1, <1>4

\* A signed value and its word.
LEMMA SignedWord ==
  ASSUME NEW v \in Int64
  PROVE  U64(v) \in Word /\ I64(U64(v)) = v /\ v \in Int
  <1>1. K \in Classes /\ Half[K] \in Nat
    BY Conversions
  <1>2. v \in Int /\ -Half[K] <= v /\ v < Half[K]
    BY <1>1 DEF Int64
  <1> QED
    BY <1>1, <1>2, SignExtended, Conversions DEF I64, U64

\* The limits are integers.
LEMMA SignedLimits ==
  ASSUME NEW p, InUse(p)
  PROVE  MinSigned(p.size) \in Int /\ MaxSigned(p.size) \in Int
  <1>1. p.size \in Sizes /\ p.size \in Int /\ Abs(p.size) \in Classes
    BY Fields, SizeFacts DEF InUse, Sound, Sizes, PoolType
  <1>2. CASE p.size < 0
    <2>1. Half[-p.size] \in Int
      BY <1>1, <1>2, PowFacts DEF Abs
    <2> QED
      BY <1>2, <2>1 DEF MinSigned, MaxSigned
  <1>3. CASE ~ p.size < 0
    <2>1. I64(MaxValue(p.size)) \in Int
      <3>1. MaxValue(p.size) \in Word
        BY <1>1, MaxValueRange
      <3>2. I64(MaxValue(p.size)) \in Int64
        BY <3>1, Conversions
      <3> QED
        BY <3>2, SignedWord
    <2> QED
      BY <1>3, <2>1 DEF MinSigned, MaxSigned
  <1> QED
    BY <1>2, <1>3

\* A push into a block with room uses it.
LEMMA PushUsesRoom ==
  ASSUME NEW p, InUse(p), NEW v, "READONLY" \notin p.flags, Count(p) < p.capacity
  PROVE  Push(p, v, TRUE).pool = Store(PushFacts(p, v), v)
  BY DEF Push, Result, InUse, Sound

\* s2r_push_checked.
LEMMA PushCheckedOnward ==
  ASSUME NEW p, Honest(p), NEW v \in Word, NEW ok \in BOOLEAN, NEW r, r = PushChecked(p, v, ok),
         p.flags \cap FactFlags # {} => Takes(p, v),
         "SUMMARY" \in p.flags => r.ret # "OOM"
  PROVE  Onward(p, r.pool)
  <1>1. CASE r.pool = p
    BY <1>1 DEF Onward
  <1>2. CASE r = Coded(Push(p, v, ok))
    BY <1>2, TakesHolds, CodedOnward
  <1> QED
    BY <1>1, <1>2 DEF PushChecked, Result

\* s2r_push_signed_checked looks at the range itself.
LEMMA PushSignedCheckedOnward ==
  ASSUME NEW p, Honest(p), NEW v \in Int64, NEW ok \in BOOLEAN, NEW r,
         r = PushSignedChecked(p, v, ok),
         "SUMMARY" \in p.flags => r.ret # "OOM"
  PROVE  Onward(p, r.pool)
  <1>1. CASE r.pool = p
    BY <1>1 DEF Onward
  <1>2. CASE r = Coded(Push(p, U64(v), ok)) /\ IsSigned(p) /\ ~ v < MinSigned(p.size)
             /\ ~ v > MaxSigned(p.size)
    <2>1. U64(v) \in Word /\ I64(U64(v)) = v
      BY SignedWord
    <2>2. v \in Int /\ MinSigned(p.size) \in Int /\ MaxSigned(p.size) \in Int
      BY SignedLimits, SignedWord DEF Honest
    <2>3. Takes(p, U64(v))
      BY <1>2, <2>1, <2>2 DEF Takes, InRange
    <2>4. Holds(p.size, Meaning(p, U64(v)))
      BY <2>1, <2>3, TakesHolds
    <2> QED
      BY <1>2, <2>1, <2>4, CodedOnward
  <1> QED
    BY <1>1, <1>2 DEF PushSignedChecked, Result

\* s2r_push_saturate.
LEMMA PushSaturateOnward ==
  ASSUME NEW p, Honest(p), NEW v \in Word, NEW ok \in BOOLEAN, NEW r,
         r = PushSaturate(p, v, ok),
         p.flags \cap FactFlags # {} => Takes(p, Saturated(p, v)),
         "SUMMARY" \in p.flags => r.ret
  PROVE  Onward(p, r.pool)
  <1>1. p.size \in Sizes
    BY DEF Honest, InUse, Sound, Sizes, PoolType
  <1>2. Saturated(p, v) \in Word
    BY <1>1, MaxValueRange DEF Saturated
  <1> QED
    BY <1>2, TakesHolds, PushOnward DEF PushSaturate

\* s2r_push_many: the reservation leaves room for both pushes.
LEMMA PushManyOnward ==
  ASSUME NEW p, Honest(p), NEW a \in Word, NEW b \in Word, NEW ok \in BOOLEAN, NEW r,
         r = PushMany(p, a, b, ok),
         p.flags \cap FactFlags # {} => Takes(p, a) /\ Takes(p, b)
  PROVE  Onward(p, r.pool)
  <1> DEFINE room  == Reserve(p, Count(p) + 2, ok)
             m     == room.pool
             first == Push(m, a, TRUE)
             f     == first.pool
  <1>0. InUse(p) /\ Count(p) \in Nat /\ Count(p) + 2 \in Nat /\ TRUE \in BOOLEAN
    BY Fields DEF Honest, InUse
  <1>1. InUse(m) /\ (m = p \/ ("READONLY" \notin p.flags /\ Regrown(p, m)))
    BY <1>0, CountAskable, ReserveInUse, ReserveEffect
  <1>2. Onward(p, m)
    <2> HIDE DEF m
    <2>1. CASE m = p
      BY <2>1 DEF Onward
    <2> QED
      BY <1>1, <2>1, RegrownOnward
  <1>3. CASE ~room.ret
    BY <1>2, <1>3 DEF PushMany
  <1>4. CASE room.ret
    <2>1. r = Push(f, b, TRUE)
      BY <1>4 DEF PushMany
    <2>2. m.capacity >= Count(p) + 2 /\ m.data = p.data /\ m.size = p.size /\ m.capacity \in Nat
      BY <1>0, <1>1, <1>4, ReserveRoom, Fields DEF InUse
    <2>3. /\ m.flags \cap FactFlags = p.flags \cap FactFlags
          /\ "SIGNED" \in m.flags <=> "SIGNED" \in p.flags
          /\ "READONLY" \in m.flags <=> "READONLY" \in p.flags
      BY <1>1 DEF Regrown, FactFlags
    <2>4. Count(m) = Count(p) /\ IsSigned(m) = IsSigned(p)
      <3> HIDE DEF m
      <3>1. Count(m) = Count(p)
        BY <2>2 DEF Count
      <3>2. IsSigned(m) = IsSigned(p)
        BY <2>2, <2>3 DEF IsSigned
      <3> QED
        BY <3>1, <3>2
    <2>5. m.flags \cap FactFlags # {} => Takes(m, a) /\ Takes(m, b)
      BY <2>2, <2>3, <2>4 DEF Takes, InRange
    <2>6. Honest(m)
      BY <1>2 DEF Onward
    <2> HIDE DEF m
    <2>7. CASE "READONLY" \in m.flags
      <3>1. \A v : Push(m, v, TRUE).pool = m
        BY <2>7 DEF Push, Result
      <3>2. f = m /\ r.pool = m
        BY <2>1, <3>1
      <3> QED
        BY <1>2, <3>2
    <2>8. CASE "READONLY" \notin m.flags
      <3>1. Count(m) < m.capacity
        BY <1>0, <2>2, <2>4
      <3>2. first.ret = TRUE /\ Pushed(m, a, f) /\ InUse(f)
        BY <1>0, <1>1, <2>8, <3>1, PushStores, PushInUse
      <3>3. PushFacts(m, a).flags = IF KeepsOrder(m, a) THEN m.flags ELSE m.flags \ {"SORTED"}
        BY <1>1, PushFactsFields
      <3>4. /\ f.flags \cap FactFlags \subseteq m.flags \cap FactFlags
            /\ "SIGNED" \in f.flags <=> "SIGNED" \in m.flags
            /\ "READONLY" \notin f.flags /\ f.size = m.size
        BY <2>8, <3>2, <3>3 DEF Pushed
      <3>5. Onward(m, f)
        BY <1>0, <1>1, <2>5, <2>6, <2>8, <3>2, TakesHolds, PushedOnward
      <3>6. f.data = Append(m.data, Raw(Abs(m.size), a)) /\ m.data \in Seq(Word)
        BY <1>1, <3>2, Fields DEF Pushed, InUse
      <3>7. f.capacity >= Count(p) + 2 /\ Count(f) = Count(p) + 1 /\ f.capacity \in Nat
        <4>2. f = Store(PushFacts(m, a), a)
          BY <2>8, <3>1, <1>1, PushUsesRoom
        <4> HIDE DEF f
        <4>1. Count(f) = Count(m) + 1
          BY <3>6 DEF Count
        <4>3. f.capacity = m.capacity
          <5>1. PushFacts(m, a) \in PoolType /\ PushFacts(m, a).capacity = m.capacity
            BY <1>1, PushFactsInUse DEF InUse
          <5>2. \A q \in PoolType : Store(q, a).capacity = q.capacity
            BY DEF Store, PoolType
          <5> QED
            BY <4>2, <5>1, <5>2
        <4> QED
          BY <1>0, <2>2, <2>4, <4>1, <4>3
      <3>8. IsSigned(f) = IsSigned(m)
        BY <3>4 DEF IsSigned
      <3> HIDE DEF f
      <3>9. f.flags \cap FactFlags # {} => Takes(f, b)
        BY <2>5, <3>4, <3>8 DEF Takes, InRange
      <3>10. Honest(f)
        BY <3>5 DEF Onward
      <3>11. r.ret = TRUE /\ Pushed(f, b, r.pool) /\ InUse(r.pool)
        <4>1. Count(f) < f.capacity
          BY <1>0, <3>7
        <4>2. Push(f, b, TRUE).ret = TRUE /\ Pushed(f, b, Push(f, b, TRUE).pool)
          BY <1>0, <3>2, <3>4, <4>1, PushStores
        <4> QED
          BY <1>0, <2>1, <3>2, <4>2, PushInUse
      <3>12. Onward(f, r.pool)
        BY <3>4, <3>9, <3>10, <3>11, TakesHolds, PushedOnward
      <3> QED
        BY <1>2, <3>5, <3>12, OnwardTwice
    <2> QED
      BY <2>7, <2>8
  <1> QED
    BY <1>3, <1>4

\* Widening to a class of the same sign.
LEMMA WidenOnward ==
  ASSUME NEW p, Honest(p), "READONLY" \notin p.flags, NEW size \in Sizes, NEW ok \in BOOLEAN,
         IsSigned(p) = (size < 0), NEW r, r = Widen(p, size, ok)
  PROVE  Onward(p, r.pool) /\ (r.ret => r.pool.size = size)
  <1>1. InUse(p) /\ InUse(r.pool) /\ Agrees(p) /\ "EXTERNAL" \notin p.flags
    BY WidenInUse DEF Honest, Placed
  <1>2. CASE /\ Count(p) = 0 /\ r.ret
             /\ InPlace(p, r.pool) /\ SameRecord(p, r.pool)
             /\ r.pool.data = p.data /\ r.pool.size = size /\ r.pool.flags = p.flags
    <2> DEFINE q == r.pool
    <2> HIDE DEF q
    <2>0. /\ InUse(q) /\ Count(p) = 0 /\ InPlace(p, q) /\ q.data = p.data /\ q.size = size
          /\ q.flags = p.flags
      BY <1>1, <1>2 DEF q
    <2>1. Placed(q)
      BY <2>0 DEF InPlace, Honest, Placed
    <2>2. q.size < 0 <=> p.size < 0
      <3>1. (p.size < 0) \in BOOLEAN /\ IsSigned(p) = (p.size < 0 \/ "SIGNED" \in p.flags)
        BY DEF IsSigned
      <3> QED
        BY <1>1, <2>0, <3>1 DEF Agrees
    <2>3. Agrees(q)
      BY <1>1, <2>0, <2>2 DEF Agrees
    <2>4. Count(q) = 0 /\ DOMAIN q.data = {}
      <3>1. Count(q) = 0
        BY <2>0 DEF Count
      <3>2. DOMAIN q.data = 1 .. Count(q)
        BY <2>0, Fields DEF InUse
      <3> QED
        BY <3>1, <3>2
    <2>5. OrderKnown(q) /\ Summarised(q)
      BY <2>4 DEF OrderKnown, Summarised, InOrder
    <2> QED
      BY <1>2, <2>0, <2>1, <2>3, <2>5 DEF Honest, Onward, q
  <1>3. CASE r.pool = p /\ ~r.ret
    BY <1>3 DEF Onward
  <1>4. CASE r.ret /\ Refitted(p, r.pool) /\ r.pool.size = size /\ r.pool.flags = SignFlag(size)
    <2>1. Agrees(r.pool) /\ r.pool.flags \ {"SIGNED"} \subseteq p.flags
      BY <1>4 DEF SignFlag, Agrees
    <2> QED
      BY <1>1, <1>4, <2>1, RefittedOnward
  <1>5. \/ r.pool = p /\ ~r.ret
        \/ r.ret /\ Refitted(p, r.pool) /\ r.pool.size = size /\ r.pool.flags = SignFlag(size)
        \/ /\ Count(p) = 0 /\ r.ret
           /\ InPlace(p, r.pool) /\ SameRecord(p, r.pool)
           /\ r.pool.data = p.data /\ r.pool.size = size /\ r.pool.flags = p.flags
    BY <1>1, WidenEffect, PromoteEffect
  <1> QED
    BY <1>2, <1>3, <1>4, <1>5

\* s2r_push_adaptive.
LEMMA PushAdaptiveOnward ==
  ASSUME NEW p, Honest(p), NEW v \in Word, NEW ok1 \in BOOLEAN, NEW ok2 \in BOOLEAN, NEW r,
         r = PushAdaptive(p, v, ok1, ok2),
         "SUMMARY" \in r.pool.flags => r.ret # "OOM"
  PROVE  Onward(p, r.pool)
  <1> DEFINE c == Classify({v})
             w == IF v > MaxValue(p.size) THEN Widen(p, c, ok1) ELSE Result(p, TRUE)
  <1>0. InUse(p) /\ Agrees(p) /\ p.size \in Sizes
    BY DEF Honest, InUse, Sound, Sizes, PoolType
  <1>1. CASE "READONLY" \in p.flags \/ IsSigned(p)
    <2>1. r.pool = p
      BY <1>1 DEF PushAdaptive, Result
    <2> QED
      BY <2>1 DEF Onward
  <1>2. CASE ~("READONLY" \in p.flags \/ IsSigned(p))
    <2>1. c \in Sizes /\ c \in Classes /\ 0 <= v /\ v < Pow(c) /\ ~ c < 0
      <3>1. K \in Classes /\ v < Pow(K) /\ 0 <= v
        BY Conversions, PowFacts DEF Word
      <3>2. UFits(K, {v})
        BY <3>1 DEF UFits
      <3>3. c \in Classes /\ UFits(c, {v})
        BY <3>1, <3>2, ClassifyFits
      <3> HIDE DEF c
      <3> QED
        BY <3>1, <3>3, ClassAssumption DEF UFits, Classes, Sizes
    <2>2. /\ Onward(p, w.pool)
          /\ w.ret => Holds(w.pool.size, Meaning(w.pool, v))
      <3>1. CASE v > MaxValue(p.size)
        <4> HIDE DEF c
        <4>1. IsSigned(p) = (c < 0)
          <5>1. ~IsSigned(p) /\ IsSigned(p) \in BOOLEAN
            BY <1>2 DEF IsSigned
          <5> QED
            BY <2>1, <5>1
        <4>2. w = Widen(p, c, ok1)
          BY <3>1
        <4> HIDE DEF w
        <4>3. Onward(p, w.pool) /\ (w.ret => w.pool.size = c)
          BY <1>2, <2>1, <4>1, <4>2, WidenOnward
        <4>4. w.ret => Meaning(w.pool, v) = v
          <5>1. Agrees(w.pool)
            BY <4>3 DEF Onward, Honest
          <5> QED
            BY <2>1, <4>3, <5>1 DEF Agrees, IsSigned, Meaning
        <4> QED
          BY <2>1, <4>3, <4>4 DEF Holds
      <3>2. CASE ~ v > MaxValue(p.size)
        <4>1. w.pool = p
          BY <3>2 DEF Result
        <4>2. MaxValue(p.size) \in Int /\ v \in Int
          <5>1. MaxValue(p.size) \in Word /\ v \in Word
            BY <1>0, MaxValueRange
          <5>2. Word \subseteq Int
            BY Conversions
          <5> QED
            BY <5>1, <5>2
        <4>3. Takes(p, v)
          BY <1>2, <3>2, <4>2 DEF Takes
        <4> HIDE DEF w
        <4> QED
          BY <4>1, <4>3, TakesHolds DEF Onward
      <3> QED
        BY <3>1, <3>2
    <2>3. CASE ~w.ret
      <3>1. r.pool = w.pool
        BY <1>2, <2>3 DEF PushAdaptive, Result
      <3> HIDE DEF w
      <3> QED
        BY <2>2, <3>1
    <2>4. CASE w.ret
      <3>1. r = Coded(Push(w.pool, v, ok2))
        BY <1>2, <2>4 DEF PushAdaptive
      <3> HIDE DEF w
      <3>2. Honest(w.pool)
        BY <2>2 DEF Onward
      <3>3. Onward(w.pool, r.pool)
        BY <2>2, <2>4, <3>1, <3>2, CodedOnward
      <3> QED
        BY <2>2, <3>3, OnwardTwice
    <2> QED
      BY <2>3, <2>4
  <1> QED
    BY <1>1, <1>2

\* s2r_push_signed_adaptive.
LEMMA PushSignedAdaptiveOnward ==
  ASSUME NEW p, Honest(p), NEW v \in Int64, NEW ok1 \in BOOLEAN, NEW ok2 \in BOOLEAN, NEW r,
         r = PushSignedAdaptive(p, v, ok1, ok2),
         "SUMMARY" \in r.pool.flags => r.ret # "OOM"
  PROVE  Onward(p, r.pool)
  <1> DEFINE need == ClassifySigned({v})
             stay == InRange(p, v) \/ (Count(p) # 0 /\ Abs(need) <= Abs(p.size))
             w == IF stay THEN Result(p, TRUE) ELSE Widen(p, need, ok1)
  <1>0. InUse(p) /\ Agrees(p) /\ p.size \in Sizes /\ p.size \in Int /\ Abs(p.size) \in Classes
    BY Fields, SizeFacts DEF Honest, InUse, Sound, Sizes, PoolType
  <1>v. U64(v) \in Word /\ I64(U64(v)) = v /\ v \in Int
    BY SignedWord
  <1>1. CASE "READONLY" \in p.flags \/ ~IsSigned(p)
    <2>1. r.pool = p
      BY <1>1 DEF PushSignedAdaptive, Result
    <2> QED
      BY <2>1 DEF Onward
  <1>2. CASE ~("READONLY" \in p.flags \/ ~IsSigned(p))
    <2>0. p.size < 0 /\ IsSigned(p)
      BY <1>0, <1>2 DEF Agrees, IsSigned
    <2>1. need \in Sizes /\ need < 0 /\ -need \in Classes /\ -Half[-need] <= v /\ v < Half[-need]
      <3>1. K \in Classes /\ -Half[K] <= v /\ v < Half[K]
        BY <1>v, Conversions DEF Int64
      <3>2. SFits(K, {v})
        BY <3>1 DEF SFits
      <3>3. -need \in Classes /\ SFits(-need, {v}) /\ need \in Int
        BY <3>1, <3>2, ClassifySignedFits
      <3> HIDE DEF need
      <3> QED
        BY <3>3, ClassAssumption DEF SFits, Classes, Sizes
    <2> HIDE DEF need
    <2>2. /\ Onward(p, w.pool)
          /\ w.ret => Holds(w.pool.size, Meaning(w.pool, U64(v)))
      <3>1. CASE ~stay
        <4>1. IsSigned(p) = (need < 0)
          <5>1. IsSigned(p) \in BOOLEAN
            BY DEF IsSigned
          <5> QED
            BY <2>0, <2>1, <5>1
        <4>2. w = Widen(p, need, ok1)
          BY <3>1
        <4> HIDE DEF w
        <4>3. Onward(p, w.pool) /\ (w.ret => w.pool.size = need)
          BY <1>2, <2>1, <4>1, <4>2, WidenOnward
        <4>4. w.ret => Meaning(w.pool, U64(v)) = v
          BY <1>v, <2>1, <4>3 DEF IsSigned, Meaning
        <4> QED
          BY <2>1, <4>3, <4>4 DEF Holds
      <3>2. CASE stay
        <4>1. w.pool = p
          BY <3>2 DEF Result
        <4>2. Meaning(p, U64(v)) = v
          BY <1>v, <2>0 DEF Meaning
        <4>3. Holds(p.size, v)
          <5>1. CASE InRange(p, v)
            <6>1. Takes(p, U64(v))
              BY <1>v, <2>0, <5>1 DEF Takes
            <6> QED
              BY <1>v, <4>2, <6>1, TakesHolds
          <5>2. CASE Abs(need) <= Abs(p.size)
            <6>1. -p.size \in Classes /\ -need <= -p.size
              BY <1>0, <2>0, <2>1, <5>2 DEF Abs
            <6>2. Half[-need] <= Half[-p.size] /\ Half[-need] \in Int /\ Half[-p.size] \in Int
              <7>1. CASE need = p.size
                BY <2>1, <7>1, PowFacts
              <7>2. CASE need # p.size
                <8>1. -need < -p.size
                  BY <1>0, <2>1, <6>1, <7>2 DEF Sizes
                <8> QED
                  BY <2>1, <6>1, <8>1, Wider
              <7> QED
                BY <7>1, <7>2
            <6> QED
              BY <1>v, <2>0, <2>1, <6>2 DEF Holds
          <5> QED
            BY <3>2, <5>1, <5>2
        <4> HIDE DEF w
        <4> QED
          BY <4>1, <4>2, <4>3 DEF Onward
      <3> QED
        BY <3>1, <3>2
    <2>3. CASE ~w.ret
      <3>1. r.pool = w.pool
        BY <1>2, <2>3 DEF PushSignedAdaptive, Result, need
      <3> HIDE DEF w
      <3> QED
        BY <2>2, <3>1
    <2>4. CASE w.ret
      <3>1. r = Coded(Push(w.pool, U64(v), ok2))
        BY <1>2, <2>4 DEF PushSignedAdaptive, need
      <3> HIDE DEF w
      <3>2. Honest(w.pool)
        BY <2>2 DEF Onward
      <3>3. Onward(w.pool, r.pool)
        BY <1>v, <2>2, <2>4, <3>1, <3>2, CodedOnward
      <3> QED
        BY <2>2, <3>3, OnwardTwice
    <2> QED
      BY <2>3, <2>4
  <1> QED
    BY <1>1, <1>2

-----------------------------------------------------------------------------
(* Class changes, removals, creation.                                       *)

\* s2r_promote, s2r_demote of an unsigned pool, and the fit calls, on a pool that
\* is not a mapping.
LEMMA PromoteOnward ==
  ASSUME NEW p, Honest(p), "EXTERNAL" \notin p.flags, NEW size \in Sizes, NEW ok \in BOOLEAN
  PROVE  Onward(p, Promote(p, size, ok).pool)
  <1> DEFINE q == Promote(p, size, ok).pool
  <1>1. InUse(p) /\ InUse(q)
    BY PromoteInUse DEF Honest
  <1>2. q = p \/ (Refitted(p, q) /\ q.size = size /\ q.flags = SignFlag(size))
    BY <1>1, PromoteEffect
  <1> HIDE DEF q
  <1>3. CASE q = p
    BY <1>3 DEF Onward, q
  <1>4. CASE Refitted(p, q) /\ q.size = size /\ q.flags = SignFlag(size)
    <2>1. Agrees(q) /\ q.flags \ {"SIGNED"} \subseteq p.flags
      BY <1>4 DEF SignFlag, Agrees
    <2>2. Onward(p, q)
      BY <1>1, <1>4, <2>1, RefittedOnward
    <2> QED
      BY <2>2 DEF q
  <1> QED
    BY <1>2, <1>3, <1>4

LEMMA DemoteOnward ==
  ASSUME NEW p, Honest(p), "EXTERNAL" \notin p.flags, ~IsSigned(p), NEW size \in Sizes,
         NEW ok \in BOOLEAN
  PROVE  Onward(p, Demote(p, size, ok).pool)
  <1> DEFINE q == Demote(p, size, ok).pool
  <1>1. InUse(p) /\ InUse(q)
    BY DemoteInUse DEF Honest
  <1>2. q = p \/ (Refitted(p, q) /\ q.size = size /\ size > 0 /\ q.flags = p.flags)
    BY <1>1, DemoteEffect
  <1> HIDE DEF q
  <1>3. CASE q = p
    BY <1>3 DEF Onward, q
  <1>4. CASE Refitted(p, q) /\ q.size = size /\ size > 0 /\ q.flags = p.flags
    <2>1. "SIGNED" \notin q.flags /\ ~ q.size < 0
      BY <1>4 DEF IsSigned, Sizes
    <2>2. Agrees(q) /\ q.flags \ {"SIGNED"} \subseteq p.flags
      BY <1>4, <2>1 DEF Agrees
    <2>3. Onward(p, q)
      BY <1>1, <1>4, <2>2, RefittedOnward
    <2> QED
      BY <2>3 DEF q
  <1> QED
    BY <1>2, <1>3, <1>4

LEMMA FittedOnward ==
  ASSUME NEW p, NEW q, Honest(p), InUse(q), "EXTERNAL" \notin p.flags, Fitted(p, q)
  PROVE  Onward(p, q)
  <1>1. CASE q = p
    BY <1>1 DEF Onward
  <1>2. CASE Refitted(p, q) /\ q.flags = Resigned(p.flags, q.size)
    <2>1. Agrees(q) /\ q.flags \ {"SIGNED"} \subseteq p.flags
      BY <1>2 DEF Resigned, SignFlag, Agrees
    <2> QED
      BY <1>2, <2>1, RefittedOnward
  <1> QED
    BY <1>1, <1>2 DEF Fitted

\* s2r_remove_swap: removing the last element needs no summary to be recorded.
LEMMA RemoveSwapOnward ==
  ASSUME NEW p, Honest(p), NEW i \in DOMAIN p.data, "SUMMARY" \in p.flags => i # Count(p)
  PROVE  Onward(p, RemoveSwap(p, i))
  <1> DEFINE q == RemoveSwap(p, i)
             n == Count(p)
  <1>1. InUse(p) /\ InUse(q) /\ n \in Nat /\ DOMAIN p.data = 1 .. n /\ p.data \in Seq(Word)
        /\ n = Len(p.data)
    BY RemoveSwapInUse, Fields DEF Honest, InUse, Count
  <1>2. \/ i = n /\ Written(p, q) /\ q.data = SubSeq(p.data, 1, n - 1)
        \/ i # n /\ \E k \in 1 .. 2 : Dropped(p, q, k)
    BY <1>1, RemoveSwapEffect
  <1> HIDE DEF q, n
  <1>3. CASE i = n /\ Written(p, q) /\ q.data = SubSeq(p.data, 1, n - 1)
    <2> DEFINE m == n - 1
               g == [j \in 1 .. m |-> j]
    <2>1. m \in Nat /\ m <= n
      BY <1>1, <1>3
    <2>2. q.data = [j \in 1 .. m |-> p.data[j]]
      BY <1>1, <1>3, <2>1
    <2>3. \A j \in 1 .. m : j \in DOMAIN p.data
      BY <1>1, <2>1
    <2> HIDE DEF m
    <2>4. [j \in 1 .. m |-> p.data[g[j]]] = [j \in 1 .. m |-> p.data[j]]
      OBVIOUS
    <2>5. Selected(p, q, m, g)
      BY <2>1, <2>2, <2>3, <2>4 DEF Selected
    <2> HIDE DEF g
    <2>6. "SUMMARY" \notin p.flags
      BY <1>3 DEF n
    <2>7. Onward(p, q)
      BY <1>1, <1>3, <2>5, <2>6, SelectedOnward
    <2> QED
      BY <2>7 DEF q
  <1>4. CASE \E k \in 1 .. 2 : Dropped(p, q, k)
    <2>1. Onward(p, q)
      BY <1>1, <1>4, DroppedOnward
    <2> QED
      BY <2>1 DEF q
  <1> QED
    BY <1>2, <1>3, <1>4

\* s2r_unique_sorted: cutting a column of one run needs no summary to be recorded.
LEMMA UniqueSortedOnward ==
  ASSUME NEW p, Honest(p), NEW ok \in BOOLEAN, NEW q \in UniqueSorted(p, ok),
         "SUMMARY" \in p.flags /\ Count(p) > 1 => RunStarts(p) # {1}
  PROVE  Onward(p, q)
  <1>1. InUse(p) /\ InUse(q) /\ Count(p) \in Nat /\ DOMAIN p.data = 1 .. Count(p)
    BY UniqueSortedInUse, Fields DEF Honest, InUse
  <1>2. CASE q = p
    BY <1>2 DEF Onward
  <1>3. CASE /\ "READONLY" \notin p.flags /\ Count(p) > 1
             /\ \E d \in Compactions(p) : InUse(Compacted(p, d)) /\ Fitted(Compacted(p, d), q)
    <2>1. PICK d \in Compactions(p) : InUse(Compacted(p, d)) /\ Fitted(Compacted(p, d), q)
      BY <1>3
    <2> DEFINE s == Compacted(p, d)
    <2>2. /\ s.data = d
          /\ \E m \in 1 .. Count(p) : \E f \in Choices(p, m) :
               m \in Nat /\ Len(d) = m /\ d = [j \in 1 .. m |-> p.data[f[j]]]
          /\ \/ Len(d) = 1 /\ Written(p, s)
             \/ Len(d) # 1 /\ Dropped(p, s, Len(d) - 1)
      BY <1>1, CompactedEffect
    <2>3. InUse(s) /\ Fitted(s, q)
      BY <2>1
    <2> HIDE DEF s
    <2>4. "EXTERNAL" \notin p.flags
      BY <1>3 DEF Honest, Placed
    <2>5. ASSUME Len(d) = 1, Written(p, s)  PROVE Onward(p, s)
      <3>1. PICK m \in 1 .. Count(p) : \E f \in Choices(p, m) :
               m \in Nat /\ Len(d) = m /\ d = [j \in 1 .. m |-> p.data[f[j]]]
        BY <2>2
      <3>2. PICK f \in Choices(p, m) :
               m \in Nat /\ Len(d) = m /\ d = [j \in 1 .. m |-> p.data[f[j]]]
        BY <3>1
      <3>3. m = 1
        BY <2>5, <3>2
      <3>4. /\ f \in [1 .. m -> RunStarts(p)]
            /\ \A a, b \in 1 .. m : a < b => f[a] < f[b]
            /\ {f[a] : a \in 1 .. m} = RunStarts(p)
        BY <3>2 DEF Choices
      <3>5. RunStarts(p) \subseteq DOMAIN p.data /\ 1 \in RunStarts(p)
        BY <1>1, <1>3 DEF RunStarts
      <3>6. RunStarts(p) = {1}
        <4>1. \A a \in 1 .. m : a = 1
          BY <3>3
        <4>2. RunStarts(p) = {f[1]}
          BY <3>3, <3>4, <4>1
        <4> QED
          BY <3>5, <4>2
      <3>7. "SUMMARY" \notin p.flags
        BY <1>3, <3>6
      <3>8. Selected(p, s, m, f)
        BY <2>2, <3>2, <3>4, <3>5 DEF Selected
      <3> QED
        BY <2>3, <2>5, <3>7, <3>8, SelectedOnward
    <2>6. ASSUME Dropped(p, s, Len(d) - 1)  PROVE Onward(p, s)
      BY <2>3, <2>6, DroppedOnward
    <2>7. Onward(p, s)
      BY <2>2, <2>5, <2>6
    <2>8. Honest(s) /\ "EXTERNAL" \notin s.flags
      <3>1. s.flags \subseteq p.flags
        BY <2>2 DEF Written, Dropped
      <3> QED
        BY <2>4, <2>7, <3>1 DEF Onward
    <2>9. Onward(s, q)
      BY <1>1, <2>3, <2>8, FittedOnward
    <2> QED
      BY <2>7, <2>9, OnwardTwice
  <1> QED
    BY <1>1, <1>2, <1>3, UniqueSortedEffect

\* A fresh pool, and what a constructor puts in it.
LEMMA FreshHonest ==
  ASSUME NEW size, NEW q, InUse(q), Fresh(0, size, q)
  PROVE  Honest(q)
  <1>1. /\ q.size = size /\ q.flags = SignFlag(size)
        /\ \/ q.buf = "null" /\ q.heap = 0
           \/ q.buf = "heap" /\ q.heap = 0 + 1
    BY DEF Fresh
  <1>2. Placed(q) /\ Agrees(q) /\ q.flags \cap FactFlags = {}
    BY <1>1 DEF Placed, Agrees, SignFlag, FactFlags
  <1> QED
    BY <1>2, PlainHonest

\* s2r_from_array_auto and s2r_from_array_signed_auto.
LEMMA FromArrayAutoHonest ==
  ASSUME NEW arr \in Seq(Word), Askable(Len(arr)), NEW ok \in BOOLEAN
  PROVE  LET r == FromArrayAuto(0, arr, ok) IN
         (r.ret => Honest(r.pool)) /\ (~r.ret => r.pool.heap = 0)
  <1> DEFINE r == FromArrayAuto(0, arr, ok)
  <1>1. r.ret => InUse(r.pool)
    BY FromArrayAutoInUse
  <1>r. r = FromArrayAuto(0, arr, ok) /\ 0 \in Int
    OBVIOUS
  <1> HIDE DEF r
  <1>2. /\ \E size \in Sizes : size > 0 /\ Fresh(0, size, r.pool)
        /\ ~r.ret => r.pool.heap = 0
    BY <1>r, FromArrayAutoEffect DEF AutoBuilt
  <1> QED
    BY <1>1, <1>2, FreshHonest DEF r

LEMMA FromArraySignedAutoHonest ==
  ASSUME NEW arr \in Seq(Int64), Askable(Len(arr)), NEW ok \in BOOLEAN
  PROVE  LET r == FromArraySignedAuto(0, arr, ok) IN
         (r.ret => Honest(r.pool)) /\ (~r.ret => r.pool.heap = 0)
  <1> DEFINE r == FromArraySignedAuto(0, arr, ok)
  <1>1. r.ret => InUse(r.pool)
    BY FromArraySignedAutoInUse
  <1>r. r = FromArraySignedAuto(0, arr, ok) /\ 0 \in Int
    OBVIOUS
  <1> HIDE DEF r
  <1>2. /\ \E size \in Sizes : size < 0 /\ Fresh(0, size, r.pool)
        /\ ~r.ret => r.pool.heap = 0
    BY ZenonT(60), <1>r, FromArraySignedAutoEffect
  <1> QED
    BY <1>1, <1>2, FreshHonest DEF r

LEMMA MappedHonest ==
  ASSUME NEW size, NEW data, InUse(Mapped(0, size, data))
  PROVE  Honest(Mapped(0, size, data)) /\ "EXTERNAL" \in Mapped(0, size, data).flags
  <1> DEFINE q == Mapped(0, size, data)
  <1>1. q.size = size /\ q.flags = SignFlag(size) \cup {"READONLY", "EXTERNAL"}
        /\ q.buf = "mapping" /\ q.heap = 0
    BY MappedEffect
  <1> HIDE DEF q
  <1>2. Placed(q) /\ Agrees(q) /\ q.flags \cap FactFlags = {} /\ "EXTERNAL" \in q.flags
    BY <1>1 DEF Placed, Agrees, SignFlag, FactFlags
  <1> QED
    BY <1>2, PlainHonest DEF q

\* s2r_copy of a pool without a summary that is not a mapping.
LEMMA CopyHonest ==
  ASSUME NEW src, Honest(src), "EXTERNAL" \notin src.flags, "SUMMARY" \notin src.flags,
         NEW ok \in BOOLEAN, Copy(0, src, ok).ret, InUse(Copy(0, src, ok).pool)
  PROVE  Honest(Copy(0, src, ok).pool)
  <1> DEFINE q == Copy(0, src, ok).pool
  <1>1. /\ q.data = src.data /\ q.size = src.size /\ q.flags = src.flags \ {"EXTERNAL"}
        /\ \/ q.buf = "null" /\ q.heap = 0
           \/ q.buf = "heap" /\ q.heap = 0 + 1
    <2>1. InUse(src) /\ 0 \in Int
      BY DEF Honest
    <2> QED
      BY <2>1, CopyEffect
  <1> HIDE DEF q
  <1>2. q.flags = src.flags
    BY <1>1
  <1>3. Placed(q) /\ Agrees(q)
    BY <1>1, <1>2 DEF Honest, Placed, Agrees
  <1>4. IsSigned(q) = IsSigned(src)
    BY <1>1, <1>2 DEF IsSigned
  <1>5. Values(q) = Values(src) /\ Count(q) = Count(src)
    BY <1>1, <1>4, SameReading DEF SameElements
  <1>6. InUse(q)
    BY DEF q
  <1>7. OrderKnown(q) /\ Summarised(q)
    BY <1>2, <1>5, <1>6, SameFacts DEF Honest, OrderKnown, Summarised
  <1>8. Honest(q)
    BY <1>3, <1>6, <1>7 DEF Honest
  <1> QED
    BY <1>8 DEF q

-----------------------------------------------------------------------------

-----------------------------------------------------------------------------
(* The column's invariant, and what it means for a call to leave the column *)
(* alone or to append to it.                                                *)

\* No call of the adaptive interface records a summary, maps or protects a pool.
Clean(p) == Honest(p) /\ p.flags \subseteq {"SIGNED", "SORTED"}

SameColumn(p, q) == Values(q) = Values(p) /\ IsSigned(q) = IsSigned(p)
Replaces(p, q, i, v) == Values(q) = [Values(p) EXCEPT ![i] = v] /\ IsSigned(q) = IsSigned(p)
Lengthens(p, q, v) == Values(q) = Append(Values(p), v) /\ IsSigned(q) = IsSigned(p)

LEMMA CleanFacts ==
  ASSUME NEW p, Clean(p)
  PROVE  /\ Honest(p) /\ InUse(p) /\ Agrees(p) /\ p.size \in Sizes
         /\ "READONLY" \notin p.flags /\ "EXTERNAL" \notin p.flags /\ "SUMMARY" \notin p.flags
         /\ IsSigned(p) = (p.size < 0) /\ IsSigned(p) \in BOOLEAN
         /\ Count(p) \in Nat /\ DOMAIN p.data = 1 .. Count(p) /\ p.data \in Seq(Word)
         /\ DOMAIN Values(p) = 1 .. Count(p) /\ Values(p) \in Seq(Int) /\ Len(Values(p)) = Count(p)
  <1>1. /\ Honest(p) /\ InUse(p) /\ Agrees(p) /\ p.size \in Sizes
        /\ "READONLY" \notin p.flags /\ "EXTERNAL" \notin p.flags /\ "SUMMARY" \notin p.flags
    BY DEF Clean, Honest, InUse, Sound, Sizes, PoolType
  <1>2. IsSigned(p) = (p.size < 0) /\ IsSigned(p) \in BOOLEAN
    BY <1>1 DEF Agrees, IsSigned
  <1>3. Count(p) \in Nat /\ DOMAIN p.data = 1 .. Count(p) /\ p.data \in Seq(Word)
    BY <1>1, Fields DEF InUse, Count
  <1>4. \A i \in DOMAIN p.data : Value(p, i) \in Int
    BY <1>1, ValueRange
  <1>5. Values(p) \in [1 .. Count(p) -> Int]
    BY <1>3, <1>4 DEF Values
  <1>6. Values(p) \in Seq(Int) /\ Len(Values(p)) = Count(p)
    BY <1>3, <1>5
  <1> QED
    BY <1>1, <1>2, <1>3, <1>5, <1>6

LEMMA SameColumnTwice ==
  ASSUME NEW p, NEW q, NEW r, SameColumn(p, q), SameColumn(q, r)
  PROVE  SameColumn(p, r)
  BY DEF SameColumn

-----------------------------------------------------------------------------
(* Lengthens.                                                                 *)

LEMMA AppendedSequence ==
  ASSUME NEW s \in Seq(Int), NEW m \in Int, NEW q \in Seq(Int), Len(q) = Len(s) + 1,
         \A i \in 1 .. Len(s) : q[i] = s[i], q[Len(s) + 1] = m
  PROVE  q = Append(s, m)
  OBVIOUS

\* A push of a value the class represents stores that value or changes nothing.
LEMMA PushColumn ==
  ASSUME NEW p, Clean(p), NEW v \in Word, NEW ok \in BOOLEAN, NEW r, r = Push(p, v, ok),
         Holds(p.size, Meaning(p, v))
  PROVE  /\ Clean(r.pool) /\ r.ret \in BOOLEAN
         /\ r.ret => Lengthens(p, r.pool, Meaning(p, v))
         /\ ~r.ret => SameColumn(p, r.pool)
  <1> DEFINE q == r.pool
             f == PushFacts(p, v)
  <1>1. /\ Honest(p) /\ InUse(p) /\ "READONLY" \notin p.flags /\ "SUMMARY" \notin p.flags
        /\ Count(p) \in Nat /\ DOMAIN p.data = 1 .. Count(p)
        /\ DOMAIN Values(p) = 1 .. Count(p) /\ Len(Values(p)) = Count(p) /\ Values(p) \in Seq(Int)
    BY CleanFacts
  <1>2. Honest(q)
    BY <1>1, PushOnward DEF Onward
  <1>3. \/ q = f /\ r.ret = FALSE
        \/ Pushed(p, v, q) /\ r.ret = TRUE
    BY <1>1, PushEffect
  <1>4. f.data = p.data /\ f.size = p.size /\ f.flags \in {p.flags, p.flags \ {"SORTED"}}
    BY <1>1, PushFactsFields DEF SameElements
  <1> HIDE DEF q, f
  <1>5. CASE q = f /\ r.ret = FALSE
    <2>1. Clean(q)
      BY <1>2, <1>4, <1>5 DEF Clean
    <2>2. IsSigned(q) = IsSigned(p)
      BY <1>4, <1>5 DEF IsSigned
    <2>3. SameColumn(p, q)
      BY <1>4, <1>5, <2>2, SameReading DEF SameElements, SameColumn
    <2> QED
      BY <1>5, <2>1, <2>3 DEF q
  <1>6. CASE Pushed(p, v, q) /\ r.ret = TRUE
    <2>1. /\ q.data = Append(p.data, Raw(Abs(p.size), v)) /\ q.size = p.size
          /\ q.flags \in {f.flags, f.flags \ {"EXTERNAL"}}
      BY <1>6 DEF Pushed, f
    <2>2. Clean(q)
      BY <1>2, <1>4, <2>1 DEF Clean
    <2>3. IsSigned(q) = IsSigned(p)
      BY <1>4, <2>1 DEF IsSigned
    <2>4. /\ DOMAIN q.data = 1 .. Count(p) + 1
          /\ \A i \in 1 .. Count(p) : Value(q, i) = Value(p, i)
          /\ Value(q, Count(p) + 1) = Meaning(p, v)
      BY <1>1, <2>1, <2>3, AppendedValues
    <2>5. /\ Values(q) \in Seq(Int) /\ Len(Values(q)) = Count(p) + 1
          /\ \A i \in 1 .. Count(p) : Values(q)[i] = Values(p)[i]
          /\ Values(q)[Count(p) + 1] = Meaning(p, v)
      <3>1. /\ DOMAIN Values(q) = 1 .. Count(q) /\ Values(q) \in Seq(Int) /\ Len(Values(q)) = Count(q)
            /\ Count(q) \in Nat /\ DOMAIN q.data = 1 .. Count(q)
        BY <2>2, CleanFacts
      <3>2. Count(q) = Count(p) + 1
        BY <1>1, <2>4, <3>1
      <3> QED
        BY <1>1, <2>4, <3>1, <3>2 DEF Values
    <2>6. Values(q) = Append(Values(p), Meaning(p, v))
      BY <1>1, <2>5, Meanings, AppendedSequence
    <2>7. Lengthens(p, q, Meaning(p, v))
      BY <2>3, <2>6 DEF Lengthens
    <2> QED
      BY <1>6, <2>2, <2>7 DEF q
  <1> QED
    BY <1>3, <1>5, <1>6

\* The same with the code s2r_push_checked and its kin return.
LEMMA CodedColumn ==
  ASSUME NEW p, Clean(p), NEW v \in Word, NEW ok \in BOOLEAN, NEW r, r = Coded(Push(p, v, ok)),
         Holds(p.size, Meaning(p, v))
  PROVE  /\ Clean(r.pool)
         /\ \/ r.ret = "OK" /\ Lengthens(p, r.pool, Meaning(p, v))
            \/ r.ret = "OOM" /\ SameColumn(p, r.pool)
  <1> DEFINE s == Push(p, v, ok)
  <1>1. /\ Clean(s.pool) /\ s.ret \in BOOLEAN
        /\ s.ret => Lengthens(p, s.pool, Meaning(p, v))
        /\ ~s.ret => SameColumn(p, s.pool)
    BY PushColumn
  <1>2. r.pool = s.pool /\ r.ret = IF s.ret THEN "OK" ELSE "OOM"
    BY DEF Coded, Push, Result, Reserve
  <1> QED
    BY <1>1, <1>2

LEMMA PushCheckedColumn ==
  ASSUME NEW p, Clean(p), ~IsSigned(p), NEW v \in Word, NEW ok \in BOOLEAN, NEW r,
         r = PushChecked(p, v, ok)
  PROVE  /\ Clean(r.pool)
         /\ \/ r.ret = "OK" /\ Lengthens(p, r.pool, v)
            \/ r.ret \in {"OOM", "TOO_LARGE"} /\ SameColumn(p, r.pool)
  <1>1. Honest(p) /\ "READONLY" \notin p.flags /\ Meaning(p, v) = v
    BY CleanFacts DEF Meaning
  <1>2. CASE v > MaxValue(p.size)
    BY <1>1, <1>2 DEF PushChecked, Result, SameColumn
  <1>3. CASE ~(v > MaxValue(p.size))
    <2>1. r = Coded(Push(p, v, ok))
      BY <1>1, <1>3 DEF PushChecked
    <2>2. Holds(p.size, Meaning(p, v))
      <3>1. p.size \in Sizes /\ MaxValue(p.size) \in Word
        BY CleanFacts, MaxValueRange
      <3>2. v \in Nat /\ MaxValue(p.size) \in Nat
        BY <3>1, Conversions
      <3>3. v <= MaxValue(p.size)
        BY <1>3, <3>2
      <3> QED
        BY <1>1, <3>3, TakesHolds DEF Takes
    <2> QED
      BY <1>1, <2>1, <2>2, CodedColumn
  <1> QED
    BY <1>2, <1>3

LEMMA PushSignedCheckedColumn ==
  ASSUME NEW p, Clean(p), NEW v \in Int64, NEW ok \in BOOLEAN, NEW r,
         r = PushSignedChecked(p, v, ok)
  PROVE  /\ Clean(r.pool)
         /\ \/ r.ret = "OK" /\ Lengthens(p, r.pool, v)
            \/ r.ret \in {"OOM", "INVALID", "TOO_SMALL", "TOO_LARGE"} /\ SameColumn(p, r.pool)
  <1>1. Honest(p) /\ InUse(p) /\ U64(v) \in Word /\ I64(U64(v)) = v /\ v \in Int
    BY CleanFacts, SignedWord
  <1>2. MinSigned(p.size) \in Int /\ MaxSigned(p.size) \in Int
    BY <1>1, SignedLimits
  <1>3. CASE ~(IsSigned(p) /\ MinSigned(p.size) <= v /\ v <= MaxSigned(p.size))
    BY <1>1, <1>2, <1>3 DEF PushSignedChecked, Result, SameColumn
  <1>4. CASE IsSigned(p) /\ MinSigned(p.size) <= v /\ v <= MaxSigned(p.size)
    <2>1. r = Coded(Push(p, U64(v), ok))
      BY <1>1, <1>2, <1>4 DEF PushSignedChecked
    <2>2. Meaning(p, U64(v)) = v /\ Takes(p, U64(v))
      BY <1>1, <1>4 DEF Meaning, Takes, InRange
    <2>3. Holds(p.size, Meaning(p, U64(v)))
      BY <1>1, <2>2, TakesHolds
    <2> QED
      BY <1>1, <2>1, <2>2, <2>3, CodedColumn
  <1> QED
    BY <1>3, <1>4

\* A column re-blocked in another class of its sign reads as it did.
LEMMA RefittedColumn ==
  ASSUME NEW p, Clean(p), NEW q, Honest(q), Refitted(p, q), q.flags \subseteq {"SIGNED", "SORTED"},
         IsSigned(q) = IsSigned(p)
  PROVE  Clean(q) /\ SameColumn(p, q)
  BY DEF Clean, SameColumn, Refitted

LEMMA PromoteColumn ==
  ASSUME NEW p, Clean(p), NEW size \in Sizes, NEW ok \in BOOLEAN, NEW r, r = Promote(p, size, ok)
  PROVE  /\ Clean(r.pool) /\ SameColumn(p, r.pool) /\ r.ret \in BOOLEAN
         /\ r.ret => r.pool.size = size
  <1>1. Honest(p) /\ InUse(p) /\ "EXTERNAL" \notin p.flags
    BY CleanFacts
  <1>2. Honest(r.pool)
    BY <1>1, PromoteOnward DEF Onward
  <1>3. CASE r.pool = p /\ ~r.ret /\ r.ret \in BOOLEAN
    BY <1>3 DEF SameColumn
  <1>4. CASE /\ r.ret /\ r.ret \in BOOLEAN /\ Refitted(p, r.pool) /\ r.pool.size = size
             /\ r.pool.flags = SignFlag(size) /\ IsSigned(p) = (size < 0)
    <2>1. r.pool.flags \subseteq {"SIGNED", "SORTED"} /\ IsSigned(r.pool) = IsSigned(p)
      BY <1>4 DEF SignFlag, IsSigned
    <2> QED
      BY <1>2, <1>4, <2>1, RefittedColumn
  <1>5. r.ret \in BOOLEAN
    BY DEF Promote, Result
  <1> QED
    BY <1>1, <1>3, <1>4, <1>5, PromoteEffect

LEMMA WidenColumn ==
  ASSUME NEW p, Clean(p), NEW size \in Sizes, NEW ok \in BOOLEAN, IsSigned(p) = (size < 0),
         NEW r, r = Widen(p, size, ok)
  PROVE  /\ Clean(r.pool) /\ SameColumn(p, r.pool) /\ r.ret \in BOOLEAN
         /\ r.ret => r.pool.size = size
  <1>1. /\ Honest(p) /\ InUse(p) /\ "READONLY" \notin p.flags
        /\ DOMAIN p.data = 1 .. Count(p) /\ DOMAIN Values(p) = 1 .. Count(p)
    BY CleanFacts
  <1>2. CASE r = Promote(p, size, ok)
    BY <1>2, PromoteColumn
  <1>3. CASE /\ Count(p) = 0 /\ r.ret = TRUE
             /\ r.pool.data = p.data /\ r.pool.size = size /\ r.pool.flags = p.flags
    <2> DEFINE q == r.pool
    <2>1. Honest(q)
      BY <1>1, WidenOnward DEF Onward
    <2> HIDE DEF q
    <2>2. q.data = p.data /\ q.size = size /\ q.flags = p.flags /\ Count(p) = 0
      BY <1>3 DEF q
    <2>3. Clean(q)
      BY <2>1, <2>2 DEF Clean
    <2>4. IsSigned(q) = IsSigned(p)
      BY <2>2, <2>3, CleanFacts
    <2>5. Values(q) = Values(p)
      <3>1. DOMAIN q.data = {} /\ DOMAIN p.data = {}
        BY <1>1, <2>2
      <3> QED
        BY <3>1 DEF Values
    <2> QED
      BY <1>3, <2>3, <2>4, <2>5 DEF SameColumn, q
  <1>4. Count(p) = 0 => r.ret = TRUE
    BY DEF Widen, Result
  <1>5. \/ r = Promote(p, size, ok)
        \/ /\ Count(p) = 0 /\ r.ret = TRUE
           /\ r.pool.data = p.data /\ r.pool.size = size /\ r.pool.flags = p.flags
    BY <1>1, <1>4, WidenEffect
  <1> QED
    BY <1>2, <1>3, <1>5

\* A push after a widening that made room for the value.
LEMMA WidenedPush ==
  ASSUME NEW p, NEW w, Clean(w.pool), SameColumn(p, w.pool), w.ret, NEW v \in Word,
         NEW ok \in BOOLEAN, Holds(w.pool.size, Meaning(w.pool, v)),
         NEW r, r = Coded(Push(w.pool, v, ok))
  PROVE  /\ Clean(r.pool)
         /\ \/ r.ret = "OK" /\ Lengthens(p, r.pool, Meaning(w.pool, v))
            \/ r.ret = "OOM" /\ SameColumn(p, r.pool)
  BY CodedColumn DEF SameColumn, Lengthens

LEMMA PushAdaptiveColumn ==
  ASSUME NEW p, Clean(p), NEW v \in Word, NEW ok1 \in BOOLEAN, NEW ok2 \in BOOLEAN, NEW r,
         r = PushAdaptive(p, v, ok1, ok2)
  PROVE  /\ Clean(r.pool)
         /\ \/ IsSigned(p) /\ r.ret = "INVALID" /\ SameColumn(p, r.pool)
            \/ ~IsSigned(p) /\ r.ret = "OK" /\ Lengthens(p, r.pool, v)
            \/ ~IsSigned(p) /\ r.ret = "OOM" /\ SameColumn(p, r.pool)
  <1> DEFINE c == Classify({v})
             w == IF v > MaxValue(p.size) THEN Widen(p, c, ok1) ELSE Result(p, TRUE)
  <1>0. /\ Honest(p) /\ "READONLY" \notin p.flags /\ IsSigned(p) \in BOOLEAN /\ p.size \in Sizes
        /\ IsSigned(p) = (p.size < 0)
    BY CleanFacts
  <1>1. CASE IsSigned(p)
    BY <1>1 DEF PushAdaptive, Result, SameColumn
  <1>2. CASE ~IsSigned(p)
    <2>1. c \in Sizes /\ c \in Classes /\ 0 <= v /\ v < Pow(c) /\ ~ c < 0
      <3>1. K \in Classes /\ v < Pow(K) /\ 0 <= v
        BY Conversions, PowFacts DEF Word
      <3>2. UFits(K, {v})
        BY <3>1 DEF UFits
      <3>3. c \in Classes /\ UFits(c, {v})
        BY <3>1, <3>2, ClassifyFits
      <3> HIDE DEF c
      <3> QED
        BY <3>1, <3>3, ClassAssumption DEF UFits, Classes, Sizes
    <2>2. /\ Clean(w.pool) /\ SameColumn(p, w.pool) /\ w.ret \in BOOLEAN
          /\ w.ret => Holds(w.pool.size, v)
      <3>1. CASE v > MaxValue(p.size)
        <4> HIDE DEF c
        <4>1. IsSigned(p) = (c < 0)
          <5>1. ~IsSigned(p) /\ IsSigned(p) \in BOOLEAN
            BY <1>0, <1>2
          <5> QED
            BY <2>1, <5>1
        <4>2. w = Widen(p, c, ok1)
          BY <3>1
        <4> HIDE DEF w
        <4> QED
          BY <2>1, <4>1, <4>2, WidenColumn DEF Holds
      <3>2. CASE ~(v > MaxValue(p.size))
        <4>1. w.pool = p /\ w.ret = TRUE
          BY <3>2 DEF Result
        <4>2. Meaning(p, v) = v
          BY <1>2 DEF Meaning
        <4>3. v <= MaxValue(p.size)
          <5>1. MaxValue(p.size) \in Word
            BY <1>0, MaxValueRange
          <5>2. v \in Nat /\ MaxValue(p.size) \in Nat
            BY <5>1, Conversions
          <5> QED
            BY <3>2, <5>2
        <4>4. Holds(p.size, v)
          BY <1>0, <1>2, <4>2, <4>3, TakesHolds DEF Takes
        <4> HIDE DEF w
        <4> QED
          BY <4>1, <4>4 DEF SameColumn
      <3> QED
        BY <3>1, <3>2
    <2>3. Meaning(w.pool, v) = v
      BY <1>2, <2>2 DEF Meaning, SameColumn
    <2>4. r = IF ~w.ret THEN Result(w.pool, "OOM") ELSE Coded(Push(w.pool, v, ok2))
      BY <1>0, <1>2 DEF PushAdaptive
    <2> HIDE DEF w, c
    <2>5. CASE ~w.ret
      BY <1>2, <2>2, <2>4, <2>5 DEF Result
    <2>6. CASE w.ret
      BY <1>2, <2>2, <2>3, <2>4, <2>6, WidenedPush
    <2> QED
      BY <2>5, <2>6
  <1> QED
    BY <1>0, <1>1, <1>2

LEMMA PushSignedAdaptiveColumn ==
  ASSUME NEW p, Clean(p), NEW v \in Int64, NEW ok1 \in BOOLEAN, NEW ok2 \in BOOLEAN, NEW r,
         r = PushSignedAdaptive(p, v, ok1, ok2)
  PROVE  /\ Clean(r.pool)
         /\ \/ ~IsSigned(p) /\ r.ret = "INVALID" /\ SameColumn(p, r.pool)
            \/ IsSigned(p) /\ r.ret = "OK" /\ Lengthens(p, r.pool, v)
            \/ IsSigned(p) /\ r.ret = "OOM" /\ SameColumn(p, r.pool)
  <1> DEFINE need == ClassifySigned({v})
             stay == InRange(p, v) \/ (Count(p) # 0 /\ Abs(need) <= Abs(p.size))
             w == IF stay THEN Result(p, TRUE) ELSE Widen(p, need, ok1)
  <1>0. /\ Honest(p) /\ "READONLY" \notin p.flags /\ IsSigned(p) \in BOOLEAN /\ p.size \in Sizes
        /\ IsSigned(p) = (p.size < 0) /\ p.size \in Int /\ Abs(p.size) \in Classes
    BY CleanFacts, SizeFacts DEF Sizes
  <1>v. U64(v) \in Word /\ I64(U64(v)) = v /\ v \in Int
    BY SignedWord
  <1>1. CASE ~IsSigned(p)
    BY <1>1 DEF PushSignedAdaptive, Result, SameColumn
  <1>2. CASE IsSigned(p)
    <2>0. p.size < 0
      BY <1>0, <1>2
    <2>1. need \in Sizes /\ need < 0 /\ -need \in Classes /\ -Half[-need] <= v /\ v < Half[-need]
      <3>1. K \in Classes /\ -Half[K] <= v /\ v < Half[K]
        BY <1>v, Conversions DEF Int64
      <3>2. SFits(K, {v})
        BY <3>1 DEF SFits
      <3>3. -need \in Classes /\ SFits(-need, {v}) /\ need \in Int
        BY <3>1, <3>2, ClassifySignedFits
      <3> HIDE DEF need
      <3> QED
        BY <3>3, ClassAssumption DEF SFits, Classes, Sizes
    <2>s. r = IF ~w.ret THEN Result(w.pool, "OOM") ELSE Coded(Push(w.pool, U64(v), ok2))
      BY <1>0, <1>2 DEF PushSignedAdaptive
    <2> HIDE DEF need
    <2>2. /\ Clean(w.pool) /\ SameColumn(p, w.pool) /\ w.ret \in BOOLEAN
          /\ w.ret => Holds(w.pool.size, v)
      <3>1. CASE ~stay
        <4>1. IsSigned(p) = (need < 0)
          BY <1>0, <1>2, <2>1
        <4>2. w = Widen(p, need, ok1)
          BY <3>1
        <4> HIDE DEF w
        <4> QED
          BY <2>1, <4>1, <4>2, WidenColumn DEF Holds
      <3>2. CASE stay
        <4>1. w.pool = p /\ w.ret = TRUE
          BY <3>2 DEF Result
        <4>2. Meaning(p, U64(v)) = v
          BY <1>v, <1>2 DEF Meaning
        <4>3. Holds(p.size, v)
          <5>1. CASE InRange(p, v)
            <6>1. Takes(p, U64(v))
              BY <1>v, <1>2, <5>1 DEF Takes
            <6> QED
              BY <1>0, <1>v, <4>2, <6>1, TakesHolds
          <5>2. CASE Abs(need) <= Abs(p.size)
            <6>1. -p.size \in Classes /\ -need <= -p.size
              BY <1>0, <2>0, <2>1, <5>2 DEF Abs
            <6>2. Half[-need] <= Half[-p.size] /\ Half[-need] \in Int /\ Half[-p.size] \in Int
              <7>1. CASE need = p.size
                BY <2>1, <7>1, PowFacts
              <7>2. CASE need # p.size
                <8>1. -need < -p.size
                  BY <1>0, <2>1, <6>1, <7>2 DEF Sizes
                <8> QED
                  BY <2>1, <6>1, <8>1, Wider
              <7> QED
                BY <7>1, <7>2
            <6> QED
              BY <1>v, <2>0, <2>1, <6>2 DEF Holds
          <5> QED
            BY <3>2, <5>1, <5>2
        <4> HIDE DEF w
        <4> QED
          BY <4>1, <4>3 DEF SameColumn
      <3> QED
        BY <3>1, <3>2
    <2>3. Meaning(w.pool, U64(v)) = v
      BY <1>2, <1>v, <2>2 DEF Meaning, SameColumn
    <2> HIDE DEF w
    <2>4. CASE ~w.ret
      BY <1>2, <2>2, <2>s, <2>4 DEF Result
    <2>5. CASE w.ret
      BY <1>2, <1>v, <2>2, <2>3, <2>s, <2>5, WidenedPush
    <2> QED
      BY <2>4, <2>5
  <1> QED
    BY <1>0, <1>1, <1>2

\* A value stored over element i.
LEMMA StoredColumn ==
  ASSUME NEW p, Clean(p), NEW i \in DOMAIN p.data, NEW v \in Int, Holds(p.size, v), NEW q, Clean(q),
         q.size = p.size, q.data = [p.data EXCEPT ![i] = Raw(Abs(p.size), v)]
  PROVE  Replaces(p, q, i, v)
  <1>1. /\ Honest(p) /\ InUse(p) /\ IsSigned(p) = (p.size < 0) /\ p.size \in Sizes
        /\ DOMAIN p.data = 1 .. Count(p) /\ DOMAIN Values(p) = 1 .. Count(p)
    BY CleanFacts
  <1>4. IsSigned(q) = IsSigned(p)
    BY <1>1, CleanFacts
  <1>5. DOMAIN q.data = DOMAIN p.data
    OBVIOUS
  <1>6. Value(q, i) = v
    <2>1. q.data[i] = Raw(Abs(p.size), v)
      OBVIOUS
    <2>2. IF p.size < 0 THEN AsSigned(-p.size, Raw(Abs(p.size), v)) = v ELSE Raw(Abs(p.size), v) = v
      BY <1>1, ReadsBack DEF Holds
    <2> QED
      BY <1>1, <1>4, <2>1, <2>2 DEF Value, Get, GetSigned
  <1>7. \A j \in DOMAIN p.data : j # i => Value(q, j) = Value(p, j)
    BY <1>4 DEF Value, Get, GetSigned
  <1>8. Values(q) = [Values(p) EXCEPT ![i] = v]
    BY <1>1, <1>5, <1>6, <1>7 DEF Values
  <1> QED
    BY <1>4, <1>8 DEF Replaces

\* A write that drops the recorded facts leaves the pool clean.
LEMMA DroppedColumn ==
  ASSUME NEW p, Clean(p), NEW q, InUse(q), NEW k, Dropped(p, q, k)
  PROVE  Clean(q) /\ q.size = p.size
  <1>1. Honest(p) /\ InUse(p)
    BY CleanFacts
  <1>2. Honest(q)
    BY <1>1, DroppedOnward DEF Onward
  <1> QED
    BY <1>2 DEF Clean, Dropped

\* The last element written over element i, and cut off.
LEMMA CutSequence ==
  ASSUME NEW s \in Seq(Int), NEW i \in 1 .. Len(s), NEW q \in Seq(Int), Len(q) = Len(s) - 1,
         \A j \in 1 .. Len(q) : q[j] = IF j = i THEN s[Len(s)] ELSE s[j]
  PROVE  q = SubSeq([s EXCEPT ![i] = s[Len(s)]], 1, Len(s) - 1)
  <1> DEFINE r == [s EXCEPT ![i] = s[Len(s)]]
             n == Len(s) - 1
  <1>1. r \in Seq(Int) /\ Len(r) = Len(s) /\ n \in Nat /\ \A j \in 1 .. n : r[j] = q[j]
    BY SMTT(30)
  <1>2. q \in Seq(Int) /\ Len(q) = n /\ n <= Len(r)
    BY <1>1
  <1> HIDE DEF r, n
  <1>3. SubSeq(r, 1, n) = [j \in 1 .. n |-> r[j]]
    BY <1>1, <1>2
  <1>4. q = [j \in 1 .. n |-> q[j]]
    BY <1>1, <1>2
  <1>5. q = SubSeq(r, 1, n)
    BY <1>1, <1>3, <1>4
  <1> QED
    BY <1>5 DEF r, n

LEMMA RemovedColumn ==
  ASSUME NEW p, Clean(p), NEW i \in DOMAIN p.data
  PROVE  LET q == RemoveSwap(p, i)
             s == Values(p)
         IN  /\ Clean(q) /\ IsSigned(q) = IsSigned(p)
             /\ Values(q) = SubSeq([s EXCEPT ![i] = s[Len(s)]], 1, Len(s) - 1)
  <1> DEFINE q == RemoveSwap(p, i)
             n == Count(p)
  <1>1. /\ Honest(p) /\ InUse(p) /\ "SUMMARY" \notin p.flags
        /\ DOMAIN p.data = 1 .. n /\ n \in Nat /\ p.data \in Seq(Word) /\ Len(p.data) = n
        /\ Values(p) \in Seq(Int) /\ Len(Values(p)) = n
    BY CleanFacts DEF Count
  <1>2. Honest(q)
    BY <1>1, RemoveSwapOnward DEF Onward
  <1>3. /\ q.size = p.size /\ q.flags \in {p.flags, p.flags \ FactFlags}
        /\ \/ i = n /\ q.data = SubSeq(p.data, 1, n - 1)
           \/ i # n /\ q.data = SubSeq([p.data EXCEPT ![i] = p.data[n]], 1, n - 1)
    BY <1>1, RemoveSwapEffect DEF Written, Dropped
  <1> HIDE DEF q
  <1>4. Clean(q)
    BY <1>2, <1>3 DEF Clean
  <1>5. IsSigned(q) = IsSigned(p)
    BY <1>3, <1>4, CleanFacts
  <1>6. n - 1 \in Nat /\ n \in DOMAIN p.data
    BY <1>1
  <1>7. Len(q.data) = n - 1 /\ \A j \in 1 .. n - 1 : q.data[j] = p.data[IF j = i THEN n ELSE j]
    <2> DEFINE r == [p.data EXCEPT ![i] = p.data[n]]
    <2>1. r \in Seq(Word) /\ Len(r) = n /\ \A j \in 1 .. n - 1 : r[j] = p.data[IF j = i THEN n ELSE j]
      BY <1>1, <1>6
    <2> HIDE DEF r
    <2>2. CASE i = n /\ q.data = SubSeq(p.data, 1, n - 1)
      BY <1>1, <1>6, <2>2
    <2>3. CASE i # n /\ q.data = SubSeq(r, 1, n - 1)
      BY <1>6, <2>1, <2>3
    <2> QED
      BY <1>3, <2>2, <2>3 DEF r
  <1>8. /\ Values(q) \in Seq(Int) /\ Len(Values(q)) = n - 1 /\ DOMAIN q.data = 1 .. n - 1
    BY <1>4, <1>7, CleanFacts DEF Count
  <1>9. \A j \in 1 .. n - 1 : Value(q, j) = Value(p, IF j = i THEN n ELSE j)
    BY <1>3, <1>5, <1>7 DEF Value, Get, GetSigned
  <1>10. \A j \in 1 .. n - 1 : Values(q)[j] = IF j = i THEN Values(p)[n] ELSE Values(p)[j]
    BY <1>1, <1>6, <1>8, <1>9 DEF Values
  <1> HIDE DEF n
  <1>11. i \in 1 .. Len(Values(p))
    BY <1>1
  <1>12. Values(q) = SubSeq([Values(p) EXCEPT ![i] = Values(p)[Len(Values(p))]], 1, Len(Values(p)) - 1)
    BY <1>1, <1>8, <1>10, <1>11, CutSequence
  <1> QED
    BY <1>4, <1>5, <1>12 DEF q

\* The chosen class is the least that fits.
LEMMA ClassifyLeast ==
  ASSUME NEW vs, NEW d \in Classes, UFits(d, vs)
  PROVE  Classify(vs) <= d
  <1> DEFINE Good(c) == UFits(c, vs) /\ \A e \in Classes : UFits(e, vs) => c <= e
  <1>1. \E c0 \in {e \in Classes : UFits(e, vs)} : \A e \in {x \in Classes : UFits(x, vs)} : c0 <= e
    BY LeastClass
  <1>2. \E c \in Classes : Good(c)
    BY <1>1
  <1>3. Good(CHOOSE c \in Classes : Good(c))
    BY <1>2
  <1> QED
    BY <1>3 DEF Classify

LEMMA ClassifySignedLeast ==
  ASSUME NEW vs, NEW d \in Classes, SFits(d, vs)
  PROVE  -ClassifySigned(vs) <= d
  <1> DEFINE Good(c) == SFits(c, vs) /\ \A e \in Classes : SFits(e, vs) => c <= e
  <1>1. \E c0 \in {e \in Classes : SFits(e, vs)} : \A e \in {x \in Classes : SFits(x, vs)} : c0 <= e
    BY LeastClass
  <1>2. \E c \in Classes : Good(c)
    BY <1>1
  <1>3. LET c == CHOOSE c \in Classes : Good(c) IN c \in Classes /\ Good(c)
    BY <1>2
  <1> DEFINE c == CHOOSE c \in Classes : Good(c)
  <1>4. c <= d /\ c \in Classes /\ ClassifySigned(vs) = -c
    BY <1>3 DEF ClassifySigned
  <1> HIDE DEF c
  <1> QED
    BY <1>4, ClassAssumption DEF Classes

-----------------------------------------------------------------------------
(* Places.                                                                  *)

\* The places up to the j-th.
Places(f, j) ==
  /\ \A i \in 0 .. j : f[i] \in Nat \ {0}
  /\ f[0] = 1 /\ \A i \in 1 .. j : f[i] = Pow(1) * f[i - 1]

\* The places are the powers of the first class.
LEMMA PlaceIs ==
  ASSUME NEW j \in Nat
  PROVE  \E f : Places(f, j) /\ Place(j) = f[j]
  <1> DEFINE B == Pow(1)
             P(f) == f = [i \in 0 .. j |-> IF i = 0 THEN 1 ELSE B * f[i - 1]]
             D == Nat \ {0}
             st == [i \in 1 .. j |-> [x \in D |-> B * x]]
             s == CHOOSE f : P(f)
  <1>1. B \in Nat \ {0}
    BY PowFacts, ClassAssumption DEF Classes
  <1> HIDE DEF B
  <1>2. st \in [1 .. j -> [D -> D]] /\ 1 \in D
    BY <1>1
  <1>3. PICK f : Stepping(f, j, D, 1, st)
    <2> HIDE DEF st, D
    <2> QED
      BY <1>2, StepsExist
  <1>a. f = [i \in 0 .. j |-> f[i]]
    BY <1>3 DEF Stepping
  <1>4. f[0] = 1 /\ \A i \in 1 .. j : f[i] = B * f[i - 1]
    <2>1. f \in [0 .. j -> D] /\ f[0] = 1 /\ \A i \in 1 .. j : f[i] = st[i][f[i - 1]]
      BY <1>3 DEF Stepping
    <2>2. ASSUME NEW i \in 1 .. j  PROVE f[i] = B * f[i - 1]
      <3>1. f[i - 1] \in D
        BY <2>1
      <3>2. st[i] = [x \in D |-> B * x]
        OBVIOUS
      <3>3. st[i][f[i - 1]] = B * f[i - 1]
        BY <3>1, <3>2
      <3> QED
        BY <2>1, <3>3
    <2> QED
      BY <2>1, <2>2
  <1> HIDE DEF st
  <1>5. P(f)
    <2>1. \A i \in 0 .. j : f[i] = IF i = 0 THEN 1 ELSE B * f[i - 1]
      BY <1>4
    <2> QED
      BY <1>a, <2>1
  <1>6. P(s)
    BY <1>5
  <1>7. Place(j) = s[j]
    BY DEF Place, B
  <1> HIDE DEF s
  <1>8. s[0] = 1 /\ \A i \in 1 .. j : s[i] = B * s[i - 1]
    BY <1>6
  <1> DEFINE S == {i \in 0 .. j : s[i] \in Nat \ {0}}
  <1>9. S = 0 .. j
    <2>1. 0 \in S
      BY <1>8
    <2>2. ASSUME NEW m \in 1 .. j, m - 1 \in S  PROVE m \in S
      BY <1>1, <1>8, <2>2
    <2> HIDE DEF S
    <2>3. S \in SUBSET (0 .. j)
      BY DEF S
    <2> QED
      BY <2>1, <2>2, <2>3, UpTo
  <1>10. Places(s, j)
    BY <1>8, <1>9 DEF Places, B
  <1> QED
    BY <1>7, <1>10

\* Each place counts for as many as a byte has values of the one before.
LEMMA PlaceFacts ==
  /\ Place(0) = 1
  /\ \A n \in Nat : Place(n) \in Nat \ {0} /\ Place(n + 1) = Pow(1) * Place(n)
  <1>1. Place(0) = 1
    <2>1. PICK f : Places(f, 0) /\ Place(0) = f[0]
      BY PlaceIs
    <2> QED
      BY <2>1 DEF Places
  <1>2. ASSUME NEW n \in Nat
        PROVE  Place(n) \in Nat \ {0} /\ Place(n + 1) = Pow(1) * Place(n)
    <2>1. PICK f : Places(f, n) /\ Place(n) = f[n]
      BY PlaceIs
    <2>2. PICK g : Places(g, n + 1) /\ Place(n + 1) = g[n + 1]
      BY PlaceIs
    <2> DEFINE S == {i \in 0 .. n : f[i] = g[i]}
    <2>3. S = 0 .. n
      <3>1. 0 \in S
        BY <2>1, <2>2 DEF Places
      <3>2. ASSUME NEW m \in 1 .. n, m - 1 \in S  PROVE m \in S
        <4>1. m \in 1 .. n + 1 /\ f[m - 1] = g[m - 1]
          BY <3>2
        <4>2. f[m] = Pow(1) * f[m - 1] /\ g[m] = Pow(1) * g[m - 1]
          BY <2>1, <2>2, <4>1 DEF Places
        <4> QED
          BY <4>1, <4>2
      <3> HIDE DEF S
      <3>3. S \in SUBSET (0 .. n)
        BY DEF S
      <3> QED
        BY <3>1, <3>2, <3>3, UpTo
    <2>4. n \in S
      BY <2>3
    <2>5. g[n + 1] = Pow(1) * g[n]
      <3>1. n + 1 \in 1 .. n + 1 /\ (n + 1) - 1 = n
        OBVIOUS
      <3>2. g[n + 1] = Pow(1) * g[(n + 1) - 1]
        BY <2>2, <3>1 DEF Places
      <3> QED
        BY <3>1, <3>2
    <2>6. f[n] \in Nat \ {0}
      BY <2>1 DEF Places
    <2> QED
      BY <2>1, <2>2, <2>4, <2>5, <2>6
  <1> QED
    BY <1>1, <1>2

-----------------------------------------------------------------------------
(* Bytes and words.                                                         *)

\* Division with remainder determines the quotient.
LEMMA DivUnique ==
  ASSUME NEW v \in Int, NEW n \in Nat \ {0}, NEW k \in Int, NEW r \in 0 .. n - 1, v = k * n + r
  PROVE  v \div n = k
  <1> DEFINE q == v \div n
             s == v % n
  <1>1. q \in Int /\ v = q * n + s /\ s \in 0 .. n - 1
    BY DivMod
  <1>2. s = r
    BY ModUnique
  <1> HIDE DEF q, s
  <1>3. (q - k) * n = 0
    BY <1>1, <1>2
  <1>4. q - k = 0
    BY <1>1, <1>3, SmallMultiple
  <1> QED
    BY <1>1, <1>4 DEF q

\* What is below a place, and the digit at it, make what is below the next place.
LEMMA Digit ==
  ASSUME NEW w \in Nat, NEW b \in Nat \ {0}, NEW p \in Nat \ {0}
  PROVE  w % (b * p) = (w % p) + ((w \div p) % b) * p
  <1> DEFINE q == w \div p
             r == w % p
             k == q \div b
             d == q % b
  <1>1. q \in Int /\ w = q * p + r /\ r \in 0 .. p - 1
    BY DivMod
  <1> HIDE DEF q, r
  <1>2. k \in Int /\ q = k * b + d /\ d \in 0 .. b - 1
    BY <1>1, DivMod
  <1> HIDE DEF k, d
  <1> DEFINE n == b * p
             s == r + d * p
  <1>3. n \in Nat \ {0}
    BY SMT
  <1>4. s \in 0 .. n - 1
    <2>1. d * p \in Nat /\ d * p <= (b - 1) * p
      BY <1>2, SMT
    <2>2. (b - 1) * p = b * p - p
      BY SMT
    <2> QED
      BY <1>1, <2>1, <2>2
  <1>5. w = k * n + s
    <2>1. w = (k * b + d) * p + r
      BY <1>1, <1>2
    <2>2. (k * b + d) * p + r = k * (b * p) + (r + d * p)
      BY <1>1, <1>2, SMT
    <2> QED
      BY <2>1, <2>2
  <1>6. w % n = s
    <2> HIDE DEF n, s
    <2> QED
      BY <1>2, <1>3, <1>4, <1>5, ModUnique
  <1> QED
    BY <1>6 DEF q, r, d

\* The sums that make a word of its first bytes.
Makes(s, bytes, n) ==
  /\ s \in [0 .. n -> Nat] /\ s[0] = 0
  /\ \A j \in 1 .. n : s[j] = s[j - 1] + bytes[j] * Place(j - 1)

\* The word of some bytes, by its partial sums.
LEMMA WordIs ==
  ASSUME NEW n \in Nat, NEW bytes \in [1 .. n -> Byte]
  PROVE  \E s : Makes(s, bytes, n) /\ WordOf(bytes) = s[n]
  <1> DEFINE P(s) == s = [j \in 0 .. n |-> IF j = 0 THEN 0 ELSE s[j - 1] + bytes[j] * Place(j - 1)]
             st == [j \in 1 .. n |-> [x \in Nat |-> x + bytes[j] * Place(j - 1)]]
             s == CHOOSE f : P(f)
  <1>0. \A j \in 1 .. n : bytes[j] * Place(j - 1) \in Nat
    <2> TAKE j \in 1 .. n
    <2>1. Place(j - 1) \in Nat
      <3>1. j - 1 \in Nat
        OBVIOUS
      <3> QED
        BY <3>1, PlaceFacts
    <2>2. bytes[j] \in Nat
      <3>1. bytes[j] \in Byte
        OBVIOUS
      <3> QED
        BY <3>1 DEF Byte
    <2> QED
      BY <2>1, <2>2, SMT
  <1>1. st \in [1 .. n -> [Nat -> Nat]]
    <2>1. ASSUME NEW j \in 1 .. n, NEW x \in Nat  PROVE x + bytes[j] * Place(j - 1) \in Nat
      BY <1>0
    <2> QED
      BY <2>1
  <1>2. PICK f : Stepping(f, n, Nat, 0, st)
    <2> HIDE DEF st
    <2> QED
      BY <1>1, StepsExist
  <1>3. f \in [0 .. n -> Nat] /\ f[0] = 0 /\ \A j \in 1 .. n : f[j] = st[j][f[j - 1]]
    BY <1>2 DEF Stepping
  <1>4. ASSUME NEW j \in 1 .. n  PROVE f[j] = f[j - 1] + bytes[j] * Place(j - 1)
    <2>1. f[j - 1] \in Nat
      BY <1>3
    <2>2. st[j] = [x \in Nat |-> x + bytes[j] * Place(j - 1)]
      OBVIOUS
    <2>3. st[j][f[j - 1]] = f[j - 1] + bytes[j] * Place(j - 1)
      BY <2>1, <2>2
    <2> QED
      BY <1>3, <2>3
  <1> HIDE DEF st
  <1>5. P(f)
    <2>1. \A j \in 0 .. n : f[j] = IF j = 0 THEN 0 ELSE f[j - 1] + bytes[j] * Place(j - 1)
      BY <1>3, <1>4
    <2>2. f = [j \in 0 .. n |-> f[j]]
      BY <1>3
    <2> QED
      BY <2>1, <2>2
  <1>6. P(s)
    BY <1>5
  <1>7. WordOf(bytes) = s[n]
    <2>1. Len(bytes) = n
      OBVIOUS
    <2> QED
      BY <2>1 DEF WordOf
  <1> HIDE DEF s
  <1>8. s[0] = 0 /\ \A j \in 1 .. n : s[j] = s[j - 1] + bytes[j] * Place(j - 1)
    BY <1>6
  <1>9. s = [j \in 0 .. n |-> s[j]]
    BY <1>6
  <1> DEFINE S == {i \in 0 .. n : s[i] \in Nat}
  <1>10. S = 0 .. n
    <2>1. 0 \in S
      BY <1>8
    <2>2. ASSUME NEW m \in 1 .. n, m - 1 \in S  PROVE m \in S
      <3>1. s[m] = s[m - 1] + bytes[m] * Place(m - 1)
        BY <1>8
      <3>2. bytes[m] * Place(m - 1) \in Nat
        BY <1>0
      <3>3. s[m - 1] \in Nat
        BY <2>2
      <3>4. s[m] \in Nat
        BY <3>1, <3>2, <3>3
      <3> QED
        BY <3>4
    <2> HIDE DEF S
    <2>3. S \in SUBSET (0 .. n)
      BY DEF S
    <2> QED
      BY <2>1, <2>2, <2>3, UpTo
  <1>11. s \in [0 .. n -> Nat]
    BY <1>9, <1>10
  <1>12. Makes(s, bytes, n)
    BY <1>8, <1>11 DEF Makes
  <1> QED
    BY <1>7, <1>12

\* What the first bytes make is below the place after them.
LEMMA PartialBound ==
  ASSUME NEW n \in Nat, NEW bytes \in [1 .. n -> Byte], NEW s, Makes(s, bytes, n)
  PROVE  \A i \in 0 .. n : s[i] \in Nat /\ s[i] < Place(i)
  <1>1. Makes(s, bytes, n)
    OBVIOUS
  <1> DEFINE S == {i \in 0 .. n : s[i] < Place(i)}
  <1>2. 0 \in S
    BY <1>1, PlaceFacts DEF Makes
  <1>3. ASSUME NEW m \in 1 .. n, m - 1 \in S  PROVE m \in S
    <2> DEFINE P == Place(m - 1)
               B == Pow(1)
               x == s[m - 1]
               b == bytes[m]
    <2>1. Place(m) = B * P /\ P \in Nat \ {0}
      <3>1. m - 1 \in Nat /\ (m - 1) + 1 = m
        OBVIOUS
      <3>2. Place((m - 1) + 1) = B * P /\ P \in Nat \ {0}
        BY <3>1, PlaceFacts
      <3> QED
        BY <3>1, <3>2
    <2>2. x \in Nat /\ x < P /\ s[m] = x + b * P
      BY <1>1, <1>3 DEF Makes
    <2>3. B \in Nat \ {0}
      BY PowFacts, ClassAssumption DEF Classes
    <2>4. b \in 0 .. B - 1
      <3>1. bytes[m] \in Byte
        OBVIOUS
      <3> QED
        BY <3>1 DEF Byte
    <2> HIDE DEF P, B, x, b
    <2>5. b * P <= (B - 1) * P
      BY <2>1, <2>3, <2>4, SMT
    <2>6. (B - 1) * P = B * P - P /\ B * P \in Nat /\ b * P \in Nat
      BY <2>1, <2>3, <2>4, SMT
    <2>7. s[m] < Place(m)
      BY <2>1, <2>2, <2>5, <2>6
    <2> QED
      BY <2>7
  <1> HIDE DEF S
  <1>4. S \in SUBSET (0 .. n)
    BY DEF S
  <1>5. S = 0 .. n
    BY <1>2, <1>3, <1>4, UpTo
  <1> QED
    BY <1>1, <1>5 DEF Makes, S

\* A word made of n bytes is below the place after them.
LEMMA WordBound ==
  ASSUME NEW n \in Nat, NEW bytes \in [1 .. n -> Byte]
  PROVE  WordOf(bytes) \in Nat /\ WordOf(bytes) < Place(n)
  <1>1. PICK s : Makes(s, bytes, n) /\ WordOf(bytes) = s[n]
    BY WordIs
  <1>2. n \in 0 .. n
    OBVIOUS
  <1> QED
    BY <1>1, <1>2, PartialBound

\* The bytes of a word that n bytes can hold make that word again.
LEMMA WordBack ==
  ASSUME NEW n \in Nat, NEW bytes \in [1 .. n -> Byte], NEW w \in Nat, w < Place(n),
         \A j \in 1 .. n : bytes[j] = ByteOf(w, j - 1)
  PROVE  WordOf(bytes) = w
  <1>1. PICK s : Makes(s, bytes, n) /\ WordOf(bytes) = s[n]
    BY WordIs
  <1> DEFINE S == {i \in 0 .. n : s[i] = w % Place(i)}
  <1>2. 0 \in S
    <2>1. w % 1 = 0
      BY SMT
    <2> QED
      BY <1>1, <2>1, PlaceFacts DEF Makes
  <1>3. ASSUME NEW m \in 1 .. n, m - 1 \in S  PROVE m \in S
    <2> DEFINE P == Place(m - 1)
               B == Pow(1)
    <2>1. Place(m) = B * P /\ P \in Nat \ {0}
      <3>1. m - 1 \in Nat /\ (m - 1) + 1 = m
        OBVIOUS
      <3>2. Place((m - 1) + 1) = B * P /\ P \in Nat \ {0}
        BY <3>1, PlaceFacts
      <3> QED
        BY <3>1, <3>2
    <2>2. s[m] = s[m - 1] + bytes[m] * P /\ s[m - 1] = w % P
      BY <1>1, <1>3 DEF Makes
    <2>3. B \in Nat \ {0}
      BY PowFacts, ClassAssumption DEF Classes
    <2>4. bytes[m] = (w \div P) % B
      BY DEF ByteOf
    <2> HIDE DEF P, B
    <2>5. w % (B * P) = (w % P) + ((w \div P) % B) * P
      BY <2>1, <2>3, Digit
    <2>6. s[m] = w % Place(m)
      BY <2>1, <2>2, <2>4, <2>5
    <2> QED
      BY <2>6
  <1> HIDE DEF S
  <1>4. S \in SUBSET (0 .. n)
    BY DEF S
  <1>5. S = 0 .. n
    BY <1>2, <1>3, <1>4, UpTo
  <1>6. s[n] = w % Place(n)
    <2>1. n \in S
      BY <1>5
    <2> QED
      BY <2>1 DEF S
  <1>7. w % Place(n) = w
    <2> DEFINE p == Place(n)
    <2>1. p \in Nat \ {0}
      BY PlaceFacts
    <2> HIDE DEF p
    <2>2. w \in 0 .. p - 1
      BY <2>1 DEF p
    <2>3. \E k \in Int : w = k * p + w
      <3>1. 0 \in Int /\ w = 0 * p + w
        BY <2>1
      <3> QED
        BY <3>1
    <2>4. w % p = w
      BY <2>1, <2>2, <2>3, ModUnique
    <2> QED
      BY <2>4 DEF p
  <1> QED
    BY <1>1, <1>6, <1>7

\* A stretch of a sequence.
LEMMA Stretch ==
  ASSUME NEW S, NEW s \in Seq(S), NEW m \in Nat \ {0}, NEW e \in Nat, NEW n \in Nat,
         n = m + e - 1, n <= Len(s)
  PROVE  /\ SubSeq(s, m, n) \in [1 .. e -> S] /\ Len(SubSeq(s, m, n)) = e
         /\ \A j \in 1 .. e : SubSeq(s, m, n)[j] = s[m + j - 1]
  <1>1. SubSeq(s, m, n) = [j \in 1 .. e |-> s[m + j - 1]]
    BY DEF SubSeq
  <1>2. \A j \in 1 .. e : s[m + j - 1] \in S
    <2> TAKE j \in 1 .. e
    <2>1. m + j - 1 \in 1 .. Len(s)
      OBVIOUS
    <2> QED
      BY <2>1
  <1> DEFINE x == SubSeq(s, m, n)
  <1> HIDE DEF x
  <1>3. x = [j \in 1 .. e |-> s[m + j - 1]]
    BY <1>1 DEF x
  <1>4. x \in [1 .. e -> S] /\ \A j \in 1 .. e : x[j] = s[m + j - 1]
    BY <1>2, <1>3
  <1>5. Len(x) = e
    BY <1>4
  <1> QED
    BY <1>4, <1>5 DEF x

\* The first bytes of a payload.
LEMMA Prefix ==
  ASSUME NEW S, NEW s \in Seq(S), NEW m \in Nat, m <= Len(s)
  PROVE  /\ SubSeq(s, 1, m) \in Seq(S) /\ Len(SubSeq(s, 1, m)) = m
         /\ m = Len(s) => SubSeq(s, 1, m) = s
  <1> DEFINE x == SubSeq(s, 1, m)
  <1>1. x = [j \in 1 .. m |-> s[j]]
    BY DEF SubSeq
  <1>2. \A j \in 1 .. m : s[j] \in S
    OBVIOUS
  <1> HIDE DEF x
  <1>3. x \in Seq(S) /\ Len(x) = m
    BY <1>1, <1>2
  <1>4. m = Len(s) => x = s
    BY <1>1
  <1> QED
    BY <1>3, <1>4 DEF x

\* The place of the j-th byte of the i-th element, and back.
LEMMA PlaceOfByte ==
  ASSUME NEW n \in Nat, NEW e \in Nat \ {0}, NEW i \in 1 .. n, NEW j \in 1 .. e
  PROVE  LET b == (i - 1) * e + j IN
         /\ b \in 1 .. n * e /\ i * e = (i - 1) * e + e /\ i * e <= n * e
         /\ (i - 1) * e \in Nat /\ i * e \in Nat
         /\ (b - 1) \div e = i - 1 /\ (b - 1) % e = j - 1
  <1> DEFINE k == i - 1
             r == j - 1
             b == k * e + j
  <1>1. k * e \in Nat /\ k \in Int /\ r \in 0 .. e - 1
    BY SMT
  <1>2. i * e = k * e + e /\ i * e \in Nat
    BY SMT
  <1>3. i * e <= n * e /\ n * e \in Nat
    BY SMT
  <1>4. b - 1 = k * e + r /\ b - 1 \in Int
    BY <1>1
  <1> DEFINE v == b - 1
  <1> HIDE DEF v, r, k
  <1>5. v \div e = k /\ v % e = r
    BY <1>1, <1>4, DivUnique, ModUnique DEF v
  <1>6. b \in 1 .. n * e
    BY <1>1, <1>2, <1>3
  <1> QED
    BY <1>1, <1>2, <1>3, <1>5, <1>6 DEF k, r, v

\* Every byte of a payload belongs to an element.
LEMMA ElementOfByte ==
  ASSUME NEW n \in Nat, NEW e \in Nat \ {0}, NEW b \in 1 .. n * e
  PROVE  ((b - 1) \div e) + 1 \in 1 .. n /\ (b - 1) % e \in 0 .. e - 1
  <1> DEFINE v == b - 1
             q == v \div e
             r == v % e
  <1>2. v \in Nat /\ v < n * e
    BY SMT
  <1>1. q \in Int /\ v = q * e + r /\ r \in 0 .. e - 1
    <2> HIDE DEF v
    <2> QED
      BY <1>2, DivMod
  <1> HIDE DEF v, q, r
  <1>3. q >= 0
    <2> SUFFICES ASSUME q <= -1  PROVE FALSE
      BY <1>1
    <2>1. q * e <= -e
      BY <1>1, SMT
    <2> QED
      BY <1>1, <1>2, <2>1
  <1>4. q < n
    <2> SUFFICES ASSUME q >= n  PROVE FALSE
      BY <1>1
    <2>1. q * e >= n * e
      BY <1>1, SMT
    <2> QED
      BY <1>1, <1>2, <2>1
  <1> QED
    BY <1>1, <1>3, <1>4 DEF v, q, r

\* A byte of a word is a byte.
LEMMA ByteOfType ==
  ASSUME NEW w \in Nat, NEW j \in Nat
  PROVE  ByteOf(w, j) \in Byte
  <1>1. Place(j) \in Nat \ {0}
    BY PlaceFacts
  <1> DEFINE n == Place(j)
  <1>2. w \div n \in Int
    <2>1. w \in Int /\ n \in Nat \ {0}
      BY <1>1
    <2> HIDE DEF n
    <2> QED
      BY ONLY <2>1, DivMod
  <1>3. Pow(1) \in Nat \ {0}
    BY PowFacts, ClassAssumption DEF Classes
  <1> QED
    BY <1>2, <1>3, ModRange DEF ByteOf, Byte

-----------------------------------------------------------------------------
(* Binary search.                                                           *)

\* Where the halving of [lo, hi) ends, when the elements looked for are the first c.
Cut(c, lo, hi) == IF lo >= hi THEN lo ELSE IF c < lo THEN lo ELSE IF c > hi THEN hi ELSE c
Mid(lo, hi) == lo + (hi - lo) \div 2

\* The middle of a range that is not empty lies in it.
LEMMA MidRange ==
  ASSUME NEW lo \in Int, NEW hi \in Int, lo < hi
  PROVE  Mid(lo, hi) \in Int /\ lo <= Mid(lo, hi) /\ Mid(lo, hi) < hi
  <1>1. \A k \in Int : k > 0 => (k \div 2) \in Int /\ 0 <= (k \div 2) /\ (k \div 2) < k
    OBVIOUS
  <1>2. hi - lo \in Int /\ hi - lo > 0
    OBVIOUS
  <1>3. ((hi - lo) \div 2) \in Int /\ 0 <= ((hi - lo) \div 2) /\ ((hi - lo) \div 2) < hi - lo
    BY <1>1, <1>2
  <1> QED
    BY <1>3 DEF Mid

\* Halving once does not change where the halving ends.
LEMMA CutStep ==
  ASSUME NEW n \in Nat, NEW c \in 0 .. n, NEW lo \in 0 .. n, NEW hi \in 0 .. n, lo < hi
  PROVE  LET m == Mid(lo, hi) IN
         /\ m \in 0 .. n /\ m + 1 \in 1 .. n
         /\ Cut(c, lo, hi) = IF m + 1 <= c THEN Cut(c, m + 1, hi) ELSE Cut(c, lo, m)
  <1> DEFINE m == Mid(lo, hi)
  <1>1. m \in Int /\ lo <= m /\ m < hi
    BY MidRange
  <1> HIDE DEF m
  <1>2. m \in 0 .. n /\ m + 1 \in 1 .. n
    BY <1>1
  <1>3. Cut(c, lo, hi) = IF m + 1 <= c THEN Cut(c, m + 1, hi) ELSE Cut(c, lo, m)
    BY <1>1, <1>2 DEF Cut
  <1> QED
    BY <1>2, <1>3 DEF m

\* A search by halving, for the elements in G.
Halving(s, n, G) ==
  s = [w \in (0 .. n) \X (0 .. n) |->
        LET lo == w[1]
            hi == w[2]
            m  == lo + (hi - lo) \div 2
        IN  IF lo >= hi THEN lo ELSE IF m + 1 \in G THEN s[<<m + 1, hi>>] ELSE s[<<lo, m>>]]

\* The search is defined: it finds the end of the elements looked for.
LEMMA HalvingExists ==
  ASSUME NEW n \in Nat, NEW c \in 0 .. n
  PROVE  \E s : Halving(s, n, 1 .. c)
  <1> DEFINE s == [w \in (0 .. n) \X (0 .. n) |-> Cut(c, w[1], w[2])]
             Value1(w) == LET lo == w[1]
                              hi == w[2]
                              m  == lo + (hi - lo) \div 2
                          IN  IF lo >= hi THEN lo
                              ELSE IF m + 1 \in 1 .. c THEN s[<<m + 1, hi>>] ELSE s[<<lo, m>>]
  <1>1. ASSUME NEW w \in (0 .. n) \X (0 .. n)
        PROVE  Cut(c, w[1], w[2]) = Value1(w)
    <2> DEFINE lo == w[1]
               hi == w[2]
               m  == Mid(lo, hi)
    <2>0. lo \in 0 .. n /\ hi \in 0 .. n /\ lo \in Int /\ hi \in Int
      OBVIOUS
    <2> HIDE DEF lo, hi
    <2>1. CASE lo >= hi
      <3>1. Cut(c, lo, hi) = lo
        BY <2>1 DEF Cut
      <3> QED
        BY <3>1, <2>1 DEF lo, hi
    <2>2. CASE lo < hi
      <3>1. m \in 0 .. n /\ m + 1 \in 1 .. n /\ m + 1 \in 0 .. n
        BY <2>0, <2>2, CutStep
      <3>2. Cut(c, lo, hi) = IF m + 1 <= c THEN Cut(c, m + 1, hi) ELSE Cut(c, lo, m)
        BY <2>0, <2>2, CutStep
      <3>3. s[<<m + 1, hi>>] = Cut(c, m + 1, hi) /\ s[<<lo, m>>] = Cut(c, lo, m)
        BY <3>1, <2>0
      <3> HIDE DEF s
      <3>4. m + 1 <= c <=> m + 1 \in 1 .. c
        BY <3>1
      <3>5. Cut(c, lo, hi) = IF m + 1 \in 1 .. c THEN s[<<m + 1, hi>>] ELSE s[<<lo, m>>]
        BY <3>2, <3>3, <3>4
      <3>6. ~(lo >= hi)
        BY <2>0, <2>2
      <3> QED
        BY <3>5, <3>6 DEF Mid, lo, hi
    <2> QED
      BY <2>0, <2>1, <2>2
  <1>2. s = [w \in (0 .. n) \X (0 .. n) |-> Value1(w)]
    BY <1>1
  <1>3. Halving(s, n, 1 .. c)
    BY <1>2 DEF Halving
  <1> QED
    BY <1>3

\* Whatever function satisfies its equation finds that end.
LEMMA HalvingIs ==
  ASSUME NEW n \in Nat, NEW c \in 0 .. n, NEW s, Halving(s, n, 1 .. c)
  PROVE  \A lo, hi \in 0 .. n : s[<<lo, hi>>] = Cut(c, lo, hi)
  <1> DEFINE At(k) == \A lo, hi \in 0 .. n : hi - lo <= k => s[<<lo, hi>>] = Cut(c, lo, hi)
             S == {k \in 0 .. n : At(k)}
  <1>0. ASSUME NEW lo \in 0 .. n, NEW hi \in 0 .. n
        PROVE  /\ lo >= hi => s[<<lo, hi>>] = lo
               /\ lo < hi => LET m == Mid(lo, hi) IN
                    s[<<lo, hi>>] = IF m + 1 \in 1 .. c THEN s[<<m + 1, hi>>] ELSE s[<<lo, m>>]
    <2>1. <<lo, hi>> \in (0 .. n) \X (0 .. n) /\ <<lo, hi>>[1] = lo /\ <<lo, hi>>[2] = hi
      OBVIOUS
    <2>2. s[<<lo, hi>>] = LET m == lo + (hi - lo) \div 2 IN
            IF lo >= hi THEN lo ELSE IF m + 1 \in 1 .. c THEN s[<<m + 1, hi>>] ELSE s[<<lo, m>>]
      BY <2>1 DEF Halving
    <2> QED
      BY <2>2 DEF Mid
  <1>1. 0 \in S
    <2>1. ASSUME NEW lo \in 0 .. n, NEW hi \in 0 .. n, hi - lo <= 0
          PROVE  s[<<lo, hi>>] = Cut(c, lo, hi)
      <3>1. lo >= hi
        BY <2>1
      <3> QED
        BY <3>1, <1>0 DEF Cut
    <2> QED
      BY <2>1
  <1>2. ASSUME NEW k \in 1 .. n, k - 1 \in S
        PROVE  k \in S
    <2>1. At(k - 1)
      BY <1>2
    <2>2. ASSUME NEW lo \in 0 .. n, NEW hi \in 0 .. n, hi - lo <= k
          PROVE  s[<<lo, hi>>] = Cut(c, lo, hi)
      <3>1. CASE lo >= hi
        BY <3>1, <1>0 DEF Cut
      <3>2. CASE lo < hi
        <4> DEFINE m == Mid(lo, hi)
        <4>1. m \in 0 .. n /\ m + 1 \in 1 .. n /\ lo <= m /\ m < hi
          BY <3>2, CutStep, MidRange
        <4>2. Cut(c, lo, hi) = IF m + 1 <= c THEN Cut(c, m + 1, hi) ELSE Cut(c, lo, m)
          BY <3>2, CutStep
        <4>3. s[<<lo, hi>>] = IF m + 1 \in 1 .. c THEN s[<<m + 1, hi>>] ELSE s[<<lo, m>>]
          BY <3>2, <1>0
        <4> HIDE DEF m
        <4>4. m + 1 \in 0 .. n /\ hi - (m + 1) <= k - 1 /\ m - lo <= k - 1
          BY <4>1, <2>2
        <4>5. s[<<m + 1, hi>>] = Cut(c, m + 1, hi)
          BY <2>1, <4>4
        <4>6. s[<<lo, m>>] = Cut(c, lo, m)
          BY <2>1, <4>4, <4>1
        <4>7. m + 1 <= c <=> m + 1 \in 1 .. c
          BY <4>1
        <4> QED
          BY <4>2, <4>3, <4>5, <4>6, <4>7
      <3> QED
        BY <3>1, <3>2
    <2>3. At(k)
      BY <2>2
    <2> QED
      BY <2>3, <1>2
  <1>3. S \in SUBSET (0 .. n)
    OBVIOUS
  <1>4. S = 0 .. n
    <2> HIDE DEF S
    <2> QED
      BY <1>1, <1>2, <1>3, UpTo
  <1>5. At(n)
    <2>1. n \in S
      BY <1>4
    <2> QED
      BY <2>1
  <1>6. ASSUME NEW lo \in 0 .. n, NEW hi \in 0 .. n
        PROVE  s[<<lo, hi>>] = Cut(c, lo, hi)
    <2>1. hi - lo <= n
      OBVIOUS
    <2> QED
      BY <2>1, <1>5
  <1> QED
    BY <1>6

\* A set of positions with every position before one of its own is the first so many.
LEMMA DownClosed ==
  ASSUME NEW n \in Nat, NEW G \in SUBSET (1 .. n), \A j \in G : \A i \in 1 .. j : i \in G
  PROVE  \E c \in 0 .. n : G = 1 .. c
  <1> DEFINE S == {k \in 0 .. n : \E c \in 0 .. k : \A i \in 1 .. k : i \in G <=> i <= c}
  <1>1. 0 \in S
    OBVIOUS
  <1>2. ASSUME NEW k \in 1 .. n, k - 1 \in S
        PROVE  k \in S
    <2>1. PICK c \in 0 .. k - 1 : \A i \in 1 .. k - 1 : i \in G <=> i <= c
      BY <1>2
    <2>2. CASE k \in G
      <3>1. \A i \in 1 .. k : i \in G <=> i <= k
        BY <2>2
      <3> QED
        BY <3>1
    <2>3. CASE k \notin G
      <3>1. \A i \in 1 .. k : i \in G <=> i <= c
        BY <2>1, <2>3
      <3>2. c \in 0 .. k
        OBVIOUS
      <3> QED
        BY <3>1, <3>2
    <2> QED
      BY <2>2, <2>3
  <1>3. S \in SUBSET (0 .. n)
    OBVIOUS
  <1>4. n \in S
    <2> HIDE DEF S
    <2> QED
      BY <1>1, <1>2, <1>3, UpTo
  <1>5. PICK c \in 0 .. n : \A i \in 1 .. n : i \in G <=> i <= c
    BY <1>4
  <1> HIDE DEF S
  <1>6. ASSUME NEW i \in G PROVE i \in 1 .. c
    <2>1. i \in 1 .. n
      OBVIOUS
    <2> QED
      BY <2>1, <1>5
  <1>7. ASSUME NEW i \in 1 .. c PROVE i \in G
    <2>1. i \in 1 .. n
      OBVIOUS
    <2> QED
      BY <2>1, <1>5
  <1> QED
    BY <1>6, <1>7

=============================================================================
