----------------------------- MODULE HeapProofs -----------------------------
(***************************************************************************)
(* The allocator of the browser build, for every alignment, page and size  *)
(* of memory: blocks stay apart, tags lead from chunk to chunk, free       *)
(* neighbours are joined and nothing freed is lost.                        *)
(***************************************************************************)
EXTENDS WebHeap, FiniteSetTheorems, WellFoundedInduction, TLAPS

-----------------------------------------------------------------------------
(* Arithmetic.                                                              *)

\* The equation of division.
LEMMA DivMod ==
  ASSUME NEW v \in Int, NEW n \in Nat \ {0}
  PROVE  v \div n \in Int /\ v = (v \div n) * n + (v % n) /\ (v % n) \in 0 .. n - 1
  BY SMT

\* A remainder is less than the divisor.
LEMMA ModRange ==
  ASSUME NEW v \in Int, NEW n \in Nat \ {0}
  PROVE  (v % n) \in 0 .. n - 1
  BY SMT

\* A remainder is determined by the equation of division.
LEMMA ModUnique ==
  ASSUME NEW v \in Int, NEW n \in Nat \ {0}, NEW k \in Int, NEW r \in 0 .. n - 1, v = k * n + r
  PROVE  v % n = r
  <1> DEFINE q == v \div n
             s == v % n
  <1>1. q \in Int /\ v = q * n + s /\ s \in 0 .. n - 1
    BY DivMod
  <1> HIDE DEF q, s
  <1>2. (q - k) * n = r - s
    BY <1>1
  <1> DEFINE m == q - k
  <1>3. m \in Int /\ m * n = r - s /\ -n < m * n /\ m * n < n
    BY <1>1, <1>2
  <1>a. q = m + k
    BY <1>1
  <1> HIDE DEF m
  <1>4. m >= 1 => m * n >= n
    BY <1>3, SMT
  <1>5. m <= -1 => m * n <= -n
    BY <1>3, SMT
  <1> DEFINE x == m * n
  <1>6. (m >= 1 => x >= n) /\ (m <= -1 => x <= -n) /\ -n < x /\ x < n /\ x = r - s
    BY <1>3, <1>4, <1>5
  <1> HIDE DEF x
  <1>7. m = 0
    BY <1>3, <1>6
  <1>8. q = k
    BY <1>1, <1>7, <1>a
  <1> QED
    BY <1>1, <1>8 DEF s

\* A multiple of the alignment.
Aligned(n) == n % RT_ALIGN = 0

\* The alignment is a number above zero.
LEMMA AlignIs == RT_ALIGN \in Nat \ {0}
  BY HeapAssumption

\* Multiples of the alignment are aligned.
LEMMA Multiple ==
  ASSUME NEW k \in Int
  PROVE  Aligned(k * RT_ALIGN)
  <1> DEFINE r == 0
             v == k * RT_ALIGN
  <1>1. v \in Int /\ r \in 0 .. RT_ALIGN - 1 /\ v = k * RT_ALIGN + r /\ r = 0
    BY AlignIs
  <1> HIDE DEF r, v
  <1>2. v % RT_ALIGN = r
    BY <1>1, AlignIs, ModUnique
  <1> QED
    BY <1>1, <1>2 DEF Aligned, v

\* What is aligned is a multiple of the alignment.
LEMMA MultipleOf ==
  ASSUME NEW n \in Int, Aligned(n)
  PROVE  \E k \in Int : n = k * RT_ALIGN
  <1> DEFINE k == n \div RT_ALIGN
             r == n % RT_ALIGN
  <1>1. k \in Int /\ n = k * RT_ALIGN + r /\ r = 0
    BY AlignIs, DivMod DEF Aligned
  <1> HIDE DEF k, r
  <1> QED
    BY <1>1, AlignIs

\* Sums and differences of aligned numbers are aligned.
LEMMA AlignedSum ==
  ASSUME NEW a \in Int, NEW b \in Int, Aligned(a), Aligned(b)
  PROVE  Aligned(a + b) /\ Aligned(a - b)
  <1>1. PICK k \in Int : a = k * RT_ALIGN
    BY MultipleOf
  <1>2. PICK l \in Int : b = l * RT_ALIGN
    BY MultipleOf
  <1>3. a + b = (k + l) * RT_ALIGN /\ a - b = (k - l) * RT_ALIGN
    BY <1>1, <1>2, AlignIs
  <1>4. Aligned((k + l) * RT_ALIGN) /\ Aligned((k - l) * RT_ALIGN)
    <2>1. k + l \in Int /\ k - l \in Int
      OBVIOUS
    <2> QED
      BY <2>1, Multiple
  <1> QED
    BY <1>3, <1>4

\* Rounding down gives the last multiple not above.
LEMMA DownIs ==
  ASSUME NEW n \in Int
  PROVE  /\ AlignDown(n) \in Int /\ Aligned(AlignDown(n))
         /\ AlignDown(n) <= n /\ n < AlignDown(n) + RT_ALIGN
         /\ \A m \in Int : Aligned(m) /\ m <= n => m <= AlignDown(n)
  <1> DEFINE k == n \div RT_ALIGN
             r == n % RT_ALIGN
             d == AlignDown(n)
  <1>1. k \in Int /\ n = k * RT_ALIGN + r /\ r \in 0 .. RT_ALIGN - 1 /\ d = n - r
    BY AlignIs, DivMod DEF AlignDown
  <1> HIDE DEF k, r, d
  <1>2. d = k * RT_ALIGN
    BY <1>1, AlignIs
  <1>3. Aligned(d) /\ d \in Int
    BY <1>1, <1>2, AlignIs, Multiple
  <1>4. ASSUME NEW m \in Int, Aligned(m), m <= n  PROVE m <= d
    <2>1. PICK l \in Int : m = l * RT_ALIGN
      BY <1>4, MultipleOf
    <2> SUFFICES ASSUME l >= k + 1  PROVE FALSE
      <3>1. ~(l >= k + 1) => l <= k
        BY <1>1
      <3>2. l <= k => l * RT_ALIGN <= k * RT_ALIGN
        BY <1>1, AlignIs, SMT
      <3> QED
        BY <1>2, <2>1, <3>1, <3>2
    <2>2. l * RT_ALIGN >= (k + 1) * RT_ALIGN /\ (k + 1) * RT_ALIGN = k * RT_ALIGN + RT_ALIGN
      BY <1>1, AlignIs, SMT
    <2>3. m >= d + RT_ALIGN
      BY <1>2, <2>1, <2>2
    <2> QED
      BY <1>1, <1>3, <1>4, <2>3, AlignIs
  <1>5. d <= n /\ n < d + RT_ALIGN
    BY <1>1, AlignIs
  <1> QED
    BY <1>3, <1>4, <1>5 DEF d

\* The header and the least chunk are one and two units long.
LEMMA Units == /\ Aligned(RT_HDR) /\ Aligned(RT_MIN) /\ RT_HDR = RT_ALIGN /\ RT_MIN = 2 * RT_ALIGN
  <1>1. RT_HDR = 1 * RT_ALIGN /\ RT_MIN = 2 * RT_ALIGN /\ RT_HDR = RT_ALIGN
    BY AlignIs DEF RT_HDR, RT_MIN
  <1>2. 1 \in Int /\ 2 \in Int
    OBVIOUS
  <1>3. Aligned(1 * RT_ALIGN) /\ Aligned(2 * RT_ALIGN)
    BY <1>2, Multiple
  <1> QED
    BY <1>1, <1>3

\* Numbers of a size_t are not wrapped.
LEMMA Unwrapped ==
  ASSUME NEW n \in 0 .. AddrSpace - 1
  PROVE  Wrap(n) = n
  <1> DEFINE k == 0
  <1>1. n \in Int /\ AddrSpace \in Nat \ {0} /\ k \in Int /\ n = k * AddrSpace + n /\ n \in 0 .. AddrSpace - 1
    BY HeapAssumption
  <1> HIDE DEF k
  <1> QED
    BY <1>1, ModUnique DEF Wrap

\* What wraps fits in a size_t.
LEMMA WrapRange ==
  ASSUME NEW n \in Int
  PROVE  Wrap(n) \in 0 .. AddrSpace - 1
  <1>1. AddrSpace \in Nat \ {0}
    BY HeapAssumption
  <1> QED
    BY <1>1, ModRange DEF Wrap

\* The chunk for a payload: aligned and large enough, unless the sum wraps.
LEMMA RoundupIs ==
  ASSUME NEW n \in 0 .. AddrSpace - 1
  PROVE  LET need == rt_roundup(n) IN
         /\ need = 0 \/ (need \in Nat /\ need >= RT_MIN /\ Aligned(need))
         /\ Representable(n) => need >= n + RT_HDR
         /\ n = 0 => need # 0
  <1> DEFINE t == Wrap(n + RT_HDR)
             w == Wrap(t + RT_ALIGN - 1)
             u == AlignDown(w)
             need == rt_roundup(n)
  <1>1. n + RT_HDR \in Nat
    BY Units, AlignIs
  <1>2. t \in 0 .. AddrSpace - 1
    BY <1>1, WrapRange
  <1>3. t + RT_ALIGN - 1 \in Nat
    BY <1>2, AlignIs, HeapAssumption
  <1>4. w \in 0 .. AddrSpace - 1
    BY <1>3, WrapRange
  <1>5. need = IF t < n THEN 0 ELSE IF u < RT_MIN THEN RT_MIN ELSE u
    BY DEF rt_roundup
  <1>6. /\ u \in Int /\ Aligned(u) /\ w < u + RT_ALIGN
    BY <1>4, DownIs
  <1>7. RT_MIN \in Nat /\ Aligned(RT_MIN) /\ AddrSpace \in Nat /\ RT_MIN # 0
    BY Units, AlignIs, HeapAssumption
  <1>8. Representable(n) => t = n + RT_HDR /\ w = t + RT_ALIGN - 1
    <2> SUFFICES ASSUME Representable(n)  PROVE t = n + RT_HDR /\ w = t + RT_ALIGN - 1
      OBVIOUS
    <2>1. n + RT_HDR + RT_ALIGN - 1 < AddrSpace
      BY DEF Representable
    <2>2. n + RT_HDR \in 0 .. AddrSpace - 1
      BY <1>1, <1>7, <2>1, Units, AlignIs
    <2>3. t = n + RT_HDR
      BY <2>2, Unwrapped
    <2>4. t + RT_ALIGN - 1 \in 0 .. AddrSpace - 1
      BY <1>1, <1>7, <2>1, <2>3, Units, AlignIs
    <2>5. w = t + RT_ALIGN - 1
      BY <2>4, Unwrapped
    <2> QED
      BY <2>3, <2>5
  <1>9. n = 0 => t >= n
    BY <1>2
  <1> HIDE DEF t, w, u, need
  <1>10. need = 0 \/ (need \in Nat /\ need >= RT_MIN /\ Aligned(need))
    BY <1>5, <1>6, <1>7
  <1>11. Representable(n) => need >= n + RT_HDR
    BY <1>1, <1>5, <1>6, <1>7, <1>8, Units, AlignIs
  <1>12. n = 0 => need # 0
    BY <1>2, <1>5, <1>6, <1>7, <1>9
  <1> QED
    BY <1>10, <1>11, <1>12 DEF need

-----------------------------------------------------------------------------
(* The heap and its operations, field by field.                             *)

ChunkType == [size : Nat, inuse : BOOLEAN, prevsz : Nat, fnext : Nat, fprev : Nat]
HeapRecord(h) ==
  h = [chunk |-> h.chunk, rt_free |-> h.rt_free, rt_top |-> h.rt_top,
       rt_ready |-> h.rt_ready, end |-> h.end]
WellFormed(h) ==
  /\ HeapRecord(h)
  /\ h.chunk \in [DOMAIN h.chunk -> ChunkType]
  /\ IsFiniteSet(DOMAIN h.chunk) /\ DOMAIN h.chunk \subseteq Nat \ {0}
  /\ h.rt_free \in Nat /\ h.rt_top \in Nat /\ h.rt_ready \in BOOLEAN
  /\ h.end \in FirstEnd .. AddrSpace

\* The chunks of g in S have the fields they have in h.
SameTags(h, g, S) ==
  \A a \in S : /\ g.chunk[a].size = h.chunk[a].size /\ g.chunk[a].inuse = h.chunk[a].inuse
               /\ g.chunk[a].prevsz = h.chunk[a].prevsz
SameLinks(h, g, S) ==
  \A a \in S : g.chunk[a].fnext = h.chunk[a].fnext /\ g.chunk[a].fprev = h.chunk[a].fprev

\* c is put at the head of the free list.
Pushed(h, g, c) ==
  /\ WellFormed(g) /\ DOMAIN g.chunk = DOMAIN h.chunk
  /\ g.rt_free = c /\ g.rt_top = h.rt_top /\ g.rt_ready = h.rt_ready /\ g.end = h.end
  /\ SameTags(h, g, DOMAIN h.chunk)
  /\ \A a \in DOMAIN h.chunk :
       /\ g.chunk[a].fnext = IF a = c THEN h.rt_free ELSE h.chunk[a].fnext
       /\ g.chunk[a].fprev =
            IF a = c THEN Null ELSE IF a = h.rt_free THEN c ELSE h.chunk[a].fprev

\* The fields of a chunk that was given others.
Chunk(y, size, inuse, prevsz, fnext, fprev) ==
  /\ y \in ChunkType /\ y.size = size /\ y.inuse = inuse /\ y.prevsz = prevsz
  /\ y.fnext = fnext /\ y.fprev = fprev

\* A chunk with both links replaced.
LEMMA Relinked ==
  ASSUME NEW x \in ChunkType, NEW n \in Nat, NEW p \in Nat, NEW y,
         y = [x EXCEPT !.fnext = n, !.fprev = p] \/ y = [x EXCEPT !.fprev = p, !.fnext = n]
  PROVE  Chunk(y, x.size, x.inuse, x.prevsz, n, p)
  BY DEF ChunkType, Chunk

\* A chunk with the link back replaced.
LEMMA Backlinked ==
  ASSUME NEW x \in ChunkType, NEW p \in Nat, NEW y, y = [x EXCEPT !.fprev = p]
  PROVE  Chunk(y, x.size, x.inuse, x.prevsz, x.fnext, p)
  BY DEF ChunkType, Chunk

\* A chunk with another size.
LEMMA Resized ==
  ASSUME NEW x \in ChunkType, NEW n \in Nat, NEW y, y = [x EXCEPT !.size = n]
  PROVE  Chunk(y, n, x.inuse, x.prevsz, x.fnext, x.fprev)
  BY DEF ChunkType, Chunk

\* A chunk with another size before it.
LEMMA Retagged ==
  ASSUME NEW x \in ChunkType, NEW n \in Nat, NEW y, y = [x EXCEPT !.prevsz = n]
  PROVE  Chunk(y, x.size, x.inuse, n, x.fnext, x.fprev)
  BY DEF ChunkType, Chunk

\* A chunk marked as free or in use.
LEMMA Marked ==
  ASSUME NEW x \in ChunkType, NEW b \in BOOLEAN, NEW y, y = [x EXCEPT !.inuse = b]
  PROVE  Chunk(y, x.size, b, x.prevsz, x.fnext, x.fprev)
  BY DEF ChunkType, Chunk

\* What fl_push() does, field by field.
LEMMA PushIs ==
  ASSUME NEW h, WellFormed(h), NEW c \in DOMAIN h.chunk
  PROVE  Pushed(h, fl_push(h, c), c)
  <1> DEFINE D == DOMAIN h.chunk
             ch == [a \in D |->
               IF a = c THEN [h.chunk[a] EXCEPT !.fprev = Null, !.fnext = h.rt_free]
               ELSE IF a = h.rt_free THEN [h.chunk[a] EXCEPT !.fprev = c] ELSE h.chunk[a]]
             g == fl_push(h, c)
  <1>1. /\ h = [chunk |-> h.chunk, rt_free |-> h.rt_free, rt_top |-> h.rt_top,
                rt_ready |-> h.rt_ready, end |-> h.end]
        /\ h.chunk \in [D -> ChunkType] /\ IsFiniteSet(D) /\ D \subseteq Nat \ {0}
        /\ h.rt_free \in Nat /\ h.rt_top \in Nat /\ h.rt_ready \in BOOLEAN
        /\ h.end \in FirstEnd .. AddrSpace /\ c \in Nat
    BY DEF WellFormed, HeapRecord
  <1>2. g = [h EXCEPT !.rt_free = c, !.chunk = ch]
    BY DEF fl_push
  <1>3. ASSUME NEW a \in D
        PROVE  /\ ch[a] \in ChunkType
               /\ ch[a].size = h.chunk[a].size /\ ch[a].inuse = h.chunk[a].inuse
               /\ ch[a].prevsz = h.chunk[a].prevsz
               /\ ch[a].fnext = IF a = c THEN h.rt_free ELSE h.chunk[a].fnext
               /\ ch[a].fprev =
                    IF a = c THEN Null ELSE IF a = h.rt_free THEN c ELSE h.chunk[a].fprev
    <2> DEFINE x == h.chunk[a]
    <2>1. x \in ChunkType
      BY <1>1
    <2>2. ch[a] = IF a = c THEN [x EXCEPT !.fprev = Null, !.fnext = h.rt_free]
                  ELSE IF a = h.rt_free THEN [x EXCEPT !.fprev = c] ELSE x
      OBVIOUS
    <2> DEFINE n0 == Null
               f0 == h.rt_free
    <2>3. n0 \in Nat /\ n0 = Null /\ f0 \in Nat /\ c \in Nat /\ x \in ChunkType /\ f0 = h.rt_free
      BY <1>1, <2>1 DEF Null
    <2>4. ch[a] = IF a = c THEN [x EXCEPT !.fprev = n0, !.fnext = f0]
                  ELSE IF a = f0 THEN [x EXCEPT !.fprev = c] ELSE x
      BY <2>2
    <2> HIDE DEF x, ch, n0, f0
    <2>5. CASE a = c
      <3>1. ch[a] = [x EXCEPT !.fprev = n0, !.fnext = f0]
        BY <2>4, <2>5
      <3>2. Chunk(ch[a], x.size, x.inuse, x.prevsz, f0, n0)
        BY <2>3, <3>1, Relinked
      <3> QED
        BY <2>3, <2>5, <3>2 DEF x, Chunk
    <2>6. CASE a # c /\ a = f0
      <3>1. ch[a] = [x EXCEPT !.fprev = c]
        BY <2>4, <2>6
      <3>2. Chunk(ch[a], x.size, x.inuse, x.prevsz, x.fnext, c)
        BY <2>3, <3>1, Backlinked
      <3> QED
        BY <2>3, <2>6, <3>2 DEF x, Chunk
    <2>7. CASE a # c /\ a # f0
      <3>1. ch[a] = x
        BY <2>4, <2>7
      <3> QED
        BY <2>3, <2>7, <3>1 DEF x
    <2> QED
      BY <2>5, <2>6, <2>7
  <1>4. ch \in [D -> ChunkType]
    <2>1. ch = [a \in D |-> ch[a]]
      OBVIOUS
    <2> HIDE DEF ch
    <2> QED
      BY <1>3, <2>1
  <1>5. DOMAIN ch = D
    OBVIOUS
  <1> HIDE DEF ch, g, D
  <1>6. /\ g = [chunk |-> ch, rt_free |-> c, rt_top |-> h.rt_top,
                rt_ready |-> h.rt_ready, end |-> h.end]
    BY <1>1, <1>2
  <1>7. g.chunk = ch /\ g.rt_free = c /\ g.rt_top = h.rt_top /\ g.rt_ready = h.rt_ready /\ g.end = h.end
    BY <1>6
  <1>8. WellFormed(g)
    BY <1>1, <1>4, <1>5, <1>6, <1>7 DEF WellFormed, HeapRecord
  <1>9. Pushed(h, g, c)
    BY <1>3, <1>5, <1>7, <1>8 DEF Pushed, SameTags, D
  <1> QED
    BY <1>9 DEF g

\* c is taken off the free list.
Dropped(h, g, c) ==
  /\ WellFormed(g) /\ DOMAIN g.chunk = DOMAIN h.chunk
  /\ g.rt_free = IF h.chunk[c].fprev = Null THEN h.chunk[c].fnext ELSE h.rt_free
  /\ g.rt_top = h.rt_top /\ g.rt_ready = h.rt_ready /\ g.end = h.end
  /\ SameTags(h, g, DOMAIN h.chunk)
  /\ \A a \in DOMAIN h.chunk :
       /\ g.chunk[a].fnext = IF a = c THEN Null
                             ELSE IF a = h.chunk[c].fprev THEN h.chunk[c].fnext ELSE h.chunk[a].fnext
       /\ g.chunk[a].fprev = IF a = c THEN Null
                             ELSE IF a = h.chunk[c].fnext THEN h.chunk[c].fprev ELSE h.chunk[a].fprev

\* What fl_drop() does, field by field.
LEMMA DropIs ==
  ASSUME NEW h, WellFormed(h), NEW c \in DOMAIN h.chunk
  PROVE  Dropped(h, fl_drop(h, c), c)
  <1> DEFINE D == DOMAIN h.chunk
             x == h.chunk[c]
             ch == [a \in D |->
               IF a = c THEN [h.chunk[a] EXCEPT !.fprev = Null, !.fnext = Null]
               ELSE [h.chunk[a] EXCEPT !.fnext = IF a = x.fprev THEN x.fnext ELSE @,
                                       !.fprev = IF a = x.fnext THEN x.fprev ELSE @]]
             first == IF x.fprev = Null THEN x.fnext ELSE h.rt_free
             g == fl_drop(h, c)
  <1>1. /\ h = [chunk |-> h.chunk, rt_free |-> h.rt_free, rt_top |-> h.rt_top,
                rt_ready |-> h.rt_ready, end |-> h.end]
        /\ h.chunk \in [D -> ChunkType] /\ IsFiniteSet(D) /\ D \subseteq Nat \ {0}
        /\ h.rt_free \in Nat /\ h.rt_top \in Nat /\ h.rt_ready \in BOOLEAN
        /\ h.end \in FirstEnd .. AddrSpace /\ c \in D
    BY DEF WellFormed, HeapRecord
  <1>2. g = [h EXCEPT !.rt_free = first, !.chunk = ch]
    BY DEF fl_drop
  <1>x. x \in ChunkType /\ x.fnext \in Nat /\ x.fprev \in Nat
    BY <1>1 DEF ChunkType
  <1> HIDE DEF x
  <1>3. ASSUME NEW a \in D
        PROVE  /\ ch[a] \in ChunkType
               /\ ch[a].size = h.chunk[a].size /\ ch[a].inuse = h.chunk[a].inuse
               /\ ch[a].prevsz = h.chunk[a].prevsz
               /\ ch[a].fnext = IF a = c THEN Null
                                ELSE IF a = x.fprev THEN x.fnext ELSE h.chunk[a].fnext
               /\ ch[a].fprev = IF a = c THEN Null
                                ELSE IF a = x.fnext THEN x.fprev ELSE h.chunk[a].fprev
    <2> DEFINE y == h.chunk[a]
               yn == IF a = x.fprev THEN x.fnext ELSE y.fnext
               yp == IF a = x.fnext THEN x.fprev ELSE y.fprev
    <2>1. y \in ChunkType /\ yn \in Nat /\ yp \in Nat
      BY <1>1, <1>x DEF ChunkType
    <2>2. ch[a] = IF a = c THEN [y EXCEPT !.fprev = Null, !.fnext = Null]
                  ELSE [y EXCEPT !.fnext = yn, !.fprev = yp]
      OBVIOUS
    <2> HIDE DEF y, ch, yn, yp
    <2> DEFINE n0 == Null
    <2>a. n0 \in Nat /\ n0 = Null
      BY DEF Null
    <2>b. ch[a] = IF a = c THEN [y EXCEPT !.fprev = n0, !.fnext = n0]
                  ELSE [y EXCEPT !.fnext = yn, !.fprev = yp]
      BY <2>2
    <2> HIDE DEF n0
    <2>3. /\ ch[a] \in ChunkType /\ ch[a].size = y.size /\ ch[a].inuse = y.inuse
          /\ ch[a].prevsz = y.prevsz
          /\ ch[a].fnext = (IF a = c THEN Null ELSE yn) /\ ch[a].fprev = (IF a = c THEN Null ELSE yp)
      <3>1. CASE a = c
        <4>1. ch[a] = [y EXCEPT !.fprev = n0, !.fnext = n0]
          BY <2>b, <3>1
        <4>2. Chunk(ch[a], y.size, y.inuse, y.prevsz, n0, n0)
          BY <2>1, <2>a, <4>1, Relinked
        <4> QED
          BY <2>a, <3>1, <4>2 DEF Chunk
      <3>2. CASE a # c
        <4>1. ch[a] = [y EXCEPT !.fnext = yn, !.fprev = yp]
          BY <2>b, <3>2
        <4>2. Chunk(ch[a], y.size, y.inuse, y.prevsz, yn, yp)
          BY <2>1, <4>1, Relinked
        <4> QED
          BY <3>2, <4>2 DEF Chunk
      <3> QED
        BY <3>1, <3>2
    <2> QED
      BY <2>3 DEF y, yn, yp
  <1>4. ch \in [D -> ChunkType]
    <2>1. ch = [a \in D |-> ch[a]]
      OBVIOUS
    <2> HIDE DEF ch
    <2> QED
      BY <1>3, <2>1
  <1>5. DOMAIN ch = D
    OBVIOUS
  <1>f. first \in Nat
    BY <1>1, <1>x
  <1> HIDE DEF ch, g, D, first
  <1>6. /\ g = [chunk |-> ch, rt_free |-> first, rt_top |-> h.rt_top,
                rt_ready |-> h.rt_ready, end |-> h.end]
    BY <1>1, <1>2
  <1>7. /\ g.chunk = ch /\ g.rt_free = first /\ g.rt_top = h.rt_top
        /\ g.rt_ready = h.rt_ready /\ g.end = h.end
    BY <1>6
  <1>8. WellFormed(g)
    BY <1>1, <1>4, <1>5, <1>6, <1>7, <1>f DEF WellFormed, HeapRecord
  <1>9. Dropped(h, g, c)
    BY <1>3, <1>5, <1>7, <1>8 DEF Dropped, SameTags, D, first, x
  <1> QED
    BY <1>9 DEF g

\* Memory from `at` on becomes one free chunk and the sentinel.
Topped(h, g, at, total, prevsz) ==
  /\ WellFormed(g) /\ DOMAIN g.chunk = {b \in DOMAIN h.chunk : b < at} \cup {at, at + total}
  /\ g.rt_free = at /\ g.rt_top = at + total /\ g.rt_ready = h.rt_ready /\ g.end = h.end
  /\ SameTags(h, g, {b \in DOMAIN h.chunk : b < at})
  /\ g.chunk[at].size = total /\ ~g.chunk[at].inuse /\ g.chunk[at].prevsz = prevsz
  /\ g.chunk[at].fnext = h.rt_free /\ g.chunk[at].fprev = Null
  /\ g.chunk[at + total].size = RT_HDR /\ g.chunk[at + total].inuse
  /\ g.chunk[at + total].prevsz = total
  /\ g.chunk[at + total].fnext = Null /\ g.chunk[at + total].fprev = Null
  /\ \A b \in DOMAIN h.chunk : b < at =>
       /\ g.chunk[b].fnext = h.chunk[b].fnext
       /\ g.chunk[b].fprev = IF b = h.rt_free THEN at ELSE h.chunk[b].fprev

\* What rt_settop() does, field by field.
LEMMA SettopIs ==
  ASSUME NEW h, WellFormed(h), NEW at \in Nat \ {0}, NEW total \in Nat \ {0}, NEW prevsz \in Nat,
         h.rt_free < at
  PROVE  Topped(h, rt_settop(h, at, total, prevsz), at, total, prevsz)
  <1> DEFINE D == DOMAIN h.chunk
             B == {b \in D : b < at}
             E == B \cup {at, at + total}
             body == [NoChunk EXCEPT !.size = total, !.prevsz = prevsz]
             last == [NoChunk EXCEPT !.size = RT_HDR, !.inuse = TRUE, !.prevsz = total]
             ch == [a \in E |-> IF a = at THEN body ELSE IF a < at THEN h.chunk[a] ELSE last]
             k == [h EXCEPT !.rt_top = at + total, !.chunk = ch]
             g == fl_push(k, at)
  <1>1. /\ h = [chunk |-> h.chunk, rt_free |-> h.rt_free, rt_top |-> h.rt_top,
                rt_ready |-> h.rt_ready, end |-> h.end]
        /\ h.chunk \in [D -> ChunkType] /\ IsFiniteSet(D) /\ D \subseteq Nat \ {0}
        /\ h.rt_free \in Nat /\ h.rt_top \in Nat /\ h.rt_ready \in BOOLEAN
        /\ h.end \in FirstEnd .. AddrSpace
    BY DEF WellFormed, HeapRecord
  <1>2. rt_settop(h, at, total, prevsz) = g
    BY DEF rt_settop
  <1>3. RT_HDR \in Nat
    BY Units, AlignIs
  <1>4. /\ body \in ChunkType /\ body.size = total /\ ~body.inuse /\ body.prevsz = prevsz
    BY DEF NoChunk, ChunkType, Null
  <1>5. /\ last \in ChunkType /\ last.size = RT_HDR /\ last.inuse /\ last.prevsz = total
        /\ last.fnext = Null /\ last.fprev = Null
    BY <1>3 DEF NoChunk, ChunkType, Null
  <1>6. E \subseteq Nat \ {0} /\ IsFiniteSet(E)
    <2>1. IsFiniteSet(B)
      BY <1>1, FS_Subset
    <2>2. IsFiniteSet({at} \cup {at + total}) /\ {at, at + total} = {at} \cup {at + total}
      BY FS_Singleton, FS_Union
    <2>3. IsFiniteSet(E)
      BY <2>1, <2>2, FS_Union
    <2> QED
      BY <1>1, <2>3
  <1> HIDE DEF body, last
  <1>7. ch \in [E -> ChunkType]
    <2>1. ASSUME NEW a \in E  PROVE ch[a] \in ChunkType
      <3>1. CASE a \in B
        <4>1. ch[a] = h.chunk[a]
          BY <1>1, <3>1
        <4> QED
          BY <1>1, <3>1, <4>1
      <3>2. CASE a \notin B
        BY <1>4, <1>5, <3>2
      <3> QED
        BY <3>1, <3>2
    <2> QED
      BY <2>1
  <1>8. /\ ch[at] = body /\ ch[at + total] = last /\ at # at + total
        /\ \A b \in B : ch[b] = h.chunk[b]
    BY <1>1
  <1>9. DOMAIN ch = E
    OBVIOUS
  <1> HIDE DEF ch, E
  <1>10. /\ k.chunk = ch /\ k.rt_free = h.rt_free /\ k.rt_top = at + total
         /\ k.rt_ready = h.rt_ready /\ k.end = h.end
    BY <1>1
  <1>11. HeapRecord(k)
    <2>1. h = [chunk |-> h.chunk, rt_free |-> h.rt_free, rt_top |-> h.rt_top,
                rt_ready |-> h.rt_ready, end |-> h.end]
      BY <1>1
    <2> DEFINE t == at + total
    <2>2. k = [h EXCEPT !.rt_top = t, !.chunk = ch]
      OBVIOUS
    <2> HIDE DEF t, k
    <2>3. k = [chunk |-> ch, rt_free |-> h.rt_free, rt_top |-> t,
               rt_ready |-> h.rt_ready, end |-> h.end]
      BY ONLY <2>1, <2>2
    <2> QED
      BY <1>10, <2>3 DEF HeapRecord, t
  <1> HIDE DEF k
  <1>12. WellFormed(k)
    BY <1>1, <1>6, <1>7, <1>9, <1>10, <1>11 DEF WellFormed
  <1>13. at \in E /\ at + total \in E /\ B \subseteq E
    BY DEF E
  <1>14. at \in DOMAIN k.chunk
    BY <1>9, <1>10, <1>13
  <1>15. Pushed(k, g, at)
    BY <1>12, <1>14, PushIs
  <1> HIDE DEF g
  <1>16. WellFormed(g) /\ DOMAIN g.chunk = E
    BY <1>9, <1>10, <1>15 DEF Pushed
  <1>17. g.rt_free = at /\ g.rt_top = at + total /\ g.rt_ready = h.rt_ready /\ g.end = h.end
    BY <1>10, <1>15 DEF Pushed
  <1>18. \A a \in E : /\ g.chunk[a].size = ch[a].size /\ g.chunk[a].inuse = ch[a].inuse
                      /\ g.chunk[a].prevsz = ch[a].prevsz
                      /\ g.chunk[a].fnext = IF a = at THEN h.rt_free ELSE ch[a].fnext
                      /\ g.chunk[a].fprev = IF a = at THEN Null ELSE IF a = h.rt_free THEN at ELSE ch[a].fprev
    BY <1>9, <1>10, <1>15 DEF Pushed, SameTags
  <1>19. /\ g.chunk[at].size = total /\ ~g.chunk[at].inuse /\ g.chunk[at].prevsz = prevsz
         /\ g.chunk[at].fnext = h.rt_free /\ g.chunk[at].fprev = Null
    BY <1>4, <1>8, <1>13, <1>18
  <1>20. /\ g.chunk[at + total].size = RT_HDR /\ g.chunk[at + total].inuse
         /\ g.chunk[at + total].prevsz = total
         /\ g.chunk[at + total].fnext = Null /\ g.chunk[at + total].fprev = Null
    <2>1. at + total # at /\ at + total # h.rt_free
      BY <1>1
    <2> QED
      BY <1>5, <1>8, <1>13, <1>18, <2>1
  <1>21. SameTags(h, g, B)
    BY <1>8, <1>13, <1>18 DEF SameTags
  <1>22. ASSUME NEW b \in D, b < at
         PROVE  /\ g.chunk[b].fnext = h.chunk[b].fnext
                /\ g.chunk[b].fprev = IF b = h.rt_free THEN at ELSE h.chunk[b].fprev
    <2>1. b \in B /\ b # at
      BY <1>1, <1>22
    <2>2. b \in E /\ ch[b] = h.chunk[b]
      BY <1>8, <1>13, <2>1
    <2> QED
      BY <1>18, <2>1, <2>2
  <1> QED
    BY <1>2, <1>16, <1>17, <1>19, <1>20, <1>21, <1>22 DEF Topped, E

\* Other chunks in the same memory.
Rechunked(h, g, ch) ==
  /\ WellFormed(g) /\ g.chunk = ch
  /\ g.rt_free = h.rt_free /\ g.rt_top = h.rt_top /\ g.rt_ready = h.rt_ready /\ g.end = h.end

\* A heap whose chunks are replaced stays well formed.
LEMMA RechunkIs ==
  ASSUME NEW h, WellFormed(h), NEW E, IsFiniteSet(E), E \subseteq Nat \ {0},
         NEW ch \in [E -> ChunkType]
  PROVE  Rechunked(h, [h EXCEPT !.chunk = ch], ch)
  <1> DEFINE g == [h EXCEPT !.chunk = ch]
  <1>1. h = [chunk |-> h.chunk, rt_free |-> h.rt_free, rt_top |-> h.rt_top,
             rt_ready |-> h.rt_ready, end |-> h.end]
    BY DEF WellFormed, HeapRecord
  <1>2. g = [chunk |-> ch, rt_free |-> h.rt_free, rt_top |-> h.rt_top,
             rt_ready |-> h.rt_ready, end |-> h.end]
    BY ONLY <1>1
  <1> HIDE DEF g
  <1>3. /\ g.chunk = ch /\ g.rt_free = h.rt_free /\ g.rt_top = h.rt_top
        /\ g.rt_ready = h.rt_ready /\ g.end = h.end
    BY <1>2
  <1>4. DOMAIN ch = E
    OBVIOUS
  <1>5. WellFormed(g)
    BY <1>2, <1>3, <1>4 DEF WellFormed, HeapRecord
  <1>6. Rechunked(h, g, ch)
    BY <1>3, <1>5 DEF Rechunked
  <1> QED
    BY <1>6 DEF g

\* One chunk is marked, or the size before it is.
Set(h, g, c, inuse, prevsz) ==
  /\ WellFormed(g) /\ DOMAIN g.chunk = DOMAIN h.chunk
  /\ g.rt_free = h.rt_free /\ g.rt_top = h.rt_top /\ g.rt_ready = h.rt_ready /\ g.end = h.end
  /\ SameLinks(h, g, DOMAIN h.chunk)
  /\ SameTags(h, g, DOMAIN h.chunk \ {c})
  /\ g.chunk[c].size = h.chunk[c].size /\ g.chunk[c].inuse = inuse /\ g.chunk[c].prevsz = prevsz

\* One chunk is replaced by one with the same links and size.
LEMMA OneChunk ==
  ASSUME NEW h, WellFormed(h), NEW c \in DOMAIN h.chunk, NEW y, NEW b, NEW p,
         Chunk(y, h.chunk[c].size, b, p, h.chunk[c].fnext, h.chunk[c].fprev)
  PROVE  Set(h, [h EXCEPT !.chunk[c] = y], c, b, p)
  <1> DEFINE D == DOMAIN h.chunk
             ch == [h.chunk EXCEPT ![c] = y]
             g == [h EXCEPT !.chunk = ch]
  <1>1. /\ h.chunk \in [D -> ChunkType] /\ IsFiniteSet(D) /\ D \subseteq Nat \ {0} /\ c \in D
        /\ y \in ChunkType
    BY DEF WellFormed, Chunk
  <1>2. ch \in [D -> ChunkType] /\ ch[c] = y /\ \A a \in D \ {c} : ch[a] = h.chunk[a]
    BY <1>1
  <1>3. [h EXCEPT !.chunk[c] = y] = g
    OBVIOUS
  <1>4. DOMAIN ch = D
    OBVIOUS
  <1> HIDE DEF ch
  <1>5. Rechunked(h, g, ch)
    BY <1>1, <1>2, RechunkIs
  <1> HIDE DEF g
  <1>6. Set(h, g, c, b, p)
    BY <1>1, <1>2, <1>4, <1>5 DEF Rechunked, Set, SameLinks, SameTags, Chunk
  <1> QED
    BY <1>3, <1>6

\* A chunk is marked as in use or free.
LEMMA MarkIs ==
  ASSUME NEW h, WellFormed(h), NEW c \in DOMAIN h.chunk, NEW b \in BOOLEAN
  PROVE  Set(h, [h EXCEPT !.chunk[c].inuse = b], c, b, h.chunk[c].prevsz)
  <1> DEFINE x == h.chunk[c]
             y == [x EXCEPT !.inuse = b]
  <1>1. [h EXCEPT !.chunk[c].inuse = b] = [h EXCEPT !.chunk[c] = y]
    OBVIOUS
  <1>2. x \in ChunkType
    BY DEF WellFormed
  <1>3. Chunk(y, x.size, b, x.prevsz, x.fnext, x.fprev)
    BY <1>2, Marked
  <1> HIDE DEF y
  <1>4. Set(h, [h EXCEPT !.chunk[c] = y], c, b, h.chunk[c].prevsz)
    BY <1>3, OneChunk
  <1> QED
    BY <1>1, <1>4

\* A chunk is told how large the one before it is.
LEMMA TagIs ==
  ASSUME NEW h, WellFormed(h), NEW c \in DOMAIN h.chunk, NEW n \in Nat
  PROVE  Set(h, [h EXCEPT !.chunk[c].prevsz = n], c, h.chunk[c].inuse, n)
  <1> DEFINE x == h.chunk[c]
             y == [x EXCEPT !.prevsz = n]
  <1>1. [h EXCEPT !.chunk[c].prevsz = n] = [h EXCEPT !.chunk[c] = y]
    OBVIOUS
  <1>2. x \in ChunkType
    BY DEF WellFormed
  <1>3. Chunk(y, x.size, x.inuse, n, x.fnext, x.fprev)
    BY <1>2, Retagged
  <1> HIDE DEF y
  <1>4. Set(h, [h EXCEPT !.chunk[c] = y], c, h.chunk[c].inuse, n)
    BY <1>3, OneChunk
  <1> QED
    BY <1>1, <1>4

\* Chunk n is gone, and its bytes are c's.
Absorbed(h, g, c, n) ==
  /\ WellFormed(g) /\ DOMAIN g.chunk = DOMAIN h.chunk \ {n}
  /\ g.rt_free = h.rt_free /\ g.rt_top = h.rt_top /\ g.rt_ready = h.rt_ready /\ g.end = h.end
  /\ SameLinks(h, g, DOMAIN h.chunk \ {n})
  /\ SameTags(h, g, DOMAIN h.chunk \ {c, n})
  /\ g.chunk[c].size = h.chunk[c].size + h.chunk[n].size
  /\ g.chunk[c].inuse = h.chunk[c].inuse /\ g.chunk[c].prevsz = h.chunk[c].prevsz

\* What joining two neighbours does, field by field.
LEMMA AbsorbIs ==
  ASSUME NEW h, WellFormed(h), NEW c \in DOMAIN h.chunk, NEW n \in DOMAIN h.chunk, c # n
  PROVE  Absorbed(h, Absorb(h, c, n), c, n)
  <1> DEFINE D == DOMAIN h.chunk
             E == D \ {n}
             x == h.chunk[c]
             size == x.size + h.chunk[n].size
             y == [x EXCEPT !.size = size]
             ch == [a \in E |-> IF a = c THEN [h.chunk[a] EXCEPT !.size = size] ELSE h.chunk[a]]
             g == [h EXCEPT !.chunk = ch]
  <1>1. /\ h.chunk \in [D -> ChunkType] /\ IsFiniteSet(D) /\ D \subseteq Nat \ {0}
        /\ IsFiniteSet(E) /\ E \subseteq Nat \ {0} /\ c \in E /\ n \in D
    BY FS_Subset DEF WellFormed
  <1>2. x \in ChunkType /\ size \in Nat
    BY <1>1 DEF ChunkType
  <1>3. Absorb(h, c, n) = g
    BY DEF Absorb
  <1>4. Chunk(y, size, x.inuse, x.prevsz, x.fnext, x.fprev)
    <2> HIDE DEF size, x
    <2> QED
      BY <1>2, Resized
  <1>5. ch = [a \in E |-> IF a = c THEN y ELSE h.chunk[a]]
    OBVIOUS
  <1> HIDE DEF y, ch, size
  <1>6. ch \in [E -> ChunkType] /\ ch[c] = y /\ \A a \in E \ {c} : ch[a] = h.chunk[a]
    BY <1>1, <1>4, <1>5 DEF Chunk
  <1>7. DOMAIN ch = E
    BY <1>6
  <1>8. Rechunked(h, g, ch)
    BY <1>1, <1>6, RechunkIs
  <1> HIDE DEF g
  <1>9. Absorbed(h, g, c, n)
    BY <1>1, <1>4, <1>6, <1>7, <1>8 DEF Rechunked, Absorbed, SameLinks, SameTags, Chunk, size
  <1> QED
    BY <1>3, <1>9

\* The bytes of c from `need` on are a chunk r of their own, at the head of the list.
Halved(h, g, c, r, need) ==
  LET rest == h.chunk[c].size - need IN
  /\ WellFormed(g) /\ DOMAIN g.chunk = DOMAIN h.chunk \cup {r}
  /\ g.rt_free = r /\ g.rt_top = h.rt_top /\ g.rt_ready = h.rt_ready /\ g.end = h.end
  /\ SameTags(h, g, DOMAIN h.chunk \ {c, nextc(h, c)})
  /\ g.chunk[c].size = need /\ g.chunk[c].inuse = h.chunk[c].inuse
  /\ g.chunk[c].prevsz = h.chunk[c].prevsz
  /\ g.chunk[r].size = rest /\ ~g.chunk[r].inuse /\ g.chunk[r].prevsz = need
  /\ g.chunk[nextc(h, c)].size = h.chunk[nextc(h, c)].size
  /\ g.chunk[nextc(h, c)].inuse = h.chunk[nextc(h, c)].inuse
  /\ g.chunk[nextc(h, c)].prevsz = rest
  /\ g.chunk[r].fnext = h.rt_free /\ g.chunk[r].fprev = Null
  /\ \A a \in DOMAIN h.chunk :
       /\ g.chunk[a].fnext = h.chunk[a].fnext
       /\ g.chunk[a].fprev = IF a = h.rt_free THEN r ELSE h.chunk[a].fprev

\* What splitting a chunk does, field by field.
LEMMA SplitIs ==
  ASSUME NEW h, WellFormed(h), NEW c \in DOMAIN h.chunk, NEW need \in Nat \ {0},
         need < h.chunk[c].size, c + need \notin DOMAIN h.chunk, nextc(h, c) \in DOMAIN h.chunk
  PROVE  Halved(h, Split(h, c, need), c, c + need, need)
  <1> DEFINE D == DOMAIN h.chunk
             r == c + need
             n == nextc(h, c)
             rest == h.chunk[c].size - need
             E == D \cup {r}
             new == [NoChunk EXCEPT !.size = rest, !.prevsz = need]
             x == h.chunk[c]
             y == [x EXCEPT !.size = need]
             u == h.chunk[n]
             v == [u EXCEPT !.prevsz = rest]
             ch == [a \in E |->
                      IF a = r THEN [NoChunk EXCEPT !.size = rest, !.prevsz = need]
                      ELSE IF a = c THEN [h.chunk[a] EXCEPT !.size = need]
                      ELSE IF a = n THEN [h.chunk[a] EXCEPT !.prevsz = rest] ELSE h.chunk[a]]
             k == [h EXCEPT !.chunk = ch]
             g == fl_push(k, r)
  <1>1. /\ h.chunk \in [D -> ChunkType] /\ IsFiniteSet(D) /\ D \subseteq Nat \ {0}
        /\ c \in D /\ n \in D /\ c \in Nat /\ r \in Nat \ {0} /\ r \notin D
    BY DEF WellFormed
  <1>2. x \in ChunkType /\ u \in ChunkType /\ x.size \in Nat /\ rest \in Nat \ {0}
    BY <1>1 DEF ChunkType
  <1>a. n # c
    <2>1. n = c + x.size
      BY DEF nextc
    <2> HIDE DEF n, x
    <2> QED
      BY <1>1, <1>2, <2>1 DEF x
  <1>3. Split(h, c, need) = g
    BY DEF Split
  <1>4. Chunk(y, need, x.inuse, x.prevsz, x.fnext, x.fprev)
    BY <1>2, Resized
  <1>5. Chunk(v, u.size, u.inuse, rest, u.fnext, u.fprev)
    <2>1. rest \in Nat /\ u \in ChunkType
      BY <1>2
    <2> HIDE DEF rest, u
    <2> QED
      BY <2>1, Retagged
  <1>6. new \in ChunkType /\ new.size = rest /\ ~new.inuse /\ new.prevsz = need
    <2>1. rest \in Nat
      BY <1>2
    <2> HIDE DEF rest
    <2> QED
      BY <2>1 DEF NoChunk, ChunkType, Null
  <1>7. ch = [a \in E |-> IF a = r THEN new ELSE IF a = c THEN y ELSE IF a = n THEN v ELSE h.chunk[a]]
    OBVIOUS
  <1>8. IsFiniteSet(E) /\ E \subseteq Nat \ {0} /\ r \in E /\ c \in E /\ n \in E /\ D \subseteq E
    BY <1>1, FS_AddElement
  <1>b. rest = h.chunk[c].size - need /\ n = nextc(h, c) /\ r = c + need /\ E = D \cup {r}
    OBVIOUS
  <1> HIDE DEF ch, new, y, v, r, n, rest, E
  <1>9. /\ ch \in [E -> ChunkType] /\ ch[r] = new /\ ch[c] = y /\ ch[n] = v
        /\ \A a \in D \ {c, n} : ch[a] = h.chunk[a]
    <2>1. y \in ChunkType /\ v \in ChunkType /\ new \in ChunkType
      BY <1>4, <1>5, <1>6 DEF Chunk
    <2>2. ASSUME NEW a \in E  PROVE ch[a] \in ChunkType
      <3>1. a \in D => h.chunk[a] \in ChunkType
        BY <1>1
      <3>2. a = r \/ a \in D
        BY <1>b
      <3>3. ch[a] = IF a = r THEN new ELSE IF a = c THEN y ELSE IF a = n THEN v ELSE h.chunk[a]
        BY <1>7
      <3> QED
        BY <2>1, <3>1, <3>2, <3>3
    <2>3. ch \in [E -> ChunkType]
      BY <1>7, <2>2
    <2>4. c # r /\ n # r /\ r \notin D
      BY <1>1
    <2> QED
      BY <1>7, <1>8, <1>a, <2>3, <2>4
  <1>10. DOMAIN ch = E
    BY <1>9
  <1>11. Rechunked(h, k, ch)
    BY <1>8, <1>9, RechunkIs
  <1> HIDE DEF k
  <1>12. WellFormed(k) /\ r \in DOMAIN k.chunk
    BY <1>8, <1>10, <1>11 DEF Rechunked
  <1>13. Pushed(k, g, r)
    BY <1>12, PushIs
  <1> HIDE DEF g
  <1>14. /\ WellFormed(g) /\ DOMAIN g.chunk = E
         /\ g.rt_free = r /\ g.rt_top = h.rt_top /\ g.rt_ready = h.rt_ready /\ g.end = h.end
    BY <1>10, <1>11, <1>13 DEF Pushed, Rechunked
  <1>15. \A a \in E : /\ g.chunk[a].size = ch[a].size /\ g.chunk[a].inuse = ch[a].inuse
                      /\ g.chunk[a].prevsz = ch[a].prevsz
                      /\ g.chunk[a].fnext = IF a = r THEN h.rt_free ELSE ch[a].fnext
                      /\ g.chunk[a].fprev = IF a = r THEN Null ELSE IF a = h.rt_free THEN r ELSE ch[a].fprev
    BY <1>10, <1>11, <1>13 DEF Pushed, Rechunked, SameTags
  <1>16. SameTags(h, g, D \ {c, n})
    BY <1>8, <1>9, <1>15 DEF SameTags
  <1>17. /\ g.chunk[c].size = need /\ g.chunk[c].inuse = x.inuse /\ g.chunk[c].prevsz = x.prevsz
         /\ g.chunk[r].size = rest /\ ~g.chunk[r].inuse /\ g.chunk[r].prevsz = need
         /\ g.chunk[r].fnext = h.rt_free /\ g.chunk[r].fprev = Null
         /\ g.chunk[n].size = u.size /\ g.chunk[n].inuse = u.inuse /\ g.chunk[n].prevsz = rest
    BY <1>4, <1>5, <1>6, <1>8, <1>9, <1>15 DEF Chunk
  <1>18. \A a \in D : /\ g.chunk[a].fnext = h.chunk[a].fnext
                      /\ g.chunk[a].fprev = IF a = h.rt_free THEN r ELSE h.chunk[a].fprev
    <2> SUFFICES ASSUME NEW a \in D
                 PROVE  /\ g.chunk[a].fnext = h.chunk[a].fnext
                        /\ g.chunk[a].fprev = IF a = h.rt_free THEN r ELSE h.chunk[a].fprev
      OBVIOUS
    <2>1. a \in E /\ a # r
      BY <1>1, <1>8
    <2>2. ch[a].fnext = h.chunk[a].fnext /\ ch[a].fprev = h.chunk[a].fprev
      BY <1>4, <1>5, <1>9 DEF Chunk
    <2> QED
      BY <1>15, <2>1, <2>2
  <1>19. Halved(h, g, c, r, need)
    BY <1>14, <1>16, <1>17, <1>18, <1>b DEF Halved
  <1> QED
    BY <1>3, <1>19 DEF r

-----------------------------------------------------------------------------
(* Boundary tags.                                                           *)

\* The sentinel lies inside memory.
HasTop(h) ==
  /\ h.rt_top \in DOMAIN h.chunk /\ h.chunk[h.rt_top].inuse /\ h.chunk[h.rt_top].size = RT_HDR
  /\ Aligned(h.rt_top) /\ h.rt_top + RT_HDR <= h.end

\* A chunk is aligned and ends where another begins.
Solid(h, c) ==
  /\ Aligned(c) /\ Aligned(h.chunk[c].size) /\ h.chunk[c].size >= RT_MIN
  /\ nextc(h, c) \in DOMAIN h.chunk

\* The sizes lead from chunk to chunk and back, except that the chunk at d, if there is
\* one, has yet to be told how large the one before it has become.
Tags(h, d) ==
  /\ WellFormed(h) /\ HasTop(h)
  /\ \A c \in DOMAIN h.chunk \ {h.rt_top} :
       Solid(h, c) /\ (nextc(h, c) # d => h.chunk[nextc(h, c)].prevsz = h.chunk[c].size)
  /\ \A a, c \in DOMAIN h.chunk : a < c => a # h.rt_top /\ nextc(h, a) <= c
  /\ \A c \in DOMAIN h.chunk : c # d /\ h.chunk[c].prevsz # 0 =>
       /\ c - h.chunk[c].prevsz \in DOMAIN h.chunk
       /\ nextc(h, c - h.chunk[c].prevsz) = c

\* The fields of a chunk are numbers of bytes, addresses and a mark.
LEMMA ChunkFacts ==
  ASSUME NEW h, WellFormed(h), NEW c \in DOMAIN h.chunk
  PROVE  /\ c \in Nat \ {0} /\ h.chunk[c].size \in Nat /\ h.chunk[c].prevsz \in Nat
         /\ h.chunk[c].inuse \in BOOLEAN /\ h.chunk[c].fnext \in Nat /\ h.chunk[c].fprev \in Nat
         /\ nextc(h, c) = c + h.chunk[c].size /\ nextc(h, c) \in Nat
  BY DEF WellFormed, ChunkType, nextc

\* The chunk after another, and that nothing lies between them.
LEMMA SolidFacts ==
  ASSUME NEW h, NEW d, Tags(h, d), NEW c \in DOMAIN h.chunk, c # h.rt_top
  PROVE  /\ Solid(h, c) /\ nextc(h, c) \in DOMAIN h.chunk /\ c < nextc(h, c)
         /\ c + RT_MIN <= nextc(h, c) /\ nextc(h, c) <= h.rt_top /\ Aligned(nextc(h, c))
         /\ (nextc(h, c) # d => h.chunk[nextc(h, c)].prevsz = h.chunk[c].size)
         /\ \A a \in DOMAIN h.chunk : c < a => nextc(h, c) <= a
         /\ \A a \in DOMAIN h.chunk : a < nextc(h, c) => a <= c
  <1>1. /\ Solid(h, c) /\ (nextc(h, c) # d => h.chunk[nextc(h, c)].prevsz = h.chunk[c].size)
        /\ WellFormed(h) /\ HasTop(h)
    BY DEF Tags
  <1>2. nextc(h, c) \in DOMAIN h.chunk /\ h.chunk[c].size >= RT_MIN /\ h.rt_top \in DOMAIN h.chunk
    BY <1>1 DEF Solid, HasTop
  <1>3. /\ c \in Nat /\ h.chunk[c].size \in Nat /\ nextc(h, c) = c + h.chunk[c].size
        /\ nextc(h, c) \in Nat /\ h.rt_top \in Nat
    BY <1>1, <1>2, ChunkFacts
  <1>4. RT_MIN \in Nat /\ RT_MIN > 0
    BY Units, AlignIs
  <1>5. c < nextc(h, c) /\ c + RT_MIN <= nextc(h, c)
    BY <1>2, <1>3, <1>4
  <1>6. \A a \in DOMAIN h.chunk : c < a => nextc(h, c) <= a
    BY DEF Tags
  <1>7. \A a \in DOMAIN h.chunk : a < nextc(h, c) => a <= c
    <2> SUFFICES ASSUME NEW a \in DOMAIN h.chunk, a < nextc(h, c), ~(a <= c)  PROVE FALSE
      OBVIOUS
    <2>1. a \in Nat
      BY <1>1, ChunkFacts
    <2>2. c < a
      BY <1>3, <2>1
    <2> QED
      BY <1>3, <1>6, <2>1, <2>2
  <1>8. nextc(h, c) <= h.rt_top
    <2>1. ~(nextc(h, c) > h.rt_top)
      BY <1>2 DEF Tags
    <2> QED
      BY <1>3, <2>1
  <1>9. Aligned(nextc(h, c))
    <2> DEFINE z == h.chunk[c].size
    <2>1. Aligned(c) /\ Aligned(z) /\ c \in Int /\ z \in Int /\ nextc(h, c) = c + z
      BY <1>1, <1>3 DEF Solid
    <2> HIDE DEF z
    <2>2. Aligned(c + z)
      BY <2>1, AlignedSum
    <2> QED
      BY <2>1, <2>2
  <1> QED
    BY <1>1, <1>2, <1>5, <1>6, <1>7, <1>8, <1>9

\* The chunk before another, by its tag.
LEMMA PrevFacts ==
  ASSUME NEW h, NEW d, Tags(h, d), NEW c \in DOMAIN h.chunk, c # d
  PROVE  /\ prevc(h, c) \in Nat
         /\ prevc(h, c) # Null =>
              /\ prevc(h, c) \in DOMAIN h.chunk /\ prevc(h, c) # h.rt_top
              /\ nextc(h, prevc(h, c)) = c /\ prevc(h, c) < c
         /\ \A p \in DOMAIN h.chunk : p # h.rt_top /\ nextc(h, p) = c => prevc(h, c) = p
  <1> DEFINE s == h.chunk[c].prevsz
             p == prevc(h, c)
  <1>1. WellFormed(h) /\ HasTop(h)
    BY DEF Tags
  <1>2. c \in Nat \ {0} /\ s \in Nat /\ p = IF s = 0 THEN Null ELSE c - s
    BY <1>1, ChunkFacts DEF prevc
  <1>3. s # 0 => c - s \in DOMAIN h.chunk /\ nextc(h, c - s) = c
    BY DEF Tags
  <1> HIDE DEF s, p
  <1>4. s # 0 => p \in DOMAIN h.chunk /\ p \in Nat \ {0} /\ nextc(h, p) = c /\ p < c
    <2> SUFFICES ASSUME s # 0  PROVE p \in DOMAIN h.chunk /\ p \in Nat \ {0} /\ nextc(h, p) = c /\ p < c
      OBVIOUS
    <2>1. p = c - s /\ p \in DOMAIN h.chunk /\ nextc(h, p) = c
      BY <1>2, <1>3
    <2>2. p \in Nat \ {0}
      BY <1>1, <2>1, ChunkFacts
    <2> QED
      BY <1>2, <2>1, <2>2
  <1>5. p # Null => s # 0
    BY <1>2
  <1>6. p # Null => p # h.rt_top
    <2>1. \A a \in DOMAIN h.chunk : a < c => a # h.rt_top
      BY DEF Tags
    <2> QED
      BY <1>4, <1>5, <2>1
  <1>7. p \in Nat
    BY <1>2, <1>4 DEF Null
  <1>8. ASSUME NEW q \in DOMAIN h.chunk, q # h.rt_top, nextc(h, q) = c  PROVE p = q
    <2>1. h.chunk[c].prevsz = h.chunk[q].size /\ Solid(h, q)
      BY <1>8 DEF Tags
    <2>2. /\ q \in Nat /\ h.chunk[q].size \in Nat /\ c = q + h.chunk[q].size
      BY <1>1, <1>8, ChunkFacts
    <2>3. h.chunk[q].size >= RT_MIN /\ RT_MIN \in Nat /\ RT_MIN > 0
      BY <2>1, Units, AlignIs DEF Solid
    <2> DEFINE z == h.chunk[q].size
    <2>4. s = z /\ z \in Nat /\ z > 0 /\ c = q + z
      BY <2>1, <2>2, <2>3 DEF s
    <2> HIDE DEF z
    <2> QED
      BY <1>2, <2>2, <2>4
  <1> QED
    BY <1>4, <1>5, <1>6, <1>7, <1>8 DEF p

\* What leaves sizes, sentinel and memory alone leaves the tags right.
LEMMA TagsKept ==
  ASSUME NEW h, NEW d, Tags(h, d), NEW g, WellFormed(g), DOMAIN g.chunk = DOMAIN h.chunk,
         g.rt_top = h.rt_top, g.end = h.end, g.chunk[h.rt_top].inuse,
         \A a \in DOMAIN h.chunk : /\ g.chunk[a].size = h.chunk[a].size
                                   /\ g.chunk[a].prevsz = h.chunk[a].prevsz
  PROVE  Tags(g, d)
  <1> DEFINE D == DOMAIN h.chunk
  <1>1. HasTop(g)
    BY DEF Tags, HasTop
  <1>2. \A a \in D : nextc(g, a) = nextc(h, a)
    BY DEF nextc
  <1>3. ASSUME NEW c \in D, c # h.rt_top
        PROVE  Solid(g, c) /\ (nextc(g, c) # d => g.chunk[nextc(g, c)].prevsz = g.chunk[c].size)
    <2>1. /\ Solid(h, c) /\ (nextc(h, c) # d => h.chunk[nextc(h, c)].prevsz = h.chunk[c].size)
          /\ nextc(g, c) = nextc(h, c)
      BY <1>2, <1>3 DEF Tags
    <2> QED
      BY <2>1 DEF Solid
  <1>4. ASSUME NEW a \in D, NEW c \in D, a < c  PROVE a # g.rt_top /\ nextc(g, a) <= c
    BY <1>2, <1>4 DEF Tags
  <1>5. ASSUME NEW c \in D, c # d, g.chunk[c].prevsz # 0
        PROVE  c - g.chunk[c].prevsz \in D /\ nextc(g, c - g.chunk[c].prevsz) = c
    <2>1. g.chunk[c].prevsz = h.chunk[c].prevsz
      OBVIOUS
    <2>2. c - h.chunk[c].prevsz \in D /\ nextc(h, c - h.chunk[c].prevsz) = c
      BY <1>5, <2>1 DEF Tags
    <2> QED
      BY <1>2, <2>1, <2>2
  <1> QED
    BY <1>1, <1>3, <1>4, <1>5 DEF Tags

\* The free list has nothing to do with the tags: pushing a chunk,
LEMMA TagsPushed ==
  ASSUME NEW h, NEW d, Tags(h, d), NEW g, NEW c, Pushed(h, g, c)
  PROVE  Tags(g, d)
  <1>1. /\ WellFormed(g) /\ DOMAIN g.chunk = DOMAIN h.chunk /\ g.rt_top = h.rt_top /\ g.end = h.end
        /\ \A a \in DOMAIN h.chunk : /\ g.chunk[a].size = h.chunk[a].size
                                     /\ g.chunk[a].prevsz = h.chunk[a].prevsz
                                     /\ g.chunk[a].inuse = h.chunk[a].inuse
    BY DEF Pushed, SameTags
  <1>2. g.chunk[h.rt_top].inuse
    BY <1>1 DEF Tags, HasTop
  <1> QED
    BY <1>1, <1>2, TagsKept

\* dropping one,
LEMMA TagsDropped ==
  ASSUME NEW h, NEW d, Tags(h, d), NEW g, NEW c, Dropped(h, g, c)
  PROVE  Tags(g, d)
  <1>1. /\ WellFormed(g) /\ DOMAIN g.chunk = DOMAIN h.chunk /\ g.rt_top = h.rt_top /\ g.end = h.end
        /\ \A a \in DOMAIN h.chunk : /\ g.chunk[a].size = h.chunk[a].size
                                     /\ g.chunk[a].prevsz = h.chunk[a].prevsz
                                     /\ g.chunk[a].inuse = h.chunk[a].inuse
    BY DEF Dropped, SameTags
  <1>2. g.chunk[h.rt_top].inuse
    BY <1>1 DEF Tags, HasTop
  <1> QED
    BY <1>1, <1>2, TagsKept

\* or marking one as in use or free keeps them.
LEMMA TagsMarked ==
  ASSUME NEW h, NEW d, Tags(h, d), NEW g, NEW c \in DOMAIN h.chunk, c # h.rt_top, NEW b,
         Set(h, g, c, b, h.chunk[c].prevsz)
  PROVE  Tags(g, d)
  <1>1. /\ WellFormed(g) /\ DOMAIN g.chunk = DOMAIN h.chunk /\ g.rt_top = h.rt_top /\ g.end = h.end
        /\ \A a \in DOMAIN h.chunk : /\ g.chunk[a].size = h.chunk[a].size
                                     /\ g.chunk[a].prevsz = h.chunk[a].prevsz
    BY DEF Set, SameTags
  <1>2. g.chunk[h.rt_top].inuse
    BY DEF Tags, HasTop, Set, SameTags
  <1> QED
    BY <1>1, <1>2, TagsKept

\* Two chunks do not end in the same place.
LEMMA SameNext ==
  ASSUME NEW h, NEW d, Tags(h, d), NEW a \in DOMAIN h.chunk, NEW c \in DOMAIN h.chunk,
         a # h.rt_top, c # h.rt_top, nextc(h, a) = nextc(h, c)
  PROVE  a = c
  <1>1. /\ a < nextc(h, a) /\ c < nextc(h, c)
        /\ (a < nextc(h, c) => a <= c) /\ (c < nextc(h, a) => c <= a)
    BY SolidFacts
  <1>2. a \in Nat /\ c \in Nat
    BY ChunkFacts DEF Tags
  <1> QED
    BY <1>1, <1>2

\* The tag after a chunk is written, and no tag is wrong any more.
LEMMA TagsSettled ==
  ASSUME NEW h, NEW d, Tags(h, d), NEW g, NEW c \in DOMAIN h.chunk, c # h.rt_top,
         d \in {Null, nextc(h, c)},
         Set(h, g, nextc(h, c), h.chunk[nextc(h, c)].inuse, h.chunk[c].size)
  PROVE  Tags(g, Null)
  <1> DEFINE D == DOMAIN h.chunk
             e == nextc(h, c)
  <1>1. WellFormed(h) /\ HasTop(h) /\ e \in D /\ c < e /\ D \subseteq Nat \ {0} /\ Null \notin D
    BY SolidFacts DEF Tags, WellFormed, Null
  <1>2. /\ WellFormed(g) /\ DOMAIN g.chunk = D /\ g.rt_top = h.rt_top /\ g.end = h.end
        /\ \A a \in D : g.chunk[a].size = h.chunk[a].size /\ g.chunk[a].inuse = h.chunk[a].inuse
        /\ \A a \in D \ {e} : g.chunk[a].prevsz = h.chunk[a].prevsz
        /\ g.chunk[e].prevsz = h.chunk[c].size
    BY DEF Set, SameTags
  <1>3. \A a \in D : nextc(g, a) = nextc(h, a)
    BY <1>2 DEF nextc
  <1>4. HasTop(g)
    BY <1>1, <1>2 DEF HasTop
  <1>5. ASSUME NEW a \in D, a # h.rt_top
        PROVE  Solid(g, a) /\ g.chunk[nextc(g, a)].prevsz = g.chunk[a].size
    <2>1. /\ Solid(h, a) /\ (nextc(h, a) # d => h.chunk[nextc(h, a)].prevsz = h.chunk[a].size)
          /\ nextc(g, a) = nextc(h, a) /\ nextc(h, a) \in D
      BY <1>3, <1>5 DEF Tags, Solid
    <2>2. nextc(h, a) = e => a = c
      BY <1>5, SameNext
    <2>3. Solid(g, a)
      BY <1>2, <2>1 DEF Solid
    <2>4. nextc(h, a) # e => nextc(h, a) # d
      BY <1>1, <2>1
    <2> QED
      BY <1>2, <2>1, <2>2, <2>3, <2>4
  <1>6. ASSUME NEW a \in D, NEW b \in D, a < b  PROVE a # g.rt_top /\ nextc(g, a) <= b
    BY <1>2, <1>3, <1>6 DEF Tags
  <1>7. ASSUME NEW a \in D, g.chunk[a].prevsz # 0
        PROVE  a - g.chunk[a].prevsz \in D /\ nextc(g, a - g.chunk[a].prevsz) = a
    <2>1. CASE a = e
      <3>1. e = c + h.chunk[c].size /\ c \in Nat /\ h.chunk[c].size \in Nat
        BY <1>1, ChunkFacts
      <3>2. e - g.chunk[e].prevsz = c
        BY <1>2, <3>1
      <3> QED
        BY <1>3, <2>1, <3>2
    <2>2. CASE a # e
      <3>1. a # d /\ g.chunk[a].prevsz = h.chunk[a].prevsz
        BY <1>1, <1>2, <2>2
      <3>2. a - h.chunk[a].prevsz \in D /\ nextc(h, a - h.chunk[a].prevsz) = a
        BY <1>7, <3>1 DEF Tags
      <3> QED
        BY <1>3, <3>1, <3>2
    <2> QED
      BY <2>1, <2>2
  <1> QED
    BY <1>2, <1>4, <1>5, <1>6, <1>7 DEF Tags

\* Two neighbours joined: only the tag after them is left to be written.
LEMMA TagsAbsorbed ==
  ASSUME NEW h, NEW d, Tags(h, d), NEW g, NEW c \in DOMAIN h.chunk, c # h.rt_top,
         NEW n, n = nextc(h, c), n # h.rt_top, NEW e, e = nextc(h, n), d \in {Null, e},
         Absorbed(h, g, c, n)
  PROVE  Tags(g, e) /\ nextc(g, c) = e /\ n \in DOMAIN h.chunk /\ e \in DOMAIN g.chunk /\ c \in DOMAIN g.chunk
  <1> DEFINE D == DOMAIN h.chunk
             E == D \ {n}
  <1>1. /\ WellFormed(h) /\ HasTop(h) /\ n \in D /\ c < n /\ D \subseteq Nat \ {0} /\ Null \notin D
    BY SolidFacts DEF Tags, WellFormed, Null
  <1>2. e \in D /\ n < e
    BY <1>1, SolidFacts
  <1>3. /\ WellFormed(g) /\ DOMAIN g.chunk = E /\ g.rt_top = h.rt_top /\ g.end = h.end
        /\ \A a \in E \ {c} : g.chunk[a].size = h.chunk[a].size
        /\ \A a \in E : g.chunk[a].prevsz = h.chunk[a].prevsz /\ g.chunk[a].inuse = h.chunk[a].inuse
        /\ g.chunk[c].size = h.chunk[c].size + h.chunk[n].size
    BY DEF Absorbed, SameTags
  <1>4. /\ c \in Nat /\ n \in Nat /\ e \in Nat /\ h.chunk[c].size \in Nat /\ h.chunk[n].size \in Nat
        /\ n = c + h.chunk[c].size /\ e = n + h.chunk[n].size
    BY <1>1, <1>2, ChunkFacts
  <1>5. c \in E /\ e \in E /\ c # n /\ e # n /\ h.rt_top \in E /\ h.rt_top # c
    BY <1>1, <1>2, <1>4 DEF HasTop
  <1>6. nextc(g, c) = e
    BY <1>3, <1>4 DEF nextc
  <1>7. \A a \in E \ {c} : nextc(g, a) = nextc(h, a)
    BY <1>3 DEF nextc
  <1>8. HasTop(g)
    BY <1>1, <1>3, <1>5 DEF HasTop
  <1>9. ASSUME NEW a \in E, a # h.rt_top
        PROVE  Solid(g, a) /\ (nextc(g, a) # e => g.chunk[nextc(g, a)].prevsz = g.chunk[a].size)
    <2>1. CASE a = c
      <3> DEFINE x == h.chunk[c].size
                 y == h.chunk[n].size
      <3>1. Aligned(c) /\ Aligned(x) /\ Aligned(y) /\ x >= RT_MIN /\ y >= RT_MIN
        BY <1>1 DEF Tags, Solid
      <3>2. x \in Int /\ y \in Int /\ y >= 0
        BY <1>4
      <3>3. g.chunk[c].size = x + y
        BY <1>3
      <3> HIDE DEF x, y
      <3>4. Aligned(x + y)
        BY <3>1, <3>2, AlignedSum
      <3>5. x + y >= RT_MIN
        BY <3>1, <3>2, Units, AlignIs
      <3> QED
        BY <1>3, <1>5, <1>6, <2>1, <3>1, <3>3, <3>4, <3>5 DEF Solid
    <2>2. CASE a # c
      <3>1. /\ Solid(h, a) /\ (nextc(h, a) # d => h.chunk[nextc(h, a)].prevsz = h.chunk[a].size)
            /\ nextc(g, a) = nextc(h, a) /\ nextc(h, a) \in D
        BY <1>7, <1>9, <2>2 DEF Tags, Solid
      <3>2. nextc(h, a) # n
        BY <1>9, <2>2, SameNext
      <3>3. nextc(h, a) # e => nextc(h, a) # d
        BY <1>1, <3>1
      <3>4. nextc(h, a) \in E
        BY <3>1, <3>2
      <3> QED
        BY <1>3, <2>2, <3>1, <3>3, <3>4 DEF Solid
    <2> QED
      BY <2>1, <2>2
  <1>10. ASSUME NEW a \in E, NEW b \in E, a < b  PROVE a # g.rt_top /\ nextc(g, a) <= b
    <2>1. a # h.rt_top /\ nextc(h, a) <= b
      BY <1>10 DEF Tags
    <2>2. CASE a # c
      BY <1>3, <1>7, <2>1, <2>2
    <2>3. CASE a = c
      <3>1. n <= b /\ b # n /\ b \in Nat
        BY <1>1, <2>1, <2>3
      <3>2. n < b
        BY <1>4, <3>1
      <3>3. e <= b
        BY <3>2, <1>1 DEF Tags
      <3> QED
        BY <1>3, <1>6, <2>1, <2>3, <3>3
    <2> QED
      BY <2>2, <2>3
  <1>11. ASSUME NEW a \in E, a # e, g.chunk[a].prevsz # 0
         PROVE  a - g.chunk[a].prevsz \in E /\ nextc(g, a - g.chunk[a].prevsz) = a
    <2> DEFINE p == a - h.chunk[a].prevsz
    <2>1. a # d /\ g.chunk[a].prevsz = h.chunk[a].prevsz
      BY <1>1, <1>3, <1>11
    <2>2. p \in D /\ nextc(h, p) = a
      BY <1>11, <2>1 DEF Tags
    <2> HIDE DEF p
    <2>3. p # n /\ p # c
      BY <1>11, <2>2
    <2>4. p \in E /\ nextc(g, p) = a
      BY <1>7, <2>2, <2>3
    <2> QED
      BY <2>1, <2>4 DEF p
  <1>12. Tags(g, e)
    BY <1>3, <1>8, <1>9, <1>10, <1>11 DEF Tags
  <1> QED
    BY <1>1, <1>3, <1>5, <1>6, <1>12

\* A chunk split in two that are large enough keeps the tags right.
LEMMA TagsHalved ==
  ASSUME NEW h, Tags(h, Null), NEW c \in DOMAIN h.chunk, c # h.rt_top,
         NEW need \in Nat, Aligned(need), need >= RT_MIN, h.chunk[c].size - need >= RT_MIN,
         NEW g, NEW r, r = c + need, Halved(h, g, c, r, need)
  PROVE  Tags(g, Null)
  <1> DEFINE D == DOMAIN h.chunk
             E == D \cup {r}
             n == nextc(h, c)
             x == h.chunk[c].size
             rest == x - need
  <1>1. /\ WellFormed(h) /\ HasTop(h) /\ n \in D /\ c < n /\ D \subseteq Nat \ {0} /\ Null \notin D
        /\ Solid(h, c)
    BY SolidFacts DEF Tags, WellFormed, Null
  <1>2. /\ c \in Nat \ {0} /\ n \in Nat /\ x \in Nat /\ n = c + x /\ RT_MIN \in Nat \ {0}
    BY <1>1, ChunkFacts, Units, AlignIs
  <1>3. /\ r \in Nat /\ c < r /\ r < n /\ rest \in Nat /\ n = r + rest /\ rest >= RT_MIN
        /\ r - need = c /\ n - rest = r
    BY <1>2
  <1>4. r \notin D
    <2> SUFFICES ASSUME r \in D  PROVE FALSE
      OBVIOUS
    <2>1. r <= c
      BY <1>3, SolidFacts
    <2> QED
      BY <1>2, <1>3, <2>1
  <1>5. /\ WellFormed(g) /\ DOMAIN g.chunk = E /\ g.rt_top = h.rt_top /\ g.end = h.end
        /\ \A a \in D \ {c} : g.chunk[a].size = h.chunk[a].size
        /\ \A a \in D \ {n} : g.chunk[a].prevsz = h.chunk[a].prevsz
        /\ \A a \in D : g.chunk[a].inuse = h.chunk[a].inuse
        /\ g.chunk[c].size = need /\ g.chunk[r].size = rest
        /\ g.chunk[r].prevsz = need /\ g.chunk[n].prevsz = rest
    <2> HIDE DEF n
    <2> QED
      BY <1>1 DEF Halved, SameTags, n
  <1>6. /\ nextc(g, c) = r /\ nextc(g, r) = n
        /\ \A a \in D \ {c} : nextc(g, a) = nextc(h, a)
    BY <1>3, <1>5 DEF nextc
  <1>7. HasTop(g)
    BY <1>1, <1>5 DEF HasTop
  <1>8. Aligned(c) /\ Aligned(x) /\ Aligned(r) /\ Aligned(rest)
    <2>1. Aligned(c) /\ Aligned(x) /\ c \in Int /\ x \in Int /\ need \in Int
      BY <1>1, <1>2 DEF Solid
    <2> HIDE DEF x
    <2>2. Aligned(c + need) /\ Aligned(x - need)
      BY <2>1, AlignedSum
    <2> QED
      BY <2>1, <2>2
  <1> HIDE DEF n, x, rest
  <1>9. ASSUME NEW a \in E, a # h.rt_top
        PROVE  Solid(g, a) /\ g.chunk[nextc(g, a)].prevsz = g.chunk[a].size
    <2>1. CASE a = c
      BY <1>5, <1>6, <1>8, <2>1 DEF Solid
    <2>2. CASE a = r
      BY <1>1, <1>3, <1>5, <1>6, <1>8, <2>2 DEF Solid
    <2>3. CASE a \in D \ {c}
      <3>1. /\ Solid(h, a) /\ (nextc(h, a) # Null => h.chunk[nextc(h, a)].prevsz = h.chunk[a].size)
            /\ nextc(g, a) = nextc(h, a) /\ nextc(h, a) \in D
        BY <1>6, <1>9, <2>3 DEF Tags, Solid
      <3>2. nextc(h, a) # n
        BY <1>9, <2>3, SameNext DEF n
      <3> QED
        BY <1>1, <1>5, <2>3, <3>1, <3>2 DEF Solid
    <2> QED
      BY <2>1, <2>2, <2>3
  <1>10. ASSUME NEW a \in E, NEW b \in E, a < b  PROVE a # g.rt_top /\ nextc(g, a) <= b
    <2>0. \A y \in D : y \in Nat
      BY <1>1
    <2>1. CASE a = r
      <3>1. b \in D /\ c < b
        BY <1>2, <1>3, <1>10, <2>0, <2>1
      <3>2. n <= b
        BY <3>1 DEF Tags, n
      <3> QED
        BY <1>1, <1>4, <1>5, <1>6, <2>1, <3>2 DEF HasTop
    <2>2. CASE a = c
      <3>1. a # h.rt_top
        BY <2>2
      <3>2. b \in D => n <= b
        BY <1>10, <2>2 DEF Tags, n
      <3>3. r <= b
        BY <1>2, <1>3, <2>0, <3>2
      <3> QED
        BY <1>5, <1>6, <2>2, <3>3
    <2>3. CASE a \in D \ {c} /\ b \in D
      <3>1. a # h.rt_top /\ nextc(h, a) <= b
        BY <1>10, <2>3 DEF Tags
      <3> QED
        BY <1>5, <1>6, <2>3, <3>1
    <2>4. CASE a \in D \ {c} /\ b = r
      <3>1. a < n
        BY <1>2, <1>3, <1>10, <2>0, <2>4
      <3>2. a <= c
        BY <2>4, <3>1, SolidFacts DEF n
      <3>3. a < c
        BY <1>2, <2>0, <2>4, <3>2
      <3>4. a # h.rt_top /\ nextc(h, a) <= c
        BY <2>4, <3>3 DEF Tags
      <3>5. nextc(h, a) \in Nat
        BY <1>1, <2>4, ChunkFacts
      <3> QED
        BY <1>2, <1>3, <1>5, <1>6, <2>4, <3>4, <3>5
    <2> QED
      BY <2>1, <2>2, <2>3, <2>4
  <1>11. ASSUME NEW a \in E, a # Null, g.chunk[a].prevsz # 0
         PROVE  a - g.chunk[a].prevsz \in E /\ nextc(g, a - g.chunk[a].prevsz) = a
    <2>1. CASE a = r
      BY <1>1, <1>3, <1>5, <1>6, <2>1
    <2>2. CASE a = n
      BY <1>3, <1>5, <1>6, <2>2
    <2>3. CASE a \in D \ {n}
      <3> DEFINE p == a - h.chunk[a].prevsz
      <3>1. g.chunk[a].prevsz = h.chunk[a].prevsz
        BY <1>5, <2>3
      <3>2. p \in D /\ nextc(h, p) = a
        BY <1>11, <2>3, <3>1 DEF Tags
      <3> HIDE DEF p
      <3>3. p # c
        BY <2>3, <3>2 DEF n
      <3>4. p \in E /\ nextc(g, p) = a
        BY <1>6, <3>2, <3>3
      <3> QED
        BY <3>1, <3>4 DEF p
    <2> QED
      BY <2>1, <2>2, <2>3
  <1> QED
    BY <1>5, <1>7, <1>9, <1>10, <1>11 DEF Tags

\* The chunks below `at` are in order, and the last of them has p bytes.
Base(h, at, p) ==
  /\ \A c \in DOMAIN h.chunk : c < at =>
       /\ Aligned(c) /\ Aligned(h.chunk[c].size) /\ h.chunk[c].size >= RT_MIN
       /\ nextc(h, c) <= at
       /\ nextc(h, c) # at => /\ nextc(h, c) \in DOMAIN h.chunk
                              /\ h.chunk[nextc(h, c)].prevsz = h.chunk[c].size
       /\ nextc(h, c) = at => p = h.chunk[c].size
       /\ h.chunk[c].prevsz # 0 => /\ c - h.chunk[c].prevsz \in DOMAIN h.chunk
                                   /\ nextc(h, c - h.chunk[c].prevsz) = c
  /\ \A a, c \in DOMAIN h.chunk : a < c /\ c < at => nextc(h, a) <= c
  /\ p # 0 => at - p \in DOMAIN h.chunk /\ nextc(h, at - p) = at

\* The chunks below any chunk of a heap in order are in order.
LEMMA BaseOf ==
  ASSUME NEW h, Tags(h, Null), NEW at \in DOMAIN h.chunk
  PROVE  Base(h, at, h.chunk[at].prevsz)
  <1>1. DOMAIN h.chunk \subseteq Nat \ {0} /\ Null \notin DOMAIN h.chunk
    BY DEF Tags, WellFormed, Null
  <1>2. ASSUME NEW c \in DOMAIN h.chunk, c < at
        PROVE  /\ Aligned(c) /\ Aligned(h.chunk[c].size) /\ h.chunk[c].size >= RT_MIN
               /\ nextc(h, c) <= at /\ nextc(h, c) \in DOMAIN h.chunk
               /\ h.chunk[nextc(h, c)].prevsz = h.chunk[c].size
    <2>1. c # h.rt_top /\ nextc(h, c) <= at
      BY <1>2 DEF Tags
    <2>2. Solid(h, c) /\ (nextc(h, c) # Null => h.chunk[nextc(h, c)].prevsz = h.chunk[c].size)
      BY <2>1 DEF Tags
    <2> QED
      BY <1>1, <2>1, <2>2 DEF Solid
  <1>3. \A c \in DOMAIN h.chunk : h.chunk[c].prevsz # 0 =>
          c - h.chunk[c].prevsz \in DOMAIN h.chunk /\ nextc(h, c - h.chunk[c].prevsz) = c
    BY <1>1 DEF Tags
  <1>4. \A a, c \in DOMAIN h.chunk : a < c => nextc(h, a) <= c
    BY DEF Tags
  <1> QED
    BY <1>2, <1>3, <1>4 DEF Base

\* Where there are no chunks they are in order.
LEMMA BaseEmpty ==
  ASSUME NEW h, DOMAIN h.chunk = {}, NEW at, NEW p, p = 0
  PROVE  Base(h, at, p)
  BY DEF Base

\* A last chunk and a sentinel put after chunks in order.
LEMMA TagsTopped ==
  ASSUME NEW h, WellFormed(h), NEW at \in Nat \ {0}, NEW p \in Nat, Base(h, at, p), Aligned(at),
         NEW total \in Nat, Aligned(total), total >= RT_MIN,
         NEW g, Topped(h, g, at, total, p), at + total + RT_HDR <= g.end
  PROVE  Tags(g, Null)
  <1> DEFINE D == DOMAIN h.chunk
             B == {b \in D : b < at}
             top == at + total
             E == B \cup {at, top}
  <1>1. D \subseteq Nat \ {0} /\ RT_MIN \in Nat \ {0}
    BY Units, AlignIs DEF WellFormed
  <1>2. top \in Nat /\ at < top /\ top - total = at /\ top # at
    BY <1>1
  <1>3. Aligned(top)
    <2>1. at \in Int /\ total \in Int
      OBVIOUS
    <2> QED
      BY <2>1, AlignedSum
  <1>4. /\ WellFormed(g) /\ DOMAIN g.chunk = E /\ g.rt_top = top
        /\ \A a \in B : g.chunk[a].size = h.chunk[a].size /\ g.chunk[a].prevsz = h.chunk[a].prevsz
        /\ g.chunk[at].size = total /\ g.chunk[at].prevsz = p
        /\ g.chunk[top].size = RT_HDR /\ g.chunk[top].prevsz = total /\ g.chunk[top].inuse
        /\ top + RT_HDR <= g.end
    BY DEF Topped, SameTags
  <1> HIDE DEF top
  <1>5. \A a \in E : a \in Nat /\ a <= top /\ (a # top => a <= at)
    BY <1>1, <1>2
  <1>6. nextc(g, at) = top /\ \A a \in B : nextc(g, a) = nextc(h, a)
    BY <1>4 DEF nextc, top
  <1>7. HasTop(g)
    BY <1>3, <1>4 DEF HasTop
  <1>8. ASSUME NEW a \in E, a # top
        PROVE  Solid(g, a) /\ g.chunk[nextc(g, a)].prevsz = g.chunk[a].size
    <2>1. CASE a = at
      BY <1>4, <1>6, <2>1 DEF Solid
    <2>2. CASE a \in B
      <3>1. /\ Aligned(a) /\ Aligned(h.chunk[a].size) /\ h.chunk[a].size >= RT_MIN
            /\ nextc(h, a) <= at
            /\ nextc(h, a) # at => /\ nextc(h, a) \in D
                                   /\ h.chunk[nextc(h, a)].prevsz = h.chunk[a].size
            /\ nextc(h, a) = at => p = h.chunk[a].size
        BY <2>2 DEF Base
      <3>2. nextc(h, a) \in Nat
        BY <2>2, ChunkFacts
      <3>3. nextc(h, a) # at => nextc(h, a) \in B
        BY <3>1, <3>2
      <3> QED
        BY <1>4, <1>6, <2>2, <3>1, <3>3 DEF Solid
    <2> QED
      BY <1>8, <2>1, <2>2
  <1>9. ASSUME NEW a \in E, NEW b \in E, a < b  PROVE a # g.rt_top /\ nextc(g, a) <= b
    <2>1. a # top
      BY <1>2, <1>5, <1>9
    <2>2. CASE a = at
      <3>1. b = top
        BY <1>2, <1>5, <1>9, <2>2
      <3> QED
        BY <1>2, <1>4, <1>6, <2>1, <2>2, <3>1
    <2>3. CASE a \in B /\ b \in B
      BY <1>4, <1>6, <1>9, <2>1, <2>3 DEF Base
    <2>4. CASE a \in B /\ b \notin B
      <3>1. nextc(h, a) <= at /\ nextc(h, a) \in Nat /\ at <= b
        BY <1>2, <2>4, ChunkFacts DEF Base
      <3>2. nextc(h, a) <= b
        BY <1>5, <3>1
      <3> QED
        BY <1>4, <1>6, <2>1, <2>4, <3>2
    <2> QED
      BY <2>1, <2>2, <2>3, <2>4
  <1>10. ASSUME NEW a \in E, g.chunk[a].prevsz # 0
         PROVE  a - g.chunk[a].prevsz \in E /\ nextc(g, a - g.chunk[a].prevsz) = a
    <2>1. CASE a = top
      BY <1>2, <1>4, <1>6, <2>1
    <2>2. CASE a = at
      <3>1. p # 0 /\ at - p \in D /\ nextc(h, at - p) = at
        BY <1>4, <1>10, <2>2 DEF Base
      <3>2. at - p \in B
        BY <3>1
      <3> QED
        BY <1>4, <1>6, <2>2, <3>1, <3>2
    <2>3. CASE a \in B
      <3> DEFINE s == h.chunk[a].prevsz
      <3>1. s # 0 /\ s \in Nat /\ a \in Nat /\ g.chunk[a].prevsz = s
        BY <1>4, <1>10, <2>3, ChunkFacts
      <3>2. a - s \in D /\ nextc(h, a - s) = a
        BY <2>3, <3>1 DEF Base
      <3> HIDE DEF s
      <3>3. a - s < at /\ a - s \in B
        BY <2>3, <3>1, <3>2
      <3> QED
        BY <1>6, <3>1, <3>2, <3>3
    <2> QED
      BY <2>1, <2>2, <2>3
  <1> QED
    BY <1>4, <1>7, <1>8, <1>9, <1>10 DEF Tags

-----------------------------------------------------------------------------
(* The free list.                                                           *)

\* Every link leads from one chunk in F to another and back, and so does rt_free.
Links(h, F) ==
  /\ h.rt_free # Null => h.rt_free \in F /\ h.chunk[h.rt_free].fprev = Null
  /\ \A c \in DOMAIN h.chunk :
       /\ h.chunk[c].fnext # Null =>
            c \in F /\ h.chunk[c].fnext \in F /\ h.chunk[h.chunk[c].fnext].fprev = c
       /\ h.chunk[c].fprev # Null =>
            c \in F /\ h.chunk[c].fprev \in F /\ h.chunk[h.chunk[c].fprev].fnext = c

\* Following fprev from any chunk in F ends at the head of the list.
Ranked(h, F, r) ==
  /\ r \in [F -> Nat]
  /\ \A c \in F : /\ h.chunk[c].fprev = Null => c = h.rt_free
                  /\ h.chunk[c].fprev # Null => r[h.chunk[c].fprev] < r[c]
Reached(h, F) == \E r : Ranked(h, F, r)

\* Links within a set are links within a larger one.
LEMMA LinksMore ==
  ASSUME NEW h, NEW F, Links(h, F), NEW G, F \subseteq G
  PROVE  Links(h, G)
  BY DEF Links

\* Neither the links nor the head of the list changed, except that chunks outside F
\* are gone.
LEMMA LinksKept ==
  ASSUME NEW h, NEW F, Links(h, F), NEW g, SameLinks(h, g, DOMAIN g.chunk), g.rt_free = h.rt_free,
         DOMAIN g.chunk \subseteq DOMAIN h.chunk, F \subseteq DOMAIN g.chunk
  PROVE  Links(g, F) /\ (Reached(h, F) => Reached(g, F))
  <1>1. \A c \in DOMAIN g.chunk : /\ g.chunk[c].fnext = h.chunk[c].fnext
                                  /\ g.chunk[c].fprev = h.chunk[c].fprev
    BY DEF SameLinks
  <1>2. Links(g, F)
    BY <1>1 DEF Links
  <1>3. ASSUME NEW r, Ranked(h, F, r)  PROVE Ranked(g, F, r)
    BY <1>1, <1>3 DEF Ranked
  <1> QED
    BY <1>2, <1>3 DEF Reached

\* c was put before the list of F.
Headed(h, g, F, c) ==
  /\ g.rt_free = c /\ F \cup {c} \subseteq DOMAIN g.chunk
  /\ \A a \in DOMAIN g.chunk :
       /\ g.chunk[a].fnext = IF a = c THEN h.rt_free
                             ELSE IF a \in F THEN h.chunk[a].fnext ELSE Null
       /\ g.chunk[a].fprev = IF a = c \/ a \notin F THEN Null
                             ELSE IF a = h.rt_free THEN c ELSE h.chunk[a].fprev

\* A list with one chunk more before it is a list.
LEMMA LinksHeaded ==
  ASSUME NEW h, NEW F, WellFormed(h), Links(h, F), F \subseteq DOMAIN h.chunk,
         NEW c, c # Null, c \notin F, NEW g, Headed(h, g, F, c)
  PROVE  Links(g, F \cup {c}) /\ (Reached(h, F) => Reached(g, F \cup {c}))
  <1> DEFINE D == DOMAIN g.chunk
             G == F \cup {c}
             f0 == h.rt_free
  <1>1. /\ c # Null /\ g.rt_free = c /\ Null \notin F /\ G \subseteq D /\ f0 # c
        /\ \A a \in D : /\ g.chunk[a].fnext = IF a = c THEN f0 ELSE IF a \in F THEN h.chunk[a].fnext ELSE Null
                        /\ g.chunk[a].fprev =
                             IF a = c \/ a \notin F THEN Null ELSE IF a = f0 THEN c ELSE h.chunk[a].fprev
    BY DEF Headed, WellFormed, Null, Links
  <1>2. /\ f0 # Null => f0 \in F /\ h.chunk[f0].fprev = Null
        /\ \A a \in F :
             /\ h.chunk[a].fnext # Null =>
                  h.chunk[a].fnext \in F /\ h.chunk[h.chunk[a].fnext].fprev = a
             /\ h.chunk[a].fprev # Null =>
                  h.chunk[a].fprev \in F /\ h.chunk[h.chunk[a].fprev].fnext = a
    BY DEF Links
  <1> HIDE DEF f0
  <1>3. g.rt_free \in G /\ g.chunk[g.rt_free].fprev = Null
    BY <1>1
  <1>4. ASSUME NEW a \in D, g.chunk[a].fnext # Null
        PROVE  a \in G /\ g.chunk[a].fnext \in G /\ g.chunk[g.chunk[a].fnext].fprev = a
    <2>1. CASE a = c
      BY <1>1, <1>2, <1>4, <2>1
    <2>2. CASE a # c
      <3> DEFINE b == h.chunk[a].fnext
      <3>0. a \in F
        BY <1>1, <1>4, <2>2
      <3>1. g.chunk[a].fnext = b
        BY <1>1, <2>2, <3>0
      <3>2. a \in F /\ b \in F /\ h.chunk[b].fprev = a /\ a # Null
        BY <1>1, <1>2, <1>4, <3>0, <3>1
      <3> HIDE DEF b
      <3>3. b # c /\ b # f0 /\ b \in D
        BY <1>1, <1>2, <3>2
      <3> QED
        BY <1>1, <3>1, <3>2, <3>3
    <2> QED
      BY <2>1, <2>2
  <1>5. ASSUME NEW a \in D, g.chunk[a].fprev # Null
        PROVE  a \in G /\ g.chunk[a].fprev \in G /\ g.chunk[g.chunk[a].fprev].fnext = a
    <2>1. a # c /\ a \in F
      BY <1>1, <1>5
    <2>2. CASE a = f0
      BY <1>1, <2>1, <2>2
    <2>3. CASE a # f0
      <3> DEFINE b == h.chunk[a].fprev
      <3>1. g.chunk[a].fprev = b
        BY <1>1, <2>1, <2>3
      <3>2. a \in F /\ b \in F /\ h.chunk[b].fnext = a
        BY <1>2, <1>5, <2>1, <3>1
      <3> HIDE DEF b
      <3>3. b # c /\ b \in D
        BY <1>1, <3>2
      <3> QED
        BY <1>1, <3>1, <3>2, <3>3
    <2> QED
      BY <2>2, <2>3
  <1>6. Links(g, G)
    BY <1>1, <1>3, <1>4, <1>5 DEF Links
  <1>7. ASSUME NEW r, Ranked(h, F, r)  PROVE Reached(g, G)
    <2> DEFINE s == [a \in G |-> IF a = c THEN 0 ELSE r[a] + 1]
    <2>1. /\ r \in [F -> Nat]
          /\ \A a \in F : /\ h.chunk[a].fprev = Null => a = f0
                          /\ h.chunk[a].fprev # Null => r[h.chunk[a].fprev] < r[a]
      BY <1>7 DEF Ranked, f0
    <2>2. s \in [G -> Nat] /\ s[c] = 0 /\ \A a \in F : s[a] = r[a] + 1
      BY <2>1
    <2> HIDE DEF s
    <2>3. ASSUME NEW a \in G
          PROVE  /\ g.chunk[a].fprev = Null => a = g.rt_free
                 /\ g.chunk[a].fprev # Null => s[g.chunk[a].fprev] < s[a]
      <3>1. CASE a = c
        BY <1>1, <3>1
      <3>2. CASE a # c /\ a = f0
        <4>1. g.chunk[a].fprev = c /\ a \in F /\ r[a] \in Nat
          BY <1>1, <2>1, <3>2
        <4> QED
          BY <1>1, <2>2, <4>1
      <3>3. CASE a # c /\ a # f0
        <4>1. a \in F /\ g.chunk[a].fprev = h.chunk[a].fprev /\ h.chunk[a].fprev # Null
          BY <1>1, <2>1, <3>3
        <4>2. h.chunk[a].fprev \in F /\ r[h.chunk[a].fprev] < r[a] /\ a \in D
          BY <1>1, <1>2, <2>1, <4>1
        <4>3. r[h.chunk[a].fprev] \in Nat /\ r[a] \in Nat
          BY <2>1, <4>1, <4>2
        <4> QED
          BY <2>2, <4>1, <4>2, <4>3
      <3> QED
        BY <3>1, <3>2, <3>3
    <2>4. Ranked(g, G, s)
      BY <2>2, <2>3 DEF Ranked
    <2> QED
      BY <2>4 DEF Reached
  <1> QED
    BY <1>6, <1>7 DEF Reached

\* Chunks outside F have no links.
LEMMA Unlinked ==
  ASSUME NEW h, NEW F, WellFormed(h), Links(h, F), NEW a \in DOMAIN h.chunk, a \notin F
  PROVE  h.chunk[a].fnext = Null /\ h.chunk[a].fprev = Null /\ h.rt_free # a
  BY DEF Links, WellFormed, Null

\* So is the list after fl_push(),
LEMMA LinksPushed ==
  ASSUME NEW h, NEW F, WellFormed(h), Links(h, F), F \subseteq DOMAIN h.chunk,
         NEW c \in DOMAIN h.chunk, c \notin F, NEW g, Pushed(h, g, c)
  PROVE  Links(g, F \cup {c}) /\ (Reached(h, F) => Reached(g, F \cup {c}))
  <1>1. c # Null
    BY DEF WellFormed, Null
  <1>2. Headed(h, g, F, c)
    BY Unlinked DEF Pushed, Headed
  <1> QED
    BY <1>1, <1>2, LinksHeaded

\* after a chunk was split,
LEMMA LinksHalved ==
  ASSUME NEW h, NEW F, WellFormed(h), Links(h, F), F \subseteq DOMAIN h.chunk,
         NEW c, NEW r, r # Null, r \notin DOMAIN h.chunk, NEW g, NEW need, Halved(h, g, c, r, need)
  PROVE  Links(g, F \cup {r}) /\ (Reached(h, F) => Reached(g, F \cup {r}))
  <1>1. /\ g.rt_free = r /\ DOMAIN g.chunk = DOMAIN h.chunk \cup {r}
        /\ g.chunk[r].fnext = h.rt_free /\ g.chunk[r].fprev = Null
        /\ \A a \in DOMAIN h.chunk :
             /\ g.chunk[a].fnext = h.chunk[a].fnext
             /\ g.chunk[a].fprev = IF a = h.rt_free THEN r ELSE h.chunk[a].fprev
    BY DEF Halved
  <1>2. Headed(h, g, F, r)
    BY <1>1, Unlinked DEF Headed
  <1>3. r \notin F
    OBVIOUS
  <1> QED
    BY <1>2, <1>3, LinksHeaded

\* and after memory got a new last chunk.
LEMMA LinksTopped ==
  ASSUME NEW h, NEW F, WellFormed(h), Links(h, F), NEW at \in Nat \ {0},
         F \subseteq {b \in DOMAIN h.chunk : b < at},
         NEW g, NEW total \in Nat \ {0}, NEW p, Topped(h, g, at, total, p)
  PROVE  Links(g, F \cup {at}) /\ (Reached(h, F) => Reached(g, F \cup {at}))
  <1> DEFINE B == {b \in DOMAIN h.chunk : b < at}
             top == at + total
  <1>1. /\ g.rt_free = at /\ DOMAIN g.chunk = B \cup {at, top}
        /\ g.chunk[at].fnext = h.rt_free /\ g.chunk[at].fprev = Null
        /\ g.chunk[top].fnext = Null /\ g.chunk[top].fprev = Null
        /\ \A a \in B :
             /\ g.chunk[a].fnext = h.chunk[a].fnext
             /\ g.chunk[a].fprev = IF a = h.rt_free THEN at ELSE h.chunk[a].fprev
    BY DEF Topped
  <1>2. at \notin F /\ top \notin F /\ at # top /\ at # Null /\ F \subseteq DOMAIN h.chunk
    BY DEF Null
  <1> HIDE DEF top
  <1>3. Headed(h, g, F, at)
    BY <1>1, <1>2, Unlinked DEF Headed
  <1> QED
    BY <1>2, <1>3, LinksHeaded

\* fl_drop() leaves a list of the others; all of them, if the chunk was on it.
LEMMA LinksDropped ==
  ASSUME NEW h, NEW F, WellFormed(h), Links(h, F), F \subseteq DOMAIN h.chunk,
         NEW c \in DOMAIN h.chunk, NEW g, Dropped(h, g, c)
  PROVE  Links(g, F \ {c}) /\ (c \in F /\ Reached(h, F) => Reached(g, F \ {c}))
  <1> DEFINE D == DOMAIN h.chunk
             G == F \ {c}
             n == h.chunk[c].fnext
             p == h.chunk[c].fprev
  <1>1. /\ DOMAIN g.chunk = D /\ Null \notin D
        /\ g.rt_free = IF p = Null THEN n ELSE h.rt_free
        /\ \A a \in D : /\ g.chunk[a].fnext = IF a = c THEN Null ELSE IF a = p THEN n ELSE h.chunk[a].fnext
                        /\ g.chunk[a].fprev = IF a = c THEN Null ELSE IF a = n THEN p ELSE h.chunk[a].fprev
    BY DEF Dropped, WellFormed, Null
  <1>2. /\ h.rt_free # Null => h.rt_free \in F /\ h.chunk[h.rt_free].fprev = Null
        /\ \A a \in D :
             /\ h.chunk[a].fnext # Null =>
                  a \in F /\ h.chunk[a].fnext \in F /\ h.chunk[h.chunk[a].fnext].fprev = a
             /\ h.chunk[a].fprev # Null =>
                  a \in F /\ h.chunk[a].fprev \in F /\ h.chunk[h.chunk[a].fprev].fnext = a
    BY DEF Links
  <1>3. /\ n # Null => n \in F /\ h.chunk[n].fprev = c /\ n \in D
        /\ p # Null => p \in F /\ h.chunk[p].fnext = c /\ p \in D
        /\ c \notin {Null}
    BY <1>1, <1>2
  <1>4. n = c <=> p = c
    BY <1>3
  <1> HIDE DEF n, p
  <1>5. g.rt_free # Null => g.rt_free \in G /\ g.chunk[g.rt_free].fprev = Null
    <2>1. CASE p = Null
      BY <1>1, <1>3, <1>4, <2>1
    <2>2. CASE p # Null
      <3>1. g.rt_free = h.rt_free
        BY <1>1, <2>2
      <3>2. h.rt_free # Null => h.rt_free # c /\ h.rt_free # n /\ h.rt_free \in D
        BY <1>2, <1>3, <2>2 DEF p
      <3> QED
        BY <1>1, <1>2, <3>1, <3>2
    <2> QED
      BY <2>1, <2>2
  <1>6. ASSUME NEW a \in D, g.chunk[a].fnext # Null
        PROVE  a \in G /\ g.chunk[a].fnext \in G /\ g.chunk[g.chunk[a].fnext].fprev = a
    <2>1. a # c
      BY <1>1, <1>6
    <2>2. CASE a = p
      BY <1>1, <1>3, <1>4, <1>6, <2>1, <2>2
    <2>3. CASE a # p
      <3> DEFINE b == h.chunk[a].fnext
      <3>1. g.chunk[a].fnext = b
        BY <1>1, <2>1, <2>3
      <3>2. a \in F /\ b \in F /\ h.chunk[b].fprev = a /\ b \in D
        BY <1>2, <1>6, <3>1
      <3>3. b # c /\ b # n
        BY <1>1, <1>3, <2>1, <2>3, <3>2 DEF p
      <3> HIDE DEF b
      <3> QED
        BY <1>1, <2>1, <3>1, <3>2, <3>3
    <2> QED
      BY <2>2, <2>3
  <1>7. ASSUME NEW a \in D, g.chunk[a].fprev # Null
        PROVE  a \in G /\ g.chunk[a].fprev \in G /\ g.chunk[g.chunk[a].fprev].fnext = a
    <2>1. a # c
      BY <1>1, <1>7
    <2>2. CASE a = n
      BY <1>1, <1>3, <1>4, <1>7, <2>1, <2>2
    <2>3. CASE a # n
      <3> DEFINE b == h.chunk[a].fprev
      <3>1. g.chunk[a].fprev = b
        BY <1>1, <2>1, <2>3
      <3>2. a \in F /\ b \in F /\ h.chunk[b].fnext = a /\ b \in D
        BY <1>2, <1>7, <3>1
      <3>3. b # c /\ b # p
        BY <1>1, <1>3, <2>1, <2>3, <3>2 DEF n
      <3> HIDE DEF b
      <3> QED
        BY <1>1, <2>1, <3>1, <3>2, <3>3
    <2> QED
      BY <2>2, <2>3
  <1>8. Links(g, G)
    BY <1>1, <1>5, <1>6, <1>7 DEF Links
  <1>9. ASSUME c \in F, NEW r, Ranked(h, F, r)  PROVE Reached(g, G)
    <2> DEFINE s == [a \in G |-> r[a]]
    <2>1. /\ r \in [F -> Nat]
          /\ \A a \in F : /\ h.chunk[a].fprev = Null => a = h.rt_free
                          /\ h.chunk[a].fprev # Null => r[h.chunk[a].fprev] < r[a]
      BY <1>9 DEF Ranked
    <2>2. s \in [G -> Nat] /\ \A a \in G : s[a] = r[a]
      BY <2>1
    <2> HIDE DEF s
    <2>3. ASSUME NEW a \in G
          PROVE  /\ g.chunk[a].fprev = Null => a = g.rt_free
                 /\ g.chunk[a].fprev # Null => s[g.chunk[a].fprev] < s[a]
      <3>1. CASE a = n
        <4>1. h.chunk[a].fprev = c /\ g.chunk[a].fprev = p /\ a # c /\ a \in D
          BY <1>1, <1>3, <3>1
        <4>2. CASE p = Null
          BY <1>1, <3>1, <4>1, <4>2
        <4>3. CASE p # Null
          <5>1. c \in F /\ p \in G
            BY <1>2, <1>3, <1>4, <3>1, <4>1, <4>3
          <5>2. r[c] < r[a] /\ r[p] < r[c]
            BY <1>3, <2>1, <4>1, <4>3, <5>1 DEF p
          <5>3. r[c] \in Nat /\ r[a] \in Nat /\ r[p] \in Nat
            BY <2>1, <5>1
          <5> QED
            BY <2>2, <4>1, <4>3, <5>1, <5>2, <5>3
        <4> QED
          BY <4>2, <4>3
      <3>2. CASE a # n
        <4>1. g.chunk[a].fprev = h.chunk[a].fprev /\ a \in D /\ a \in F /\ a # c
          BY <1>1, <3>2
        <4>2. CASE h.chunk[a].fprev = Null
          <5>1. a = h.rt_free
            BY <2>1, <4>1, <4>2
          <5>2. c \in F /\ p = Null => c = h.rt_free
            BY <2>1 DEF p
          <5>3. CASE p # Null
            BY <1>1, <4>1, <4>2, <5>1, <5>3
          <5>4. CASE p = Null
            BY <1>9, <4>1, <5>1, <5>2, <5>4
          <5> QED
            BY <5>3, <5>4
        <4>3. CASE h.chunk[a].fprev # Null
          <5>1. h.chunk[a].fprev \in F /\ h.chunk[h.chunk[a].fprev].fnext = a
            BY <1>2, <4>1, <4>3
          <5>2. h.chunk[a].fprev # c
            BY <3>2, <5>1 DEF n
          <5> QED
            BY <2>1, <2>2, <4>1, <4>3, <5>1, <5>2
        <4> QED
          BY <4>2, <4>3
      <3> QED
        BY <3>1, <3>2
    <2>4. Ranked(g, G, s)
      BY <2>2, <2>3 DEF Ranked
    <2> QED
      BY <2>4 DEF Reached
  <1> QED
    BY <1>8, <1>9 DEF Reached

-----------------------------------------------------------------------------
(* A heap in order, and what it means for a chunk to be off the list.       *)

FreeSet(h) == {c \in DOMAIN h.chunk : Free(h, c)}
InUse(h)   == {c \in DOMAIN h.chunk \ {h.rt_top} : ~Free(h, c)}
Calm(h)    == \A c \in FreeSet(h) : nextc(h, c) \notin FreeSet(h)

Heaped(h)   == h.rt_ready = TRUE /\ Tags(h, Null) /\ Calm(h) /\ Links(h, FreeSet(h))
Complete(h) == Reached(h, FreeSet(h))

\* The blocks handed out and their sizes are the same.
SameBlocks(h, g) == InUse(g) = InUse(h) /\ \A c \in InUse(h) : g.chunk[c].size = h.chunk[c].size

\* x is free but not on the list; h0 is the heap before, complete or not.
Loose(h, x, d, h0) ==
  /\ h.rt_ready = TRUE /\ Tags(h, d) /\ d \in {Null, nextc(h, x)} /\ x \in FreeSet(h)
  /\ Links(h, FreeSet(h) \ {x})
  /\ Complete(h0) => Reached(h, FreeSet(h) \ {x})
  /\ \A q \in FreeSet(h) \ {x} : nextc(h, q) \notin FreeSet(h) \ {x}

\* A free chunk is not the sentinel.
LEMMA FreeChunk ==
  ASSUME NEW h, NEW d, Tags(h, d), NEW c \in FreeSet(h)
  PROVE  c \in DOMAIN h.chunk /\ c # h.rt_top /\ c # Null /\ Free(h, c)
  BY DEF FreeSet, Tags, HasTop, WellFormed, Free, Null

\* A free chunk off the list joins a free neighbour, which leaves the list for it.
LEMMA LooseJoin ==
  ASSUME NEW h, NEW z, NEW d, NEW h0, Loose(h, z, d, h0), NEW a, NEW b, NEW y,
         (z = a /\ y = b) \/ (z = b /\ y = a),
         y \in FreeSet(h), b = nextc(h, a), d \in {Null, nextc(h, b)}
  PROVE  LET g == Absorb(fl_drop(h, y), a, b) IN
         /\ Loose(g, a, nextc(h, b), h0) /\ SameBlocks(h, g) /\ nextc(g, a) = nextc(h, b)
         /\ FreeSet(g) = FreeSet(h) \ {b}
         /\ \A q \in FreeSet(g) \ {a} : nextc(g, q) = nextc(h, q)
  <1> DEFINE D == DOMAIN h.chunk
             e == nextc(h, b)
             k == fl_drop(h, y)
             g == Absorb(k, a, b)
             F == FreeSet(h) \ {z}
  <1>1. /\ h.rt_ready = TRUE /\ Tags(h, d) /\ z \in FreeSet(h) /\ Links(h, F)
        /\ Complete(h0) => Reached(h, F)
        /\ \A q \in F : nextc(h, q) \notin F
    BY DEF Loose
  <1>2. WellFormed(h) /\ HasTop(h) /\ F \subseteq D
    BY <1>1 DEF Tags, FreeSet
  <1>3. a \in FreeSet(h) /\ b \in FreeSet(h)
    BY <1>1
  <1>4. /\ a \in D /\ a # h.rt_top /\ a # Null /\ Free(h, a)
        /\ b \in D /\ b # h.rt_top /\ b # Null /\ Free(h, b)
    BY <1>1, <1>3, FreeChunk
  <1>5. a < b /\ b < e /\ e \in D
    BY <1>1, <1>4, SolidFacts
  <1>6. a \in Nat /\ b \in Nat /\ e \in Nat /\ a # b /\ e # a /\ e # b
    BY <1>2, <1>4, <1>5, ChunkFacts
  <1>7. y \in D /\ y \in F
    BY <1>4, <1>6
  <1>8. Dropped(h, k, y)
    BY <1>2, <1>7, DropIs
  <1>9. Tags(k, d)
    BY <1>1, <1>8, TagsDropped
  <1>10. Links(k, F \ {y}) /\ (Complete(h0) => Reached(k, F \ {y}))
    BY <1>1, <1>2, <1>7, <1>8, LinksDropped
  <1> HIDE DEF k
  <1>11. /\ WellFormed(k) /\ DOMAIN k.chunk = D /\ k.rt_top = h.rt_top /\ k.rt_ready = h.rt_ready
         /\ \A q \in D : k.chunk[q].size = h.chunk[q].size /\ k.chunk[q].inuse = h.chunk[q].inuse
    BY <1>8 DEF Dropped, SameTags
  <1>12. \A q \in D : nextc(k, q) = nextc(h, q)
    BY <1>11 DEF nextc
  <1>13. Absorbed(k, g, a, b)
    BY <1>4, <1>6, <1>11, AbsorbIs
  <1> HIDE DEF g
  <1>14. Tags(g, e) /\ nextc(g, a) = e
    <2>1. b = nextc(k, a) /\ e = nextc(k, b) /\ a \in DOMAIN k.chunk /\ a # k.rt_top /\ b # k.rt_top
      BY <1>4, <1>11, <1>12
    <2>2. d \in {Null, e}
      OBVIOUS
    <2> HIDE DEF e
    <2> QED
      BY <1>9, <1>13, <2>1, <2>2, TagsAbsorbed
  <1>15. /\ DOMAIN g.chunk = D \ {b} /\ g.rt_top = h.rt_top /\ g.rt_ready = h.rt_ready
         /\ \A q \in D \ {b} : g.chunk[q].inuse = h.chunk[q].inuse
         /\ \A q \in D \ {a, b} : g.chunk[q].size = h.chunk[q].size /\ nextc(g, q) = nextc(h, q)
    BY <1>11, <1>12, <1>13 DEF Absorbed, SameTags, nextc
  <1>16. FreeSet(g) = FreeSet(h) \ {b}
    BY <1>15 DEF FreeSet, Free
  <1>17. FreeSet(g) \ {a} = F \ {y}
    BY <1>16
  <1>18. Links(g, F \ {y}) /\ (Complete(h0) => Reached(g, F \ {y}))
    <2>1. SameLinks(k, g, DOMAIN g.chunk) /\ g.rt_free = k.rt_free /\ DOMAIN g.chunk \subseteq DOMAIN k.chunk
      BY <1>11, <1>13, <1>15 DEF Absorbed
    <2>2. F \ {y} \subseteq DOMAIN g.chunk
      BY <1>2, <1>15, <1>4
    <2> QED
      BY <1>10, <2>1, <2>2, LinksKept
  <1>19. SameBlocks(h, g)
    <2>1. InUse(g) = InUse(h)
      BY <1>4, <1>15 DEF InUse, Free
    <2>2. InUse(h) \subseteq D \ {a, b}
      BY <1>4 DEF InUse
    <2> QED
      BY <1>15, <2>1, <2>2 DEF SameBlocks
  <1>20. \A q \in FreeSet(g) \ {a} : nextc(g, q) = nextc(h, q)
    BY <1>15, <1>16 DEF FreeSet
  <1>21. \A q \in FreeSet(g) \ {a} : nextc(g, q) \notin FreeSet(g) \ {a}
    BY <1>1, <1>17, <1>20
  <1>22. a \in FreeSet(g)
    BY <1>3, <1>6, <1>16
  <1>23. Loose(g, a, e, h0)
    BY <1>1, <1>14, <1>15, <1>17, <1>18, <1>21, <1>22 DEF Loose
  <1> QED
    BY <1>14, <1>16, <1>19, <1>20, <1>23 DEF g, k

\* A chunk joined with its free neighbours, and put back on the list, leaves the heap
\* in order.
LEMMA LooseListed ==
  ASSUME NEW h, NEW x, NEW d, NEW h0, Loose(h, x, d, h0), NEW e, e = nextc(h, x), ~Free(h, e),
         \A q \in FreeSet(h) : nextc(h, q) # x
  PROVE  LET g == fl_push([h EXCEPT !.chunk[e].prevsz = h.chunk[x].size], x) IN
         Heaped(g) /\ (Complete(h0) => Complete(g)) /\ SameBlocks(h, g)
  <1> DEFINE D == DOMAIN h.chunk
             k == [h EXCEPT !.chunk[e].prevsz = h.chunk[x].size]
             g == fl_push(k, x)
             F == FreeSet(h) \ {x}
  <1>1. /\ h.rt_ready = TRUE /\ Tags(h, d) /\ x \in FreeSet(h) /\ Links(h, F) /\ d \in {Null, e}
        /\ Complete(h0) => Reached(h, F)
        /\ \A q \in F : nextc(h, q) \notin F
    BY DEF Loose
  <1>2. WellFormed(h) /\ F \subseteq D /\ x \in D /\ x # h.rt_top
    BY <1>1, FreeChunk DEF Tags, FreeSet
  <1>3. e \in D /\ h.chunk[x].size \in Nat
    BY <1>1, <1>2, SolidFacts, ChunkFacts
  <1>4. Set(h, k, e, h.chunk[e].inuse, h.chunk[x].size)
    BY <1>2, <1>3, TagIs
  <1> HIDE DEF k
  <1>5. Tags(k, Null)
    BY <1>1, <1>2, <1>4, TagsSettled
  <1>6. /\ WellFormed(k) /\ DOMAIN k.chunk = D /\ k.rt_free = h.rt_free /\ k.rt_top = h.rt_top
        /\ k.rt_ready = h.rt_ready /\ SameLinks(h, k, D)
        /\ \A q \in D : k.chunk[q].size = h.chunk[q].size /\ k.chunk[q].inuse = h.chunk[q].inuse
    BY <1>4 DEF Set, SameTags
  <1>7. Links(k, F) /\ (Complete(h0) => Reached(k, F))
    BY <1>1, <1>2, <1>6, LinksKept
  <1>8. Pushed(k, g, x)
    BY <1>2, <1>6, PushIs
  <1> HIDE DEF g
  <1>9. Tags(g, Null)
    BY <1>5, <1>8, TagsPushed
  <1>10. Links(g, F \cup {x}) /\ (Complete(h0) => Reached(g, F \cup {x}))
    <2>1. x \notin F /\ x \in DOMAIN k.chunk /\ F \subseteq DOMAIN k.chunk
      BY <1>2, <1>6
    <2> QED
      BY <1>6, <1>7, <1>8, <2>1, LinksPushed
  <1>11. /\ DOMAIN g.chunk = D /\ g.rt_top = h.rt_top /\ g.rt_ready = h.rt_ready
         /\ \A q \in D : g.chunk[q].size = h.chunk[q].size /\ g.chunk[q].inuse = h.chunk[q].inuse
    BY <1>6, <1>8 DEF Pushed, SameTags
  <1>12. \A q \in D : nextc(g, q) = nextc(h, q)
    BY <1>11 DEF nextc
  <1>13. FreeSet(g) = FreeSet(h) /\ FreeSet(g) = F \cup {x} /\ FreeSet(g) \subseteq D
    BY <1>1, <1>11 DEF FreeSet, Free
  <1>14. Calm(g)
    <2> SUFFICES ASSUME NEW q \in FreeSet(g), nextc(g, q) \in FreeSet(g)  PROVE FALSE
      BY DEF Calm
    <2>1. q \in FreeSet(h) /\ nextc(h, q) \in FreeSet(h)
      BY <1>12, <1>13
    <2>2. q # x
      BY <2>1 DEF FreeSet
    <2>3. nextc(h, q) # x
      BY <2>1
    <2> QED
      BY <1>1, <2>1, <2>2, <2>3
  <1>15. SameBlocks(h, g)
    BY <1>11 DEF SameBlocks, InUse, Free
  <1>16. Heaped(g) /\ (Complete(h0) => Complete(g))
    BY <1>1, <1>9, <1>10, <1>11, <1>13, <1>14 DEF Heaped, Complete
  <1> QED
    BY <1>15, <1>16 DEF g, k

\* Two steps that keep the blocks keep them together.
LEMMA SameBlocksTwice ==
  ASSUME NEW h, NEW g, NEW k, SameBlocks(h, g), SameBlocks(g, k)
  PROVE  SameBlocks(h, k)
  BY DEF SameBlocks

\* After Merge no neighbour of the chunk that is left is free.
LEMMA MergeIs ==
  ASSUME NEW h, NEW c, NEW h0, Loose(h, c, Null, h0)
  PROVE  LET m == Merge(h, c) IN
         /\ \E d : Loose(m.heap, m.ret, d, h0)
         /\ SameBlocks(h, m.heap) /\ ~Free(m.heap, nextc(m.heap, m.ret))
         /\ \A q \in FreeSet(m.heap) : nextc(m.heap, q) # m.ret
  <1> DEFINE n == nextc(h, c)
             g == IF Free(h, n) THEN Absorb(fl_drop(h, n), c, n) ELSE h
             p == prevc(g, c)
             k == Absorb(fl_drop(g, p), p, c)
             m == Merge(h, c)
  <1>1. /\ Tags(h, Null) /\ c \in FreeSet(h)
        /\ \A q \in FreeSet(h) \ {c} : nextc(h, q) \notin FreeSet(h) \ {c}
    BY DEF Loose
  <1>2. WellFormed(h) /\ c \in DOMAIN h.chunk /\ c # h.rt_top /\ c # Null
    BY <1>1, FreeChunk DEF Tags
  <1>3. n \in DOMAIN h.chunk /\ c < n /\ n # Null
    BY <1>1, <1>2, SolidFacts DEF WellFormed, Null
  <1>4. c \in Nat /\ n \in Nat /\ c # n
    BY <1>2, <1>3, ChunkFacts
  <1>5. m = IF p # Null /\ Free(g, p) THEN Result(k, p) ELSE Result(g, c)
    BY DEF Merge
  <1>6. /\ \E d : Loose(g, c, d, h0) /\ d \in {Null, nextc(g, c)}
        /\ SameBlocks(h, g) /\ ~Free(g, nextc(g, c))
    <2>1. CASE ~Free(h, n)
      <3>1. g = h
        BY <2>1
      <3>2. SameBlocks(h, h)
        BY DEF SameBlocks
      <3> HIDE DEF g
      <3> QED
        BY <2>1, <3>1, <3>2
    <2>2. CASE Free(h, n)
      <3> DEFINE e == nextc(h, n)
                 k2 == Absorb(fl_drop(h, n), c, n)
      <3>1. n \in FreeSet(h) \ {c}
        BY <1>3, <1>4, <2>2 DEF FreeSet
      <3>2. n # h.rt_top /\ e \in DOMAIN h.chunk /\ n < e
        BY <1>1, <1>3, <3>1, FreeChunk, SolidFacts
      <3>3. e # c /\ e # n /\ e # Null
        BY <1>2, <1>3, <1>4, <3>2, ChunkFacts DEF Null
      <3>4. ~Free(h, e)
        BY <1>1, <3>1, <3>2, <3>3 DEF FreeSet
      <3>5. /\ Loose(k2, c, e, h0) /\ SameBlocks(h, k2) /\ nextc(k2, c) = e
            /\ FreeSet(k2) = FreeSet(h) \ {n}
        BY <3>1, LooseJoin
      <3>6. g = k2
        BY <2>2
      <3> HIDE DEF g, k2, e
      <3>7. e \in DOMAIN g.chunk
        BY <3>5, <3>6, SolidFacts, FreeChunk DEF Loose
      <3>8. ~Free(g, e)
        BY <3>4, <3>5, <3>6, <3>7 DEF FreeSet
      <3> QED
        BY <3>5, <3>6, <3>8
    <2> QED
      BY <2>1, <2>2
  <1>7. PICK d : Loose(g, c, d, h0) /\ d \in {Null, nextc(g, c)}
    BY <1>6
  <1> HIDE DEF g
  <1>8. /\ Tags(g, d) /\ c \in FreeSet(g)
        /\ \A q \in FreeSet(g) \ {c} : nextc(g, q) \notin FreeSet(g) \ {c}
    BY <1>7 DEF Loose
  <1>9. /\ WellFormed(g) /\ c \in DOMAIN g.chunk /\ c # g.rt_top /\ c # Null /\ c < nextc(g, c)
        /\ c \in Nat /\ nextc(g, c) \in Nat
    BY <1>8, FreeChunk, SolidFacts, ChunkFacts DEF Tags
  <1>10. c # d
    BY <1>7, <1>9
  <1>11. /\ p # Null => p \in DOMAIN g.chunk /\ p # g.rt_top /\ nextc(g, p) = c /\ p < c
         /\ \A q \in DOMAIN g.chunk : q # g.rt_top /\ nextc(g, q) = c => p = q
    BY <1>8, <1>9, <1>10, PrevFacts
  <1>12. CASE p # Null /\ Free(g, p)
    <2>1. m.heap = k /\ m.ret = p
      BY <1>5, <1>12 DEF Result
    <2>2. p \in FreeSet(g) \ {c}
      BY <1>9, <1>11, <1>12 DEF FreeSet
    <2> DEFINE e == nextc(g, c)
    <2>3. /\ Loose(k, p, e, h0) /\ SameBlocks(g, k) /\ nextc(k, p) = e /\ FreeSet(k) = FreeSet(g) \ {c}
          /\ \A q \in FreeSet(k) \ {p} : nextc(k, q) = nextc(g, q)
      BY <1>7, <1>11, <1>12, <2>2, LooseJoin
    <2> HIDE DEF k
    <2>4. SameBlocks(h, k)
      BY <1>6, <2>3, SameBlocksTwice
    <2>5. e \in DOMAIN k.chunk
      BY <2>3, SolidFacts, FreeChunk DEF Loose
    <2>6. ~Free(k, e)
      <3>1. e \notin FreeSet(g)
        BY <1>6 DEF FreeSet
      <3>2. e \notin FreeSet(k)
        BY <2>3, <3>1
      <3> QED
        BY <2>5, <3>2 DEF FreeSet
    <2>7. ASSUME NEW q \in FreeSet(k), nextc(k, q) = p  PROVE FALSE
      <3>1. q # p
        <4>1. p < nextc(k, p)
          BY <2>3, SolidFacts, FreeChunk DEF Loose
        <4>2. p \in Nat
          BY <1>9, <1>11, <1>12, ChunkFacts
        <4> QED
          BY <2>7, <4>1, <4>2
      <3>2. nextc(g, q) = p /\ q \in FreeSet(g) \ {c}
        BY <2>3, <2>7, <3>1
      <3> QED
        BY <1>8, <2>2, <3>2
    <2>8. \A q \in FreeSet(k) : nextc(k, q) # p
      BY <2>7
    <2>9. ~Free(k, nextc(k, p))
      BY <2>3, <2>6
    <2> HIDE DEF m, p, e
    <2> QED
      BY <2>1, <2>3, <2>4, <2>8, <2>9 DEF m
  <1>13. CASE ~(p # Null /\ Free(g, p))
    <2>1. m.heap = g /\ m.ret = c
      BY <1>5, <1>13 DEF Result
    <2>2. ASSUME NEW q \in FreeSet(g), nextc(g, q) = c  PROVE FALSE
      <3>1. q \in DOMAIN g.chunk /\ q # g.rt_top /\ q # Null /\ Free(g, q)
        BY <1>8, FreeChunk
      <3>2. p = q
        BY <1>11, <2>2, <3>1
      <3> QED
        BY <1>13, <3>1, <3>2
    <2>3. \A q \in FreeSet(g) : nextc(g, q) # c
      BY <2>2
    <2> HIDE DEF m
    <2> QED
      BY <1>6, <1>7, <2>1, <2>3 DEF m
  <1> QED
    BY <1>12, <1>13

\* What free() does: the block is gone, the others are as they were.
LEMMA FreeIs ==
  ASSUME NEW h, Heaped(h), NEW a, NEW c, c = a - RT_HDR, c \in InUse(h)
  PROVE  LET g == free(h, a) IN
         /\ Heaped(g) /\ (Complete(h) => Complete(g)) /\ InUse(g) = InUse(h) \ {c}
         /\ \A b \in InUse(g) : g.chunk[b].size = h.chunk[b].size
  <1> DEFINE D == DOMAIN h.chunk
             k == [h EXCEPT !.chunk[c].inuse = FALSE]
             m == Merge(k, c)
             x == m.ret
             e == nextc(m.heap, x)
             F == FreeSet(h)
             g == fl_push([m.heap EXCEPT !.chunk[e].prevsz = m.heap.chunk[x].size], x)
  <1>1. h.rt_ready = TRUE /\ Tags(h, Null) /\ Calm(h) /\ Links(h, F) /\ WellFormed(h)
    BY DEF Heaped, Tags
  <1>2. c \in D /\ c # h.rt_top /\ ~Free(h, c) /\ c \notin F
    BY DEF InUse, FreeSet
  <1>3. free(h, a) = g
    BY DEF free
  <1>4. Set(h, k, c, FALSE, h.chunk[c].prevsz)
    BY <1>1, <1>2, MarkIs
  <1> HIDE DEF k
  <1>5. Tags(k, Null)
    BY <1>1, <1>2, <1>4, TagsMarked
  <1>6. /\ DOMAIN k.chunk = D /\ k.rt_free = h.rt_free /\ k.rt_top = h.rt_top
        /\ k.rt_ready = h.rt_ready /\ SameLinks(h, k, D) /\ ~k.chunk[c].inuse
        /\ \A q \in D : k.chunk[q].size = h.chunk[q].size
        /\ \A q \in D \ {c} : k.chunk[q].inuse = h.chunk[q].inuse
    BY <1>4 DEF Set, SameTags
  <1>7. FreeSet(k) = F \cup {c} /\ FreeSet(k) \ {c} = F /\ F \subseteq D
    BY <1>2, <1>6 DEF FreeSet, Free
  <1>8. Links(k, F) /\ (Complete(h) => Reached(k, F))
    BY <1>1, <1>6, <1>7, LinksKept DEF Complete
  <1>9. \A q \in D : nextc(k, q) = nextc(h, q)
    BY <1>6 DEF nextc
  <1>10. Loose(k, c, Null, h)
    BY <1>1, <1>5, <1>6, <1>7, <1>8, <1>9 DEF Loose, Calm
  <1>11. /\ \E d : Loose(m.heap, x, d, h)
         /\ SameBlocks(k, m.heap) /\ ~Free(m.heap, e)
         /\ \A q \in FreeSet(m.heap) : nextc(m.heap, q) # x
    BY <1>10, MergeIs
  <1> HIDE DEF m
  <1>12. Heaped(g) /\ (Complete(h) => Complete(g)) /\ SameBlocks(m.heap, g)
    BY <1>11, LooseListed
  <1> HIDE DEF g
  <1>13. SameBlocks(k, g)
    BY <1>11, <1>12, SameBlocksTwice
  <1>14. InUse(k) = InUse(h) \ {c}
    BY <1>2, <1>6 DEF InUse, Free
  <1>15. \A b \in InUse(k) : b \in D /\ g.chunk[b].size = h.chunk[b].size
    BY <1>6, <1>13 DEF SameBlocks, InUse
  <1> QED
    BY <1>3, <1>12, <1>13, <1>14, <1>15 DEF SameBlocks

-----------------------------------------------------------------------------
(* Growth.                                                                  *)

\* More memory.
Grown(h, g) ==
  /\ WellFormed(g) /\ g.chunk = h.chunk /\ g.rt_free = h.rt_free /\ g.rt_top = h.rt_top
  /\ g.rt_ready = h.rt_ready /\ h.end <= g.end

\* What sys_grow() does: memory grows by what was asked for, or not at all.
LEMMA GrowIs ==
  ASSUME NEW h, WellFormed(h), NEW bytes \in Nat, NEW grants
  PROVE  LET r == sys_grow(h, bytes, grants) IN
         /\ Grown(h, r.heap) /\ r.ret \in BOOLEAN
         /\ ~r.ret => r.heap = h
         /\ r.ret /\ bytes + Page - 1 < AddrSpace => h.end + bytes <= r.heap.end
  <1> DEFINE w == Wrap(bytes + Page - 1)
             pages == w \div Page
             end == h.end + pages * Page
             r == sys_grow(h, bytes, grants)
             k == [h EXCEPT !.end = end]
  <1>1. r = IF (pages = 0 \/ grants) /\ end <= AddrSpace THEN Result(k, TRUE) ELSE Result(h, FALSE)
    BY DEF sys_grow
  <1>2. Page \in Nat \ {0} /\ AddrSpace \in Nat /\ FirstEnd \in Nat /\ bytes + Page - 1 \in Nat
    BY HeapAssumption
  <1>3. w \in 0 .. AddrSpace - 1
    BY <1>2, WrapRange
  <1>4. pages \in Int /\ w = pages * Page + (w % Page) /\ (w % Page) \in 0 .. Page - 1
    <2>1. w \in Int
      BY <1>2, <1>3
    <2> HIDE DEF w
    <2> QED
      BY <1>2, <2>1, DivMod
  <1> DEFINE extra == pages * Page
             rem == w % Page
  <1>5. pages >= 0
    <2>1. pages <= -1 => pages * Page <= -Page
      <3> HIDE DEF pages
      <3> QED
        BY <1>2, <1>4, SMT
    <2>2. extra \in Int /\ rem \in Int /\ w = extra + rem /\ rem <= Page - 1 /\ w >= 0
      BY <1>2, <1>3, <1>4
    <2>3. extra > -Page
      <3> HIDE DEF extra, rem, w
      <3> QED
        BY <1>2, <1>3, <2>2
    <2>4. pages <= -1 => extra <= -Page
      BY <2>1
    <2> HIDE DEF extra, pages
    <2> QED
      BY <1>2, <1>4, <2>2, <2>3, <2>4
  <1>6. extra \in Nat /\ extra > w - Page
    <2>1. extra >= 0
      <3> HIDE DEF pages
      <3> QED
        BY <1>2, <1>4, <1>5, SMT
    <2>2. extra \in Int /\ rem \in Int /\ w = extra + rem /\ rem <= Page - 1 /\ w \in Int
      BY <1>2, <1>3, <1>4
    <2> HIDE DEF extra, rem, w
    <2> QED
      BY <1>2, <2>1, <2>2
  <1>7. end = h.end + extra
    OBVIOUS
  <1> HIDE DEF w, pages, extra, rem, end
  <1>8. /\ h = [chunk |-> h.chunk, rt_free |-> h.rt_free, rt_top |-> h.rt_top,
                rt_ready |-> h.rt_ready, end |-> h.end]
        /\ h.end \in Nat /\ h.end >= FirstEnd
    BY <1>2 DEF WellFormed, HeapRecord
  <1>9. k = [chunk |-> h.chunk, rt_free |-> h.rt_free, rt_top |-> h.rt_top,
             rt_ready |-> h.rt_ready, end |-> end]
    BY <1>8
  <1> HIDE DEF k
  <1>10. /\ k.chunk = h.chunk /\ k.rt_free = h.rt_free /\ k.rt_top = h.rt_top
         /\ k.rt_ready = h.rt_ready /\ k.end = end
    BY <1>9
  <1>11. end <= AddrSpace => Grown(h, k)
    <2>1. end \in Nat /\ end >= h.end
      BY <1>6, <1>7, <1>8
    <2>2. end <= AddrSpace => WellFormed(k)
      BY <1>2, <1>8, <1>9, <1>10, <2>1 DEF WellFormed, HeapRecord
    <2> QED
      BY <1>10, <2>1, <2>2 DEF Grown
  <1>12. Grown(h, h)
    BY <1>8 DEF Grown
  <1>13. bytes + Page - 1 < AddrSpace => extra >= bytes
    <2> SUFFICES ASSUME bytes + Page - 1 < AddrSpace  PROVE extra >= bytes
      OBVIOUS
    <2>1. w = bytes + Page - 1
      BY <1>2, Unwrapped DEF w
    <2> QED
      BY <1>2, <1>6, <2>1
  <1>14. CASE (pages = 0 \/ grants) /\ end <= AddrSpace
    <2>1. r.heap = k /\ r.ret = TRUE
      BY <1>1, <1>14 DEF Result
    <2> HIDE DEF r
    <2>2. bytes + Page - 1 < AddrSpace => h.end + bytes <= r.heap.end
      BY <1>6, <1>7, <1>8, <1>10, <1>13, <2>1
    <2>3. Grown(h, r.heap) /\ r.ret \in BOOLEAN /\ (~r.ret => r.heap = h)
      BY <1>11, <1>14, <2>1
    <2> QED
      BY <2>2, <2>3 DEF r
  <1>15. CASE ~((pages = 0 \/ grants) /\ end <= AddrSpace)
    <2>1. r.heap = h /\ r.ret = FALSE
      BY <1>1, <1>15 DEF Result
    <2> HIDE DEF r
    <2>2. Grown(h, r.heap) /\ r.ret \in BOOLEAN /\ (~r.ret => r.heap = h) /\ ~r.ret
      BY <1>12, <2>1
    <2> QED
      BY <2>2 DEF r
  <1> QED
    BY <1>14, <1>15

\* More memory after the sentinel changes no tag.
LEMMA TagsGrown ==
  ASSUME NEW h, NEW d, Tags(h, d), NEW g, Grown(h, g)
  PROVE  Tags(g, d)
  <1>1. WellFormed(g) /\ g.chunk = h.chunk /\ g.rt_top = h.rt_top /\ h.end <= g.end
    BY DEF Grown
  <1>2. HasTop(h) /\ h.end \in Nat /\ g.end \in Nat /\ h.rt_top \in Nat /\ RT_HDR \in Nat
    BY <1>1, Units, AlignIs, HeapAssumption DEF Tags, WellFormed
  <1>3. HasTop(g)
    BY <1>1, <1>2 DEF HasTop
  <1>4. \A a : nextc(g, a) = nextc(h, a)
    BY <1>1 DEF nextc
  <1> QED
    BY <1>1, <1>3, <1>4 DEF Tags, Solid

\* The allocator before its first call.
Fresh(h) == WellFormed(h) /\ h.rt_ready = FALSE /\ DOMAIN h.chunk = {} /\ h.rt_free = Null
Sane(h)  == Fresh(h) \/ Heaped(h)

\* The first chunk reaches from the start of the heap to the sentinel.
LEMMA InitIs ==
  ASSUME NEW h, Sane(h), NEW grants
  PROVE  LET r == rt_init(h, grants) IN
         /\ r.ret \in BOOLEAN
         /\ r.ret => Heaped(r.heap) /\ (Complete(h) => Complete(r.heap)) /\ SameBlocks(h, r.heap)
         /\ ~r.ret => r.heap = h
  <1> DEFINE lo == HeapBase + ((-HeapBase) % RT_ALIGN)
             min == lo + RT_MIN + RT_HDR
             bytes == lo + RT_MIN + RT_HDR - h.end + Page
             s == sys_grow(h, bytes, grants)
             q == IF h.end < lo + RT_MIN + RT_HDR
                  THEN sys_grow(h, lo + RT_MIN + RT_HDR - h.end + Page, grants) ELSE Result(h, TRUE)
             ready == [q.heap EXCEPT !.rt_ready = TRUE, !.rt_free = Null]
             span == AlignDown(ready.end - lo - RT_HDR)
             g == rt_settop(ready, lo, span, 0)
             r == rt_init(h, grants)
  <1>1. r = IF h.rt_ready THEN Result(h, TRUE)
            ELSE IF ~q.ret \/ q.heap.end < lo + RT_MIN + RT_HDR THEN Result(q.heap, FALSE)
            ELSE Result(g, TRUE)
    BY DEF rt_init
  <1>2. CASE Heaped(h)
    <2>1. r.heap = h /\ r.ret = TRUE
      BY <1>1, <1>2 DEF Result, Heaped
    <2>2. SameBlocks(h, h)
      BY DEF SameBlocks
    <2> HIDE DEF r
    <2> QED
      BY <1>2, <2>1, <2>2 DEF r
  <1>3. CASE Fresh(h)
    <2>1. WellFormed(h) /\ h.rt_ready = FALSE /\ DOMAIN h.chunk = {}
      BY <1>3 DEF Fresh
    <2>2. /\ HeapBase \in Nat \ {0} /\ FirstEnd \in Nat /\ Page \in Nat \ {0} /\ AddrSpace \in Nat
          /\ RT_ALIGN \in Nat \ {0} /\ RT_HDR = RT_ALIGN /\ RT_MIN = 2 * RT_ALIGN
          /\ HeapBase + RT_ALIGN <= FirstEnd /\ 3 * RT_ALIGN + 2 * Page <= AddrSpace
      BY Units, HeapAssumption
    <2>3. h.end \in Nat /\ FirstEnd <= h.end
      BY <2>1, <2>2 DEF WellFormed
    <2> DEFINE m == (-HeapBase) % RT_ALIGN
    <2>4. m \in 0 .. RT_ALIGN - 1 /\ Aligned(HeapBase + m)
      <3> DEFINE kk == (-HeapBase) \div RT_ALIGN
                 nn == -HeapBase
      <3>1. nn \in Int /\ RT_ALIGN \in Nat \ {0} /\ nn = -HeapBase
        BY <2>2
      <3> HIDE DEF nn
      <3>2. nn \div RT_ALIGN \in Int /\ nn = (nn \div RT_ALIGN) * RT_ALIGN + (nn % RT_ALIGN)
            /\ (nn % RT_ALIGN) \in 0 .. RT_ALIGN - 1
        BY <3>1, DivMod
      <3>3. kk = nn \div RT_ALIGN /\ m = nn % RT_ALIGN
        BY DEF nn
      <3> HIDE DEF kk, m
      <3>4. kk \in Int /\ nn = kk * RT_ALIGN + m /\ m \in 0 .. RT_ALIGN - 1
        BY <3>2, <3>3
      <3> DEFINE x == kk * RT_ALIGN
      <3>5. x \in Int /\ HeapBase + m = 0 - x
        BY <2>2, <3>1, <3>4
      <3>6. 0 - x = (0 - kk) * RT_ALIGN
        BY <2>2, <3>4, SMT
      <3>7. Aligned((0 - kk) * RT_ALIGN)
        <4>1. 0 - kk \in Int
          BY <3>4
        <4> QED
          BY <4>1, Multiple
      <3> QED
        BY <3>4, <3>5, <3>6, <3>7
    <2> HIDE DEF m
    <2>5. lo = HeapBase + m
      BY DEF m
    <2> HIDE DEF lo
    <2>6. lo \in Nat \ {0} /\ Aligned(lo) /\ lo <= FirstEnd
      BY <2>2, <2>4, <2>5
    <2>7. min = lo + 3 * RT_ALIGN /\ min \in Nat /\ bytes = min - h.end + Page
      BY <2>2, <2>3, <2>6
    <2>8. /\ Grown(h, q.heap) /\ q.ret \in BOOLEAN /\ (~q.ret => q.heap = h)
          /\ q.ret => min <= q.heap.end
      <3>1. CASE h.end < min
        <4>1. q = s
          <5>1. h.end < lo + RT_MIN + RT_HDR
            BY <3>1
          <5>2. q = sys_grow(h, lo + RT_MIN + RT_HDR - h.end + Page, grants)
            BY <5>1
          <5>3. s = sys_grow(h, lo + RT_MIN + RT_HDR - h.end + Page, grants)
            OBVIOUS
          <5> QED
            BY <5>2, <5>3
        <4>2. bytes \in Nat /\ bytes + Page - 1 < AddrSpace /\ h.end + bytes = min + Page
          BY <2>2, <2>3, <2>6, <2>7, <3>1
        <4> HIDE DEF bytes, min, q
        <4>3. /\ Grown(h, s.heap) /\ s.ret \in BOOLEAN /\ (~s.ret => s.heap = h)
              /\ s.ret => h.end + bytes <= s.heap.end
          BY <2>1, <4>2, GrowIs
        <4>4. s.heap.end \in Nat
          BY <2>2, <4>3 DEF Grown, WellFormed
        <4> HIDE DEF s
        <4> QED
          BY <2>2, <2>3, <2>7, <4>1, <4>2, <4>3, <4>4
      <3>2. CASE ~(h.end < min)
        <4>1. q.heap = h /\ q.ret = TRUE
          BY <3>2 DEF Result
        <4>2. Grown(h, h)
          BY <2>1, <2>3 DEF Grown
        <4> HIDE DEF q, min
        <4>3. min <= q.heap.end
          BY <2>3, <2>7, <3>2, <4>1
        <4>4. q.ret \in BOOLEAN /\ ~(~q.ret)
          BY <4>1
        <4> QED
          BY <4>1, <4>2, <4>3, <4>4
      <3> QED
        BY <3>1, <3>2
    <2> HIDE DEF q
    <2>9. CASE ~q.ret
      <3>1. r.heap = h /\ r.ret = FALSE
        BY <1>1, <2>1, <2>8, <2>9 DEF Result
      <3> HIDE DEF r
      <3> QED
        BY <3>1 DEF r
    <2>10. CASE q.ret
      <3>1. r.heap = g /\ r.ret = TRUE
        <4>1. ~(q.heap.end < lo + RT_MIN + RT_HDR)
          <5>1. min <= q.heap.end /\ q.heap.end \in Nat
            BY <2>2, <2>8, <2>10 DEF Grown, WellFormed
          <5> QED
            BY <2>2, <2>6, <5>1
        <4> QED
          BY <1>1, <2>1, <2>10, <4>1 DEF Result
      <3>2. /\ q.heap = [chunk |-> q.heap.chunk, rt_free |-> q.heap.rt_free, rt_top |-> q.heap.rt_top,
                         rt_ready |-> q.heap.rt_ready, end |-> q.heap.end]
            /\ WellFormed(q.heap) /\ q.heap.chunk = h.chunk /\ q.heap.end \in Nat
        BY <2>2, <2>8 DEF Grown, WellFormed, HeapRecord
      <3> DEFINE zero == Null
                 yes == TRUE
      <3> HIDE DEF zero, yes
      <3>3. ready = [q.heap EXCEPT !.rt_ready = yes, !.rt_free = zero]
        BY DEF zero, yes
      <3> HIDE DEF ready
      <3>4. ready = [chunk |-> h.chunk, rt_free |-> zero, rt_top |-> q.heap.rt_top,
                     rt_ready |-> yes, end |-> q.heap.end]
        BY <3>2, <3>3
      <3>5. /\ ready.chunk = h.chunk /\ ready.rt_free = zero /\ ready.rt_top = q.heap.rt_top
            /\ ready.rt_ready = yes /\ ready.end = q.heap.end
        BY <3>4
      <3>6. HeapRecord(ready)
        BY <3>4, <3>5 DEF HeapRecord
      <3>7. yes \in BOOLEAN /\ yes = TRUE /\ zero \in Nat /\ zero = Null
        BY DEF yes, zero, Null
      <3>8. WellFormed(ready)
        BY <3>2, <3>5, <3>6, <3>7 DEF WellFormed
      <3>9. /\ span \in Nat /\ Aligned(span) /\ span >= RT_MIN /\ span # 0
            /\ lo + span + RT_HDR <= ready.end
        <4> DEFINE v == ready.end - lo - RT_HDR
        <4>1. v \in Int /\ v >= RT_MIN /\ RT_MIN \in Nat /\ RT_MIN # 0
          BY <2>2, <2>6, <2>7, <2>8, <2>10, <3>2, <3>5
        <4>2. /\ span \in Int /\ Aligned(span) /\ span <= v /\ RT_MIN <= span
          <5> HIDE DEF v
          <5>1. AlignDown(v) \in Int /\ Aligned(AlignDown(v)) /\ AlignDown(v) <= v
                /\ \A z \in Int : Aligned(z) /\ z <= v => z <= AlignDown(v)
            BY <4>1, DownIs
          <5>2. Aligned(RT_MIN)
            BY Units
          <5>3. RT_MIN <= AlignDown(v)
            BY <4>1, <5>1, <5>2
          <5> QED
            BY <5>1, <5>3 DEF v
        <4> HIDE DEF span
        <4> QED
          BY <2>2, <2>6, <3>2, <3>5, <4>1, <4>2
      <3> HIDE DEF span
      <3> DEFINE p == 0
      <3>10. p \in Nat /\ p = 0 /\ ready.rt_free < lo
        BY <2>6, <3>5, <3>7 DEF Null
      <3>11. g = rt_settop(ready, lo, span, p)
        OBVIOUS
      <3> HIDE DEF p, g
      <3>12. Topped(ready, g, lo, span, p)
        BY <2>6, <3>8, <3>9, <3>10, <3>11, SettopIs
      <3>13. /\ DOMAIN g.chunk = {lo, lo + span} /\ g.rt_top = lo + span /\ g.rt_ready = TRUE
             /\ g.end = ready.end /\ ~g.chunk[lo].inuse /\ g.chunk[lo + span].inuse
             /\ g.chunk[lo].size = span
        BY <2>1, <3>5, <3>7, <3>12 DEF Topped
      <3>14. DOMAIN ready.chunk = {}
        BY <2>1, <3>5
      <3>15. Base(ready, lo, p)
        BY <3>10, <3>14, BaseEmpty
      <3>16. Tags(g, Null)
        BY <2>6, <3>8, <3>9, <3>10, <3>12, <3>13, <3>15, TagsTopped
      <3>17. Links(ready, {}) /\ Reached(ready, {})
        <4>1. Links(ready, {})
          BY <3>5, <3>7, <3>14 DEF Links
        <4>2. Ranked(ready, {}, [a \in {} |-> p])
          BY <3>10 DEF Ranked
        <4> QED
          BY <4>1, <4>2 DEF Reached
      <3>18. Links(g, {} \cup {lo}) /\ Reached(g, {} \cup {lo})
        <4> DEFINE none == {}
        <4>1. none \subseteq {b \in DOMAIN ready.chunk : b < lo} /\ Links(ready, none) /\ Reached(ready, none)
              /\ span \in Nat \ {0} /\ none = {}
          BY <3>9, <3>17
        <4> HIDE DEF none
        <4> QED
          BY <2>6, <3>8, <3>12, <4>1, LinksTopped
      <3>19. lo # lo + span /\ nextc(g, lo) = lo + span
        BY <2>6, <3>9, <3>13 DEF nextc
      <3>20. FreeSet(g) = {lo} /\ InUse(g) = {}
        BY <3>13, <3>19 DEF FreeSet, InUse, Free
      <3>21. Calm(g)
        BY <3>19, <3>20 DEF Calm
      <3>22. InUse(h) = {}
        BY <2>1 DEF InUse
      <3>23. Heaped(g) /\ Complete(g)
        <4>1. {} \cup {lo} = {lo}
          OBVIOUS
        <4> QED
          BY <3>13, <3>16, <3>18, <3>20, <3>21, <4>1 DEF Heaped, Complete
      <3>24. SameBlocks(h, g)
        BY <3>20, <3>22 DEF SameBlocks
      <3> HIDE DEF r
      <3> QED
        BY <3>1, <3>23, <3>24 DEF r
    <2> QED
      BY <2>8, <2>9, <2>10
  <1> QED
    BY <1>2, <1>3 DEF Sane

\* Memory that grew has a new last chunk of at least `need` bytes, at the head of the
\* list; when it did not, the last chunk is off the list.
LEMMA ExtendIs ==
  ASSUME NEW h, Heaped(h), NEW need \in Nat, Aligned(need), need >= RT_MIN, NEW grants
  PROVE  LET r == rt_extend(h, need, grants) IN
         /\ r.ret \in BOOLEAN /\ Heaped(r.heap) /\ SameBlocks(h, r.heap)
         /\ r.ret => /\ Complete(h) => Complete(r.heap)
                     /\ r.heap.rt_free # Null /\ r.heap.chunk[r.heap.rt_free].size >= need
  <1> DEFINE D == DOMAIN h.chunk
             top == h.rt_top
             last == prevc(h, h.rt_top)
             open == last # Null /\ Free(h, last)
             at == IF open THEN last ELSE h.rt_top
             k == IF open THEN fl_drop(h, last) ELSE h
             more == Wrap(need + RT_HDR + Page)
             s == sys_grow(k, more, grants)
             span == AlignDown(s.heap.end - at - RT_HDR)
             p == h.chunk[at].prevsz
             g == rt_settop(s.heap, at, span, p)
             r == rt_extend(h, need, grants)
             F == IF open THEN FreeSet(h) \ {last} ELSE FreeSet(h)
  <1>1. r = IF ~s.ret \/ span < need THEN Result(s.heap, FALSE) ELSE Result(g, TRUE)
    BY DEF rt_extend
  <1>2. /\ h.rt_ready = TRUE /\ Tags(h, Null) /\ Calm(h) /\ Links(h, FreeSet(h))
        /\ WellFormed(h) /\ HasTop(h)
    BY DEF Heaped, Tags
  <1>3. /\ top \in D /\ top \in Nat \ {0} /\ top # Null /\ ~Free(h, top) /\ Aligned(top) /\ top = h.rt_top
    BY <1>2, ChunkFacts DEF HasTop, Null, Free
  <1>4. /\ last # Null => last \in D /\ last # top /\ nextc(h, last) = top /\ last < top
        /\ \A q \in D : q # top /\ nextc(h, q) = top => last = q
    <2> HIDE DEF last
    <2> QED
      BY <1>2, <1>3, PrevFacts DEF last
  <1> HIDE DEF top, last
  <1>5. /\ at \in D /\ at \in Nat \ {0} /\ at # Null /\ p \in Nat /\ Aligned(at)
    <2>1. at \in D
      BY <1>3, <1>4
    <2>2. open => last # top
      BY <1>4
    <2>3. Aligned(at)
      BY <1>2, <1>3, <1>4, <2>2 DEF Tags, Solid
    <2> HIDE DEF at
    <2> QED
      BY <1>2, <2>1, <2>3, ChunkFacts DEF Null
  <1>6. F \subseteq FreeSet(h) /\ FreeSet(h) \subseteq D /\ top \notin FreeSet(h)
    BY <1>3 DEF FreeSet
  <1>7. F \subseteq {b \in D : b < at}
    <2> SUFFICES ASSUME NEW b \in F  PROVE b < at
      BY <1>6
    <2>1. b \in FreeSet(h) /\ b \in D /\ b # h.rt_top /\ b # top
      BY <1>2, <1>6, FreeChunk
    <2>2. b < nextc(h, b) /\ nextc(h, b) <= top /\ b \in Nat /\ nextc(h, b) \in Nat
      BY <1>2, <1>3, <2>1, SolidFacts, ChunkFacts
    <2>3. b < top
      BY <1>3, <2>2
    <2>4. CASE open
      <3>1. b # last /\ last \in D /\ last # h.rt_top /\ nextc(h, last) = top /\ last \in Nat
        BY <1>2, <1>3, <1>4, <2>4, ChunkFacts
      <3>2. b <= last
        BY <1>2, <2>1, <2>3, <3>1, SolidFacts
      <3>3. b < last
        BY <2>2, <3>1, <3>2
      <3> QED
        BY <2>4, <3>3
    <2>5. CASE ~open
      BY <1>3, <2>3, <2>5
    <2> QED
      BY <2>4, <2>5
  <1>8. /\ Tags(k, Null) /\ Links(k, F) /\ (Complete(h) => Reached(k, F))
        /\ DOMAIN k.chunk = D /\ k.rt_top = h.rt_top /\ k.rt_ready = h.rt_ready /\ k.end = h.end
        /\ \A a \in D : /\ k.chunk[a].size = h.chunk[a].size /\ k.chunk[a].inuse = h.chunk[a].inuse
                        /\ k.chunk[a].prevsz = h.chunk[a].prevsz
    <2>1. CASE open
      <3>1. k = fl_drop(h, last) /\ last \in D /\ last \in FreeSet(h) /\ F = FreeSet(h) \ {last}
        BY <1>4, <2>1 DEF FreeSet
      <3> HIDE DEF k, F
      <3>2. Dropped(h, k, last)
        BY <1>2, <3>1, DropIs
      <3>3. Tags(k, Null)
        BY <1>2, <3>2, TagsDropped
      <3>4. Links(k, F) /\ (Complete(h) => Reached(k, F))
        BY <1>2, <1>6, <3>1, <3>2, LinksDropped DEF Complete
      <3> QED
        BY <3>2, <3>3, <3>4 DEF Dropped, SameTags
    <2>2. CASE ~open
      <3>1. k = h /\ F = FreeSet(h)
        BY <2>2
      <3> HIDE DEF k, F
      <3> QED
        BY <1>2, <3>1 DEF Complete
    <2> QED
      BY <2>1, <2>2
  <1>9. /\ \A q \in F : nextc(h, q) # at
        /\ at \notin F
    <2>1. at \notin F
      BY <1>5, <1>7
    <2>2. ASSUME NEW q \in F, nextc(h, q) = at  PROVE FALSE
      <3>1. q \in FreeSet(h) /\ q \in D /\ q # h.rt_top /\ Free(h, q) /\ q # Null
        BY <1>2, <1>6, FreeChunk
      <3>2. CASE open
        <4>1. at \in FreeSet(h)
          BY <1>4, <3>2 DEF FreeSet
        <4> QED
          BY <1>2, <2>2, <3>1, <4>1 DEF Calm
      <3>3. CASE ~open
        <4>1. at = top
          BY <1>3, <3>3
        <4>2. last = q
          BY <1>3, <1>4, <2>2, <3>1, <4>1
        <4> QED
          BY <3>1, <3>3, <4>2
      <3> QED
        BY <3>2, <3>3
    <2> QED
      BY <2>1, <2>2
  <1>10. WellFormed(k)
    BY <1>8 DEF Tags
  <1>11. more \in Nat
    <2>1. need + RT_HDR + Page \in Int
      BY Units, AlignIs, HeapAssumption
    <2>2. more \in 0 .. AddrSpace - 1
      BY <2>1, WrapRange
    <2> QED
      BY <2>2, HeapAssumption
  <1>o. /\ (open => at = last /\ F = FreeSet(h) \ {last})
        /\ (~open => at = top /\ F = FreeSet(h))
    BY <1>3
  <1>n. last # Null /\ Free(h, last) => open
    OBVIOUS
  <1> HIDE DEF k, more, at, F, open
  <1>12. Grown(k, s.heap) /\ s.ret \in BOOLEAN
    BY <1>10, <1>11, GrowIs
  <1> DEFINE w == s.heap
  <1>13. g = rt_settop(w, at, span, p) /\ w = s.heap /\ span = AlignDown(w.end - at - RT_HDR)
    OBVIOUS
  <1>14. r = IF ~s.ret \/ span < need THEN Result(w, FALSE) ELSE Result(g, TRUE)
    BY <1>1
  <1> HIDE DEF w, s, span, p, g, r
  <1>15. Tags(w, Null)
    BY <1>8, <1>12, <1>13, TagsGrown
  <1>16. /\ WellFormed(w) /\ DOMAIN w.chunk = D /\ w.rt_top = top /\ w.rt_ready = TRUE
         /\ w.rt_free = k.rt_free /\ w.chunk = k.chunk /\ w.end \in Nat
         /\ \A a \in D : /\ w.chunk[a].size = h.chunk[a].size /\ w.chunk[a].inuse = h.chunk[a].inuse
                         /\ w.chunk[a].prevsz = h.chunk[a].prevsz /\ nextc(w, a) = nextc(h, a)
    BY <1>2, <1>3, <1>8, <1>12, <1>13, HeapAssumption DEF Grown, WellFormed, nextc
  <1>17. Links(w, F) /\ (Complete(h) => Reached(w, F))
    <2>1. SameLinks(k, w, DOMAIN w.chunk)
      BY <1>16 DEF SameLinks
    <2>2. DOMAIN w.chunk \subseteq DOMAIN k.chunk /\ F \subseteq DOMAIN w.chunk
      BY <1>6, <1>8, <1>16
    <2> QED
      BY <1>8, <1>16, <2>1, <2>2, LinksKept
  <1>18. FreeSet(w) = FreeSet(h) /\ InUse(w) = InUse(h)
    BY <1>3, <1>16 DEF FreeSet, InUse, Free
  <1>19. CASE ~s.ret \/ span < need
    <2>1. r.heap = w /\ r.ret = FALSE
      BY <1>14, <1>19 DEF Result
    <2>2. Links(w, FreeSet(w))
      BY <1>6, <1>17, <1>18, LinksMore
    <2>3. Calm(w)
      BY <1>2, <1>6, <1>16, <1>18 DEF Calm
    <2>4. Heaped(w)
      BY <1>15, <1>16, <2>2, <2>3 DEF Heaped
    <2>5. SameBlocks(h, w)
      BY <1>16, <1>18 DEF SameBlocks, InUse
    <2> QED
      BY <2>1, <2>4, <2>5 DEF r
  <1>20. CASE ~(~s.ret \/ span < need)
    <2>1. r.heap = g /\ r.ret = TRUE
      BY <1>14, <1>20 DEF Result
    <2>2. /\ span \in Nat /\ span >= need /\ Aligned(span) /\ span >= RT_MIN /\ span # 0
          /\ at + span + RT_HDR <= w.end
      <3> DEFINE v == w.end - at - RT_HDR
      <3>1. v \in Int /\ RT_MIN \in Nat \ {0} /\ RT_HDR \in Nat /\ span = AlignDown(v)
        BY <1>5, <1>13, <1>16, Units, AlignIs
      <3>2. v = w.end - at - RT_HDR
        OBVIOUS
      <3> HIDE DEF v
      <3>3. span \in Int /\ Aligned(span) /\ span <= v
        BY <3>1, DownIs
      <3>4. span >= need
        BY <1>20, <3>3
      <3> QED
        BY <1>5, <1>16, <3>1, <3>2, <3>3, <3>4
    <2>3. w.rt_free < at
      <3>1. w.rt_free # Null => w.rt_free \in F
        BY <1>17 DEF Links
      <3> QED
        BY <1>5, <1>7, <3>1 DEF Null
    <2>4. Topped(w, g, at, span, p)
      BY <1>5, <1>13, <1>16, <2>2, <2>3, SettopIs
    <2>5. Base(w, at, p)
      <3>1. p = w.chunk[at].prevsz
        BY <1>5, <1>16 DEF p
      <3> QED
        BY <1>5, <1>15, <1>16, <3>1, BaseOf
    <2> DEFINE B == {b \in D : b < at}
               t == at + span
    <2>6. /\ DOMAIN g.chunk = B \cup {at, t} /\ g.rt_free = at /\ g.rt_top = t
          /\ g.rt_ready = TRUE /\ g.end = w.end
          /\ \A a \in B : g.chunk[a].size = w.chunk[a].size /\ g.chunk[a].inuse = w.chunk[a].inuse
          /\ g.chunk[at].size = span /\ ~g.chunk[at].inuse /\ g.chunk[t].inuse
      BY <1>16, <2>4 DEF Topped, SameTags
    <2>7. at # t /\ at \notin B /\ t \notin B /\ nextc(g, at) = t
      BY <1>5, <2>2, <2>6 DEF nextc
    <2> HIDE DEF t
    <2>8. Tags(g, Null)
      BY <1>5, <1>16, <2>2, <2>4, <2>5, <2>6, TagsTopped DEF t
    <2>9. Links(g, F \cup {at}) /\ (Complete(h) => Reached(g, F \cup {at}))
      <3>1. F \subseteq {b \in DOMAIN w.chunk : b < at} /\ span \in Nat \ {0}
        BY <1>7, <1>16, <2>2
      <3> QED
        BY <1>5, <1>16, <1>17, <2>4, <3>1, LinksTopped
    <2>10. \A a \in B : g.chunk[a].inuse = h.chunk[a].inuse /\ nextc(g, a) = nextc(h, a)
      BY <1>16, <2>6 DEF nextc
    <2>11. FreeSet(g) = F \cup {at}
      <3>1. \A a \in B : a \in FreeSet(h) <=> a \in F
        BY <1>6, <1>o, <2>7
      <3>2. \A a \in B : a \in FreeSet(g) <=> a \in F
        BY <2>6, <2>10, <3>1 DEF FreeSet, Free
      <3> QED
        BY <1>7, <2>6, <2>7, <3>2 DEF FreeSet, Free
    <2>12. Calm(g)
      <3> SUFFICES ASSUME NEW q \in FreeSet(g), nextc(g, q) \in FreeSet(g)  PROVE FALSE
        BY DEF Calm
      <3>1. CASE q = at
        BY <1>7, <2>7, <2>11, <3>1
      <3>2. CASE q \in F
        <4>1. q \in B /\ nextc(g, q) = nextc(h, q)
          BY <1>7, <2>10, <3>2
        <4>2. nextc(h, q) # at
          BY <1>9, <3>2
        <4>3. nextc(h, q) \in FreeSet(h)
          BY <1>6, <2>11, <4>1, <4>2
        <4> QED
          BY <1>2, <1>6, <3>2, <4>3 DEF Calm
      <3> QED
        BY <2>11, <3>1, <3>2
    <2>13. SameBlocks(h, g)
      <3>1. \A a \in InUse(h) : a \in B
        <4> SUFFICES ASSUME NEW a \in InUse(h)  PROVE a < at
          BY DEF InUse
        <4>1. a \in D /\ a # h.rt_top /\ ~Free(h, a)
          BY DEF InUse
        <4>2. a < nextc(h, a) /\ nextc(h, a) <= top /\ a \in Nat /\ nextc(h, a) \in Nat
          BY <1>2, <1>3, <4>1, SolidFacts, ChunkFacts
        <4>3. a < top
          BY <1>3, <4>2
        <4>4. CASE open
          <5>1. last \in D /\ last # h.rt_top /\ nextc(h, last) = top /\ last \in Nat /\ Free(h, last) /\ at = last
            BY <1>2, <1>3, <1>4, <1>o, <4>4, ChunkFacts DEF open
          <5>2. a <= last /\ a # last
            BY <1>2, <4>1, <4>3, <5>1, SolidFacts
          <5> QED
            BY <4>2, <5>1, <5>2
        <4>5. CASE ~open
          BY <1>o, <4>3, <4>5
        <4> QED
          BY <4>4, <4>5
      <3>2. \A a \in B : a # h.rt_top
        BY <1>2 , <1>5 DEF Tags
      <3>3. InUse(g) = {a \in B : ~h.chunk[a].inuse = FALSE}
        BY <2>6, <2>7, <2>10 DEF InUse, Free
      <3>4. InUse(h) = {a \in B : ~h.chunk[a].inuse = FALSE}
        BY <3>1, <3>2 DEF InUse, Free
      <3> QED
        BY <1>16, <2>6, <3>1, <3>3, <3>4 DEF SameBlocks
    <2>14. Heaped(g) /\ (Complete(h) => Complete(g))
      BY <2>6, <2>8, <2>9, <2>11, <2>12 DEF Heaped, Complete
    <2>15. g.rt_free # Null /\ g.chunk[g.rt_free].size >= need
      BY <1>5, <2>2, <2>6
    <2> QED
      BY <2>1, <2>13, <2>14, <2>15 DEF r
  <1> QED
    BY <1>19, <1>20

-----------------------------------------------------------------------------
(* Walking the free list.                                                   *)

\* A set of numbers that is not empty has a first one.
LEMMA Least ==
  ASSUME NEW T, T \subseteq Nat, T # {}
  PROVE  \E c \in T : \A d \in T : c <= d
  <1>1. \E c \in T : \A d \in T : ~ (<<d, c>> \in OpToRel(<, Nat))
    BY NatLessThanWellFounded, WFMin, Zenon
  <1>2. PICK c \in T : \A d \in T : ~ (<<d, c>> \in OpToRel(<, Nat))
    BY <1>1
  <1>3. c \in T
    BY <1>2
  <1>4. ASSUME NEW d \in T  PROVE c <= d
    <2>1. c \in Nat /\ d \in Nat
      BY <1>3
    <2>2. ~ (<<d, c>> \in OpToRel(<, Nat))
      BY <1>2
    <2>3. ~ (d < c)
      BY <2>1, <2>2 DEF OpToRel
    <2> QED
      BY <2>1, <2>3
  <1> QED
    BY <1>3, <1>4

\* A property of 0 that passes from each number to the next holds up to n.
LEMMA UpTo ==
  ASSUME NEW n \in Nat, NEW S \in SUBSET (0 .. n), 0 \in S,
         \A m \in 1 .. n : m - 1 \in S => m \in S
  PROVE  S = 0 .. n
  <1> DEFINE T == (0 .. n) \ S
  <1>1. SUFFICES ASSUME T # {}  PROVE FALSE
    OBVIOUS
  <1>2. T \subseteq Nat
    OBVIOUS
  <1> HIDE DEF T
  <1>3. PICK c \in T : \A d \in T : c <= d
    BY <1>1, <1>2, Least
  <1>4. c \in 1 .. n /\ c - 1 \in 0 .. n /\ c \notin S
    BY <1>3 DEF T
  <1>5. c - 1 \notin T
    BY <1>2, <1>3, <1>4
  <1> QED
    BY <1>4, <1>5 DEF T

\* f follows the links from the head of the list for n steps.
Walk(f, h, F, n) ==
  /\ f \in [0 .. n -> F \cup {Null}] /\ f[0] = h.rt_free
  /\ \A i \in 1 .. n : f[i] = IF f[i - 1] = Null THEN Null ELSE h.chunk[f[i - 1]].fnext

\* There is such a walk.
LEMMA WalkExists ==
  ASSUME NEW h, NEW F, Links(h, F), F \subseteq DOMAIN h.chunk, NEW n \in Nat
  PROVE  \E f : Walk(f, h, F, n)
  <1> DEFINE V == F \cup {Null}
             S == {m \in 0 .. n : \E f : Walk(f, h, F, m)}
  <1>1. 0 \in S
    <2> DEFINE f == [i \in 0 .. 0 |-> h.rt_free]
    <2>1. h.rt_free \in V
      BY DEF Links
    <2>2. Walk(f, h, F, 0)
      BY <2>1 DEF Walk
    <2> QED
      BY <2>2
  <1>2. ASSUME NEW m \in 1 .. n, m - 1 \in S  PROVE m \in S
    <2>1. PICK f : Walk(f, h, F, m - 1)
      BY <1>2
    <2>2. /\ f \in [0 .. m - 1 -> V] /\ f[0] = h.rt_free
          /\ \A i \in 1 .. m - 1 : f[i] = IF f[i - 1] = Null THEN Null ELSE h.chunk[f[i - 1]].fnext
      BY <2>1 DEF Walk
    <2> DEFINE v == f[m - 1]
               x == IF v = Null THEN Null ELSE h.chunk[v].fnext
               g == [i \in 0 .. m |-> IF i = m THEN x ELSE f[i]]
    <2>3. v \in V
      BY <2>2
    <2>4. x \in V
      <3> HIDE DEF v
      <3> QED
        BY <2>3 DEF Links
    <2>5. g \in [0 .. m -> V] /\ g[0] = h.rt_free
      <3> HIDE DEF x
      <3> QED
        BY <2>2, <2>4
    <2>6. ASSUME NEW i \in 1 .. m
          PROVE  g[i] = IF g[i - 1] = Null THEN Null ELSE h.chunk[g[i - 1]].fnext
      <3>1. CASE i = m
        <4>1. g[i] = x /\ g[i - 1] = v
          BY <3>1
        <4> QED
          BY <4>1
      <3>2. CASE i # m
        <4>1. i \in 1 .. m - 1
          BY <3>2
        <4>2. g[i] = f[i] /\ g[i - 1] = f[i - 1]
          BY <3>2, <4>1
        <4> QED
          BY <2>2, <4>1, <4>2
      <3> QED
        BY <3>1, <3>2
    <2> HIDE DEF g
    <2>7. Walk(g, h, F, m)
      BY <2>5, <2>6 DEF Walk
    <2> QED
      BY <2>7
  <1>3. S = 0 .. n
    <2> HIDE DEF S
    <2>1. S \in SUBSET (0 .. n)
      BY DEF S
    <2> QED
      BY <1>1, <1>2, <2>1, UpTo
  <1>4. n \in S
    <2> HIDE DEF S
    <2> QED
      BY <1>3
  <1> QED
    BY <1>4

\* The order of the list is that walk.
LEMMA OrderIs ==
  ASSUME NEW h, WellFormed(h), NEW F, Links(h, F), F \subseteq DOMAIN h.chunk
  PROVE  Walk(ListOrder(h), h, F, Cardinality(DOMAIN h.chunk))
         /\ Cardinality(DOMAIN h.chunk) \in Nat
  <1> DEFINE n == Cardinality(DOMAIN h.chunk)
             P(g) == g = [i \in 0 .. n |->
                            IF i = 0 THEN h.rt_free
                            ELSE IF g[i - 1] = Null THEN Null ELSE h.chunk[g[i - 1]].fnext]
             s == CHOOSE g : P(g)
  <1>1. n \in Nat
    BY FS_CardinalityType DEF WellFormed
  <1> HIDE DEF n
  <1>2. PICK f : Walk(f, h, F, n)
    BY <1>1, WalkExists
  <1>3. /\ f \in [0 .. n -> F \cup {Null}] /\ f[0] = h.rt_free
        /\ \A i \in 1 .. n : f[i] = IF f[i - 1] = Null THEN Null ELSE h.chunk[f[i - 1]].fnext
    BY <1>2 DEF Walk
  <1>4. P(f)
    <2>1. \A i \in 0 .. n : f[i] = IF i = 0 THEN h.rt_free
                            ELSE IF f[i - 1] = Null THEN Null ELSE h.chunk[f[i - 1]].fnext
      BY <1>1, <1>3
    <2>2. f = [i \in 0 .. n |-> f[i]]
      BY <1>3
    <2> QED
      BY <2>1, <2>2
  <1>5. P(s)
    BY <1>4
  <1>6. ListOrder(h) = s
    BY DEF ListOrder, n
  <1> HIDE DEF s
  <1>7. /\ s = [i \in 0 .. n |-> s[i]] /\ s[0] = h.rt_free
        /\ \A i \in 1 .. n : s[i] = IF s[i - 1] = Null THEN Null ELSE h.chunk[s[i - 1]].fnext
    BY <1>1, <1>5
  <1> DEFINE S == {i \in 0 .. n : s[i] \in F \cup {Null}}
  <1>8. S = 0 .. n
    <2>1. 0 \in S
      BY <1>1, <1>7 DEF Links
    <2>2. ASSUME NEW m \in 1 .. n, m - 1 \in S  PROVE m \in S
      <3> DEFINE v == s[m - 1]
      <3>1. v \in F \cup {Null} /\ s[m] = IF v = Null THEN Null ELSE h.chunk[v].fnext
        BY <1>7, <2>2
      <3> HIDE DEF v
      <3>2. s[m] \in F \cup {Null}
        BY <3>1 DEF Links
      <3> QED
        BY <3>2
    <2> HIDE DEF S
    <2>3. S \in SUBSET (0 .. n)
      BY DEF S
    <2> QED
      BY <1>1, <2>1, <2>2, <2>3, UpTo
  <1>9. s \in [0 .. n -> F \cup {Null}]
    BY <1>7, <1>8
  <1>10. Walk(s, h, F, n)
    BY <1>7, <1>9 DEF Walk
  <1> QED
    BY <1>1, <1>6, <1>10 DEF n

\* The chunk found is on the list and large enough; one is found if the head is.
LEMMA FitIs ==
  ASSUME NEW h, WellFormed(h), NEW F, Links(h, F), F \subseteq DOMAIN h.chunk, NEW need
  PROVE  /\ FirstFit(h, need) # Null =>
              FirstFit(h, need) \in F /\ h.chunk[FirstFit(h, need)].size >= need
         /\ h.rt_free # Null /\ h.chunk[h.rt_free].size >= need => FirstFit(h, need) # Null
  <1> DEFINE f == ListOrder(h)
             n == Cardinality(DOMAIN h.chunk)
             Fits(i) == f[i] # Null /\ h.chunk[f[i]].size >= need
             T == {i \in DOMAIN f : Fits(i)}
             k == CHOOSE i \in DOMAIN f : Fits(i) /\ \A j \in DOMAIN f : Fits(j) => i <= j
             c == FirstFit(h, need)
  <1>1. c = IF \A i \in DOMAIN f : ~Fits(i) THEN Null ELSE f[k]
    BY DEF FirstFit
  <1>2. Walk(f, h, F, n) /\ n \in Nat
    BY OrderIs
  <1> HIDE DEF f, n
  <1>3. f \in [0 .. n -> F \cup {Null}] /\ f[0] = h.rt_free /\ DOMAIN f = 0 .. n /\ 0 \in DOMAIN f
    BY <1>2 DEF Walk
  <1>4. ASSUME T # {}  PROVE k \in DOMAIN f /\ Fits(k)
    <2>1. T \subseteq Nat
      BY <1>3
    <2>2. PICK i \in T : \A j \in T : i <= j
      <3> HIDE DEF T
      <3> QED
        BY <1>4, <2>1, Least
    <2>3. i \in DOMAIN f /\ Fits(i) /\ \A j \in DOMAIN f : Fits(j) => i <= j
      BY <2>2
    <2> HIDE DEF Fits
    <2> QED
      BY <2>3
  <1>5. c # Null => c \in F /\ h.chunk[c].size >= need
    <2> SUFFICES ASSUME c # Null  PROVE c \in F /\ h.chunk[c].size >= need
      OBVIOUS
    <2>1. T # {} /\ c = f[k]
      <3> HIDE DEF k, Fits, c
      <3> QED
        BY <1>1
    <2>2. k \in DOMAIN f /\ Fits(k)
      BY <1>4, <2>1
    <2> HIDE DEF k, c
    <2> QED
      BY <1>3, <2>1, <2>2
  <1>6. h.rt_free # Null /\ h.chunk[h.rt_free].size >= need => c # Null
    <2> SUFFICES ASSUME h.rt_free # Null, h.chunk[h.rt_free].size >= need  PROVE c # Null
      OBVIOUS
    <2>1. Fits(0)
      BY <1>3
    <2>2. T # {} /\ c = f[k]
      <3> HIDE DEF k, Fits, c
      <3> QED
        BY <1>1, <1>3, <2>1
    <2>3. Fits(k)
      BY <1>4, <2>2
    <2> HIDE DEF k, c
    <2> QED
      BY <2>2, <2>3
  <1> QED
    BY <1>5, <1>6

\* Chunks on the list are in F and linked to the one before them; a list that can be
\* reached from its end is the whole of F.
LEMMA ListedIs ==
  ASSUME NEW h, WellFormed(h), NEW F, Links(h, F), F \subseteq DOMAIN h.chunk
  PROVE  /\ Listed(h) \subseteq F
         /\ \A c \in Listed(h) :
              IF c = h.rt_free THEN h.chunk[c].fprev = Null
              ELSE h.chunk[h.chunk[c].fprev].fnext = c
         /\ Reached(h, F) => Listed(h) = F
  <1> DEFINE f == ListOrder(h)
             n == Cardinality(DOMAIN h.chunk)
             L == Listed(h)
  <1>1. L = {f[i] : i \in DOMAIN f} \ {Null}
    BY DEF Listed
  <1>2. Walk(f, h, F, n) /\ n \in Nat
    BY OrderIs
  <1>n. n = Cardinality(DOMAIN h.chunk)
    OBVIOUS
  <1> HIDE DEF f, n, L
  <1>3. /\ f \in [0 .. n -> F \cup {Null}] /\ f[0] = h.rt_free /\ DOMAIN f = 0 .. n
        /\ \A i \in 1 .. n : f[i] = IF f[i - 1] = Null THEN Null ELSE h.chunk[f[i - 1]].fnext
    BY <1>2 DEF Walk
  <1>4. L \subseteq F
    BY <1>1, <1>3
  <1>5. Null \notin DOMAIN h.chunk /\ Null \notin F
    BY DEF WellFormed, Null
  <1>6. ASSUME NEW c \in L
        PROVE  IF c = h.rt_free THEN h.chunk[c].fprev = Null
               ELSE h.chunk[h.chunk[c].fprev].fnext = c
    <2>1. c # Null /\ c \in F
      BY <1>4, <1>5
    <2>2. c = h.rt_free => h.chunk[c].fprev = Null
      BY <2>1 DEF Links
    <2>3. ASSUME c # h.rt_free  PROVE h.chunk[h.chunk[c].fprev].fnext = c
      <3>1. PICK i \in 0 .. n : c = f[i]
        BY <1>1, <1>3
      <3>2. i \in 1 .. n /\ i - 1 \in 0 .. n
        BY <1>2, <1>3, <2>3, <3>1
      <3> DEFINE p == f[i - 1]
      <3>3. p \in F \cup {Null} /\ c = IF p = Null THEN Null ELSE h.chunk[p].fnext
        BY <1>3, <3>1, <3>2
      <3> HIDE DEF p
      <3>4. p \in F /\ h.chunk[p].fnext = c
        BY <2>1, <3>3
      <3>5. h.chunk[c].fprev = p
        BY <2>1, <3>4 DEF Links
      <3> QED
        BY <3>4, <3>5
    <2> QED
      BY <2>2, <2>3
  <1>7. ASSUME NEW r, Ranked(h, F, r)  PROVE F \subseteq L
    <2>1. /\ r \in [F -> Nat]
          /\ \A c \in F : /\ h.chunk[c].fprev = Null => c = h.rt_free
                          /\ h.chunk[c].fprev # Null => r[h.chunk[c].fprev] < r[c]
      BY <1>7 DEF Ranked
    <2>2. f[n] = Null
      <3> SUFFICES ASSUME f[n] # Null  PROVE FALSE
        OBVIOUS
      <3>1. ASSUME NEW k \in 0 .. n, f[k] = Null  PROVE FALSE
        <4> DEFINE S == {i \in 0 .. n : i < k \/ f[i] = Null}
        <4>1. 0 \in S
          BY <1>2, <3>1
        <4>2. ASSUME NEW m \in 1 .. n, m - 1 \in S  PROVE m \in S
          <5>1. m - 1 < k \/ f[m - 1] = Null
            BY <4>2
          <5>2. f[m - 1] = Null => f[m] = Null
            BY <1>3
          <5>3. m - 1 < k => m < k \/ m = k
            OBVIOUS
          <5> QED
            BY <3>1, <5>1, <5>2, <5>3
        <4>3. S = 0 .. n
          <5> HIDE DEF S
          <5>1. S \in SUBSET (0 .. n)
            BY DEF S
          <5> QED
            BY <1>2, <4>1, <4>2, <5>1, UpTo
        <4>4. n \in S
          <5> HIDE DEF S
          <5> QED
            BY <1>2, <4>3
        <4> QED
          BY <1>2, <4>4
      <3>2. \A i \in 0 .. n : f[i] \in F
        BY <1>3, <3>1
      <3>3. \A i \in 1 .. n : r[f[i - 1]] < r[f[i]]
        <4> SUFFICES ASSUME NEW i \in 1 .. n  PROVE r[f[i - 1]] < r[f[i]]
          OBVIOUS
        <4> DEFINE a == f[i - 1]
                   b == f[i]
        <4>1. a \in F /\ b \in F /\ b = IF a = Null THEN Null ELSE h.chunk[a].fnext
          <5>1. i \in 0 .. n /\ i - 1 \in 0 .. n
            BY <1>2
          <5>2. b = IF a = Null THEN Null ELSE h.chunk[a].fnext
            BY <1>3
          <5> QED
            BY <3>2, <5>1, <5>2
        <4> HIDE DEF a, b
        <4>2. h.chunk[a].fnext = b /\ b # Null /\ a # Null
          BY <1>5, <4>1
        <4>3. h.chunk[b].fprev = a
          BY <4>1, <4>2 DEF Links
        <4>4. r[a] < r[b]
          BY <2>1, <4>1, <4>2, <4>3
        <4> QED
          BY <4>4 DEF a, b
      <3> DEFINE S == {i \in 0 .. n : \A k \in 0 .. n : k < i => r[f[k]] < r[f[i]]}
      <3>4. S = 0 .. n
        <4>1. 0 \in S
          BY <1>2
        <4>2. ASSUME NEW m \in 1 .. n, m - 1 \in S  PROVE m \in S
          <5>1. ASSUME NEW k \in 0 .. n, k < m  PROVE r[f[k]] < r[f[m]]
            <6>1. r[f[m - 1]] < r[f[m]]
              BY <3>3
            <6>2. /\ r[f[m - 1]] \in Nat /\ r[f[m]] \in Nat /\ r[f[k]] \in Nat
              <7>1. m - 1 \in 0 .. n /\ m \in 0 .. n
                BY <1>2
              <7>2. f[m - 1] \in F /\ f[m] \in F /\ f[k] \in F
                BY <3>2, <7>1
              <7> QED
                BY <2>1, <7>2
            <6>3. k = m - 1 \/ k < m - 1
              BY <5>1
            <6>4. k < m - 1 => r[f[k]] < r[f[m - 1]]
              BY <4>2
            <6> QED
              BY <6>1, <6>2, <6>3, <6>4
          <5>2. m \in 0 .. n
            OBVIOUS
          <5> QED
            BY <5>1, <5>2
        <4> HIDE DEF S
        <4>3. S \in SUBSET (0 .. n)
          BY DEF S
        <4> QED
          BY <1>2, <4>1, <4>2, <4>3, UpTo
      <3>5. \A i, k \in 0 .. n : k < i => f[k] # f[i]
        <4> SUFFICES ASSUME NEW i \in 0 .. n, NEW k \in 0 .. n, k < i, f[k] = f[i]  PROVE FALSE
          OBVIOUS
        <4>1. i \in S
          <5> HIDE DEF S
          <5> QED
            BY <3>4
        <4>2. r[f[k]] < r[f[i]]
          BY <4>1
        <4>3. r[f[i]] \in Nat
          BY <2>1, <3>2
        <4> QED
          BY <4>2, <4>3
      <3> HIDE DEF S
      <3> DEFINE D == DOMAIN h.chunk
                 I == 0 .. n
      <3>6. IsFiniteSet(D) /\ IsFiniteSet(I) /\ Cardinality(I) = n + 1 /\ Cardinality(D) = n
        BY <1>2, <1>n, FS_Interval DEF WellFormed
      <3>7. Cardinality(D) < Cardinality(I)
        BY <1>2, <3>6
      <3>8. f \in [I -> D]
        BY <1>3, <3>2
      <3> HIDE DEF D
      <3>9. PICK i, k \in I : i # k /\ f[i] = f[k]
        <4> HIDE DEF I
        <4> QED
          BY <3>6, <3>7, <3>8, FS_PigeonHole
      <3>10. i < k \/ k < i
        BY <3>9
      <3> QED
        BY <3>5, <3>9, <3>10
    <2>3. \A c \in L : h.chunk[c].fnext # Null => h.chunk[c].fnext \in L
      <3> SUFFICES ASSUME NEW c \in L, h.chunk[c].fnext # Null  PROVE h.chunk[c].fnext \in L
        OBVIOUS
      <3>1. c # Null
        BY <1>1
      <3>2. PICK i \in 0 .. n : c = f[i]
        BY <1>1, <1>3
      <3>3. i # n
        BY <2>2, <3>1, <3>2
      <3>4. i + 1 \in 1 .. n /\ i + 1 - 1 = i /\ i + 1 \in DOMAIN f
        BY <1>2, <1>3, <3>3
      <3>5. f[i + 1] = h.chunk[c].fnext
        BY <1>3, <3>1, <3>2, <3>4
      <3> QED
        BY <1>1, <3>4, <3>5
    <2> SUFFICES ASSUME F \ L # {}  PROVE FALSE
      OBVIOUS
    <2> DEFINE T == {r[c] : c \in F \ L}
    <2>4. T \subseteq Nat /\ T # {}
      BY <2>1
    <2>5. PICK x \in T : \A y \in T : x <= y
      <3> HIDE DEF T
      <3> QED
        BY <2>4, Least
    <2>6. PICK c \in F \ L : x = r[c]
      BY <2>5
    <2> DEFINE p == h.chunk[c].fprev
    <2>7. CASE p = Null
      <3>1. c = h.rt_free /\ c # Null
        BY <1>5, <2>1, <2>6, <2>7
      <3>2. 0 \in DOMAIN f /\ f[0] = c
        BY <1>2, <1>3, <3>1
      <3> QED
        BY <1>1, <2>6, <3>1, <3>2
    <2>8. CASE p # Null
      <3>1. p \in F /\ h.chunk[p].fnext = c /\ r[p] < r[c] /\ c # Null
        BY <1>5, <2>1, <2>6, <2>8 DEF Links
      <3> HIDE DEF p
      <3>2. r[p] \in Nat /\ r[c] \in Nat
        BY <2>1, <2>6, <3>1
      <3>3. p \in L
        BY <2>5, <2>6, <3>1, <3>2
      <3> QED
        BY <2>3, <2>6, <3>1, <3>3
    <2> QED
      BY <2>7, <2>8
  <1> QED
    BY <1>4, <1>6, <1>7 DEF Reached, L

-----------------------------------------------------------------------------
(* Allocation.                                                              *)

\* A chunk that is off the list is marked as in use.
LEMMA TakenIs ==
  ASSUME NEW s, NEW c, NEW h0, Loose(s, c, Null, h0),
         NEW g, g = [s EXCEPT !.chunk[c].inuse = TRUE]
  PROVE  /\ Heaped(g) /\ (Complete(h0) => Complete(g)) /\ InUse(g) = InUse(s) \cup {c}
         /\ \A b \in DOMAIN s.chunk : g.chunk[b].size = s.chunk[b].size
  <1> DEFINE F == FreeSet(s) \ {c}
             yes == TRUE
  <1>1. /\ s.rt_ready = TRUE /\ Tags(s, Null) /\ c \in FreeSet(s) /\ Links(s, F)
        /\ (Complete(h0) => Reached(s, F)) /\ \A q \in F : nextc(s, q) \notin F
    BY DEF Loose
  <1>2. c \in DOMAIN s.chunk /\ c # s.rt_top /\ Free(s, c) /\ WellFormed(s)
    BY <1>1, FreeChunk DEF Tags
  <1>3. Set(s, g, c, yes, s.chunk[c].prevsz) /\ yes = TRUE
    BY <1>2, MarkIs
  <1> HIDE DEF yes
  <1>4. Tags(g, Null)
    BY <1>1, <1>2, <1>3, TagsMarked
  <1>5. /\ DOMAIN g.chunk = DOMAIN s.chunk /\ g.rt_free = s.rt_free /\ g.rt_top = s.rt_top
        /\ g.rt_ready = TRUE /\ SameLinks(s, g, DOMAIN s.chunk) /\ g.chunk[c].inuse
        /\ \A b \in DOMAIN s.chunk : g.chunk[b].size = s.chunk[b].size
        /\ \A b \in DOMAIN s.chunk \ {c} : g.chunk[b].inuse = s.chunk[b].inuse
    BY <1>1, <1>3 DEF Set, SameTags
  <1>6. FreeSet(g) = F /\ F \subseteq DOMAIN s.chunk /\ InUse(g) = InUse(s) \cup {c}
    BY <1>2, <1>5 DEF FreeSet, InUse, Free
  <1>7. Links(g, F) /\ (Reached(s, F) => Reached(g, F))
    BY <1>1, <1>5, <1>6, LinksKept
  <1>8. Calm(g)
    <2>1. \A q \in F : nextc(g, q) = nextc(s, q)
      BY <1>5, <1>6 DEF nextc
    <2> QED
      BY <1>1, <1>6, <2>1 DEF Calm
  <1> QED
    BY <1>1, <1>4, <1>5, <1>6, <1>7, <1>8 DEF Heaped, Complete

\* What Take() does: one more block in use, and what it does not need stays free.
LEMMA TakeIs ==
  ASSUME NEW h, Heaped(h), NEW c \in FreeSet(h), NEW need \in Nat, Aligned(need), need >= RT_MIN,
         h.chunk[c].size >= need
  PROVE  LET g == Take(h, c, need) IN
         /\ Heaped(g) /\ (Complete(h) => Complete(g))
         /\ c \notin InUse(h) /\ InUse(g) = InUse(h) \cup {c} /\ g.chunk[c].size >= need
         /\ \A b \in InUse(h) : g.chunk[b].size = h.chunk[b].size
  <1> DEFINE D == DOMAIN h.chunk
             F == FreeSet(h)
             k == fl_drop(h, c)
             r == c + need
             n == nextc(h, c)
             big == k.chunk[c].size - need >= RT_MIN
             s == IF big THEN Split(k, c, need) ELSE k
             g == [s EXCEPT !.chunk[c].inuse = TRUE]
  <1>1. h.rt_ready = TRUE /\ Tags(h, Null) /\ Calm(h) /\ Links(h, F) /\ WellFormed(h)
    BY DEF Heaped, Tags
  <1>2. c \in D /\ c # h.rt_top /\ c # Null /\ Free(h, c) /\ F \subseteq D
    BY <1>1, FreeChunk DEF FreeSet
  <1>3. Dropped(h, k, c)
    BY <1>1, <1>2, DropIs
  <1> HIDE DEF k
  <1>4. Tags(k, Null) /\ Links(k, F \ {c}) /\ (Complete(h) => Reached(k, F \ {c}))
    BY <1>1, <1>2, <1>3, TagsDropped, LinksDropped DEF Complete
  <1>5. /\ WellFormed(k) /\ DOMAIN k.chunk = D /\ k.rt_top = h.rt_top /\ k.rt_ready = TRUE
        /\ \A a \in D : /\ k.chunk[a].size = h.chunk[a].size /\ k.chunk[a].inuse = h.chunk[a].inuse
                        /\ nextc(k, a) = nextc(h, a)
    BY <1>1, <1>3 DEF Dropped, SameTags, nextc
  <1>6. FreeSet(k) = F /\ InUse(k) = InUse(h) /\ c \notin InUse(h)
    BY <1>2, <1>5 DEF FreeSet, InUse, Free
  <1>7. /\ c \in Nat \ {0} /\ h.chunk[c].size \in Nat /\ n = c + h.chunk[c].size /\ n \in D
        /\ \A a \in D : c < a => n <= a
    BY <1>1, <1>2, ChunkFacts, SolidFacts
  <1>8. Take(h, c, need) = g
    BY DEF Take, k
  <1>9. /\ Loose(s, c, Null, h) /\ InUse(s) = InUse(h) /\ s.chunk[c].size >= need
        /\ \A b \in InUse(h) : b \in DOMAIN s.chunk /\ s.chunk[b].size = h.chunk[b].size
    <2>1. CASE ~big
      <3>1. s = k
        BY <2>1
      <3>2. \A q \in F \ {c} : nextc(k, q) \notin F \ {c}
        BY <1>1, <1>2, <1>5 DEF Calm
      <3>3. Loose(k, c, Null, h)
        BY <1>4, <1>5, <1>6, <3>2 DEF Loose
      <3>4. \A b \in InUse(h) : b \in D
        BY DEF InUse
      <3> HIDE DEF s, big
      <3> QED
        BY <1>2, <1>5, <1>6, <3>1, <3>3, <3>4
    <2>2. CASE big
      <3>1. s = Split(k, c, need)
        BY <2>2
      <3> DEFINE x == h.chunk[c].size
                 rest == x - need
      <3>2. k.chunk[c].size = x /\ rest >= RT_MIN
        BY <1>2, <1>5, <2>2
      <3> HIDE DEF s, big
      <3>3. /\ RT_MIN \in Nat \ {0} /\ need \in Nat \ {0} /\ need < x /\ r \in Nat \ {0}
            /\ c < r /\ r < n /\ rest \in Nat /\ n = r + rest /\ c # r /\ n # c /\ n # r
        <4>1. RT_MIN \in Nat \ {0}
          BY Units, AlignIs
        <4> QED
          BY <1>7, <3>2, <4>1
      <3>4. r \notin D
        BY <1>7, <3>3
      <3> HIDE DEF n
      <3>n. n = nextc(k, c) /\ n \in DOMAIN k.chunk
        BY <1>2, <1>5, <1>7 DEF n
      <3>5. Halved(k, s, c, r, need)
        <4>1. c + need \notin DOMAIN k.chunk /\ need < k.chunk[c].size /\ nextc(k, c) \in DOMAIN k.chunk
          BY <1>5, <3>2, <3>3, <3>4, <3>n
        <4> QED
          BY <1>2, <1>5, <3>1, <3>3, <4>1, SplitIs
      <3>r. r = c + need
        OBVIOUS
      <3>m. k.chunk[c].size - need >= RT_MIN
        BY <3>2
      <3> HIDE DEF r, rest, x
      <3>6. Tags(s, Null)
        BY <1>2, <1>4, <1>5, <3>5, <3>r, <3>m, TagsHalved
      <3>7. Links(s, (F \ {c}) \cup {r}) /\ (Complete(h) => Reached(s, (F \ {c}) \cup {r}))
        <4>1. r # Null /\ r \notin DOMAIN k.chunk /\ F \ {c} \subseteq DOMAIN k.chunk
          BY <1>2, <1>5, <3>3, <3>4 DEF Null
        <4> QED
          BY <1>4, <1>5, <3>5, <4>1, LinksHalved
      <3>8. /\ DOMAIN s.chunk = D \cup {r} /\ s.rt_top = h.rt_top /\ s.rt_ready = TRUE
            /\ s.chunk[c].size = need /\ s.chunk[c].inuse = h.chunk[c].inuse
            /\ ~s.chunk[r].inuse /\ s.chunk[r].size = rest
            /\ \A a \in D \ {c} : /\ s.chunk[a].size = h.chunk[a].size
                                  /\ s.chunk[a].inuse = h.chunk[a].inuse
        <4>1. /\ DOMAIN s.chunk = D \cup {r} /\ s.rt_top = h.rt_top /\ s.rt_ready = TRUE
              /\ s.chunk[c].size = need /\ s.chunk[c].inuse = k.chunk[c].inuse
              /\ ~s.chunk[r].inuse /\ s.chunk[r].size = k.chunk[c].size - need
              /\ \A a \in D \ {c, n} : /\ s.chunk[a].size = k.chunk[a].size
                                       /\ s.chunk[a].inuse = k.chunk[a].inuse
              /\ s.chunk[n].size = k.chunk[n].size /\ s.chunk[n].inuse = k.chunk[n].inuse
          BY <1>5, <3>5, <3>n DEF Halved, SameTags
        <4> QED
          BY <1>2, <1>5, <1>7, <3>2, <4>1 DEF rest
      <3>9. FreeSet(s) = F \cup {r} /\ InUse(s) = InUse(h) /\ c \in FreeSet(s)
        <4>1. r # h.rt_top
          BY <1>1, <3>4 DEF Tags, HasTop
        <4> QED
          BY <1>2, <3>4, <3>8, <4>1 DEF FreeSet, InUse, Free
      <3>10. FreeSet(s) \ {c} = (F \ {c}) \cup {r}
        BY <3>3, <3>9
      <3>11. \A q \in FreeSet(s) \ {c} : nextc(s, q) \notin FreeSet(s) \ {c}
        <4> SUFFICES ASSUME NEW q \in FreeSet(s) \ {c}, nextc(s, q) \in FreeSet(s) \ {c}
                     PROVE  FALSE
          OBVIOUS
        <4>1. CASE q = r
          <5>1. nextc(s, r) = n
            BY <3>3, <3>8 DEF nextc
          <5>2. n \notin F
            BY <1>1 DEF Calm, n
          <5> QED
            BY <3>3, <3>10, <4>1, <5>1, <5>2
        <4>2. CASE q \in F \ {c}
          <5>1. nextc(s, q) = nextc(h, q) /\ nextc(h, q) \in D /\ nextc(h, q) \notin F
            <6>1. q \in D /\ q # h.rt_top /\ q # c
              BY <1>1, <4>2, FreeChunk
            <6>2. nextc(s, q) = nextc(h, q)
              BY <3>8, <6>1 DEF nextc
            <6> QED
              BY <1>1, <4>2, <6>1, <6>2, SolidFacts DEF Calm
          <5> QED
            BY <3>4, <3>10, <5>1
        <4> QED
          BY <3>10, <4>1, <4>2
      <3>12. Loose(s, c, Null, h)
        BY <3>6, <3>7, <3>8, <3>9, <3>10, <3>11 DEF Loose
      <3>13. \A b \in InUse(h) : b \in D /\ b # c
        BY <1>6 DEF InUse
      <3> QED
        BY <3>8, <3>9, <3>12, <3>13
    <2> QED
      BY <2>1, <2>2
  <1>g. g = [s EXCEPT !.chunk[c].inuse = TRUE]
    OBVIOUS
  <1> HIDE DEF s, g
  <1>10. /\ Heaped(g) /\ (Complete(h) => Complete(g)) /\ InUse(g) = InUse(s) \cup {c}
         /\ \A b \in DOMAIN s.chunk : g.chunk[b].size = s.chunk[b].size
    BY <1>9, <1>g, TakenIs
  <1>11. c \in DOMAIN s.chunk
    BY <1>9 DEF Loose, FreeSet
  <1> QED
    BY <1>6, <1>8, <1>9, <1>10, <1>11

\* malloc() gives a block that was not in use and large enough, and leaves the others
\* alone; a failure changes no block, and only one to grow can lose a free chunk.
LEMMA MallocIs ==
  ASSUME NEW h, Sane(h), NEW n \in 0 .. AddrSpace - 1, NEW grants
  PROVE  LET r == malloc(h, n, grants)
             need == rt_roundup(IF n = 0 THEN 1 ELSE n)
             c == r.ret - RT_HDR
         IN
         /\ Sane(r.heap)
         /\ r.ret = Null => /\ SameBlocks(h, r.heap)
                            /\ rt_roundup(n) = 0 /\ Complete(h) => Complete(r.heap)
         /\ r.ret # Null => /\ r.ret \in Nat /\ Heaped(r.heap)
                            /\ Complete(h) => Complete(r.heap)
                            /\ c \notin InUse(h) /\ InUse(r.heap) = InUse(h) \cup {c}
                            /\ r.heap.chunk[c].size >= need
                            /\ \A b \in InUse(h) : r.heap.chunk[b].size = h.chunk[b].size
  <1> DEFINE m == IF n = 0 THEN 1 ELSE n
             need == rt_roundup(m)
             init == rt_init(h, grants)
             more == rt_extend(init.heap, need, grants)
             g == IF FirstFit(init.heap, need) # Null THEN Result(init.heap, TRUE) ELSE more
             c == FirstFit(g.heap, need)
             k == Take(g.heap, c, need)
             r == malloc(h, n, grants)
  <1>1. r = IF ~init.ret THEN Result(init.heap, Null)
            ELSE IF need = 0 THEN Result(init.heap, Null)
            ELSE IF ~g.ret THEN Result(g.heap, Null)
            ELSE Result(k, c + RT_HDR)
    BY DEF malloc
  <1>2. /\ init.ret \in BOOLEAN
        /\ init.ret => /\ Heaped(init.heap) /\ (Complete(h) => Complete(init.heap))
                       /\ SameBlocks(h, init.heap)
        /\ ~init.ret => init.heap = h
    BY InitIs
  <1>3. /\ need = 0 \/ (need \in Nat /\ need >= RT_MIN /\ Aligned(need))
        /\ rt_roundup(n) = 0 /\ n # 0 => need = 0
        /\ rt_roundup(n) = 0 => n # 0
    <2>1. m \in 0 .. AddrSpace - 1 /\ (n # 0 => m = n)
      BY AlignIs, HeapAssumption
    <2>2. rt_roundup(n) = 0 => n # 0
      BY RoundupIs
    <2> HIDE DEF m
    <2>3. need = 0 \/ (need \in Nat /\ need >= RT_MIN /\ Aligned(need))
      BY <2>1, RoundupIs
    <2> QED
      BY <2>1, <2>2, <2>3
  <1>4. SameBlocks(h, h)
    BY DEF SameBlocks
  <1> HIDE DEF init, need, m, r
  <1>5. CASE ~init.ret
    <2>1. r = Result(h, Null)
      BY <1>1, <1>2, <1>5
    <2>2. r.heap = h /\ r.ret = Null
      BY <2>1 DEF Result
    <2> QED
      BY <1>4, <2>2 DEF r
  <1>6. CASE init.ret /\ need = 0
    <2>1. r = Result(init.heap, Null)
      BY <1>1, <1>6
    <2>2. r.heap = init.heap /\ r.ret = Null
      BY <2>1 DEF Result
    <2> QED
      BY <1>2, <1>6, <2>2 DEF r, Sane
  <1>7. CASE init.ret /\ need # 0
    <2>1. need \in Nat /\ need >= RT_MIN /\ Aligned(need) /\ rt_roundup(n) # 0
      BY <1>3, <1>7
    <2>2. /\ more.ret \in BOOLEAN /\ Heaped(more.heap) /\ SameBlocks(init.heap, more.heap)
          /\ more.ret => /\ Complete(init.heap) => Complete(more.heap)
                         /\ more.heap.rt_free # Null
                         /\ more.heap.chunk[more.heap.rt_free].size >= need
      BY <1>2, <1>7, <2>1, ExtendIs
    <2> HIDE DEF more
    <2>3. /\ Heaped(g.heap) /\ SameBlocks(h, g.heap) /\ g.ret \in BOOLEAN
          /\ g.ret => (Complete(h) => Complete(g.heap))
      <3>1. CASE FirstFit(init.heap, need) # Null
        <4>1. g.heap = init.heap /\ g.ret = TRUE
          BY <3>1 DEF Result
        <4> QED
          BY <1>2, <1>7, <4>1
      <3>2. CASE FirstFit(init.heap, need) = Null
        <4>1. g = more
          BY <3>2
        <4> HIDE DEF g
        <4> QED
          BY <1>2, <1>7, <2>2, <4>1, SameBlocksTwice
      <3> QED
        BY <3>1, <3>2
    <2>4. g.ret => c # Null
      <3>1. CASE FirstFit(init.heap, need) # Null
        <4>1. g.heap = init.heap
          BY <3>1 DEF Result
        <4> QED
          BY <3>1, <4>1
      <3>2. CASE FirstFit(init.heap, need) = Null
        <4>1. g = more
          BY <3>2
        <4>2. /\ WellFormed(more.heap) /\ Links(more.heap, FreeSet(more.heap))
              /\ FreeSet(more.heap) \subseteq DOMAIN more.heap.chunk
          BY <2>2 DEF Heaped, Tags, FreeSet
        <4>3. more.ret => FirstFit(more.heap, need) # Null
          BY <2>2, <4>2, FitIs
        <4> HIDE DEF g
        <4> QED
          BY <4>1, <4>3
      <3> QED
        BY <3>1, <3>2
    <2> HIDE DEF g
    <2>5. c # Null => c \in FreeSet(g.heap) /\ g.heap.chunk[c].size >= need
      <3>1. /\ WellFormed(g.heap) /\ Links(g.heap, FreeSet(g.heap))
            /\ FreeSet(g.heap) \subseteq DOMAIN g.heap.chunk
        BY <2>3 DEF Heaped, Tags, FreeSet
      <3> QED
        BY <3>1, FitIs
    <2> HIDE DEF c
    <2>6. CASE ~g.ret
      <3>1. r = Result(g.heap, Null)
        BY <1>1, <1>7, <2>6
      <3>2. r.heap = g.heap /\ r.ret = Null
        BY <3>1 DEF Result
      <3> QED
        BY <2>1, <2>3, <3>2 DEF r, Sane
    <2>7. CASE g.ret
      <3>1. r = Result(k, c + RT_HDR)
        BY <1>1, <1>7, <2>7
      <3>2. r.heap = k /\ r.ret = c + RT_HDR
        BY <3>1 DEF Result
      <3>3. c \in FreeSet(g.heap) /\ g.heap.chunk[c].size >= need
        BY <2>4, <2>5, <2>7
      <3>4. /\ Heaped(k) /\ (Complete(g.heap) => Complete(k))
            /\ c \notin InUse(g.heap) /\ InUse(k) = InUse(g.heap) \cup {c} /\ k.chunk[c].size >= need
            /\ \A b \in InUse(g.heap) : k.chunk[b].size = g.heap.chunk[b].size
        BY <2>1, <2>3, <3>3, TakeIs
      <3> HIDE DEF k
      <3>5. c \in Nat \ {0}
        BY <2>3, <3>3 DEF Heaped, Tags, WellFormed, FreeSet
      <3>6. r.ret \in Nat /\ r.ret # Null /\ r.ret - RT_HDR = c
        BY <3>2, <3>5, Units, AlignIs DEF Null
      <3>7. /\ c \notin InUse(h) /\ InUse(k) = InUse(h) \cup {c}
            /\ \A b \in InUse(h) : k.chunk[b].size = h.chunk[b].size
        BY <2>3, <3>4 DEF SameBlocks
      <3>8. /\ Sane(r.heap) /\ Heaped(r.heap) /\ (Complete(h) => Complete(r.heap))
        BY <2>3, <2>7, <3>2, <3>4 DEF Sane
      <3> QED
        BY <3>2, <3>4, <3>6, <3>7, <3>8 DEF r, need, m
    <2> QED
      BY <2>3, <2>6, <2>7
  <1> QED
    BY <1>2, <1>5, <1>6, <1>7

\* What malloc() returns is a heap and an address.
LEMMA MallocResult ==
  ASSUME NEW h, NEW n, NEW grants
  PROVE  \E k, a : malloc(h, n, grants) = Result(k, a)
  BY DEF malloc

-----------------------------------------------------------------------------
(* The inductive invariant.                                                 *)

\* The callers hold the chunks in use, each with the bytes it asked for.
Holds(h, H) ==
  /\ DOMAIN H \subseteq Nat /\ {a - RT_HDR : a \in DOMAIN H} = InUse(h)
  /\ \A a \in DOMAIN H :
       /\ H[a] \in 0 .. AddrSpace - 1
       /\ Representable(H[a]) => a + H[a] <= nextc(h, a - RT_HDR)

HeapInv ==
  /\ Sane(heap) /\ Holds(heap, held)
  /\ refused \in BOOLEAN /\ (~refused => Complete(heap))

\* Chunks that keep their sizes keep what is held.
LEMMA HoldsKept ==
  ASSUME NEW h, NEW H, Holds(h, H), NEW g, SameBlocks(h, g)
  PROVE  Holds(g, H)
  <1>1. \A a \in DOMAIN H : a - RT_HDR \in InUse(h)
    BY DEF Holds
  <1>2. \A a \in DOMAIN H : nextc(g, a - RT_HDR) = nextc(h, a - RT_HDR)
    BY <1>1 DEF SameBlocks, nextc
  <1> QED
    BY <1>2 DEF Holds, SameBlocks

\* One block is given back.
LEMMA HoldsLess ==
  ASSUME NEW h, NEW H, Holds(h, H), NEW a \in DOMAIN H, NEW g,
         InUse(g) = InUse(h) \ {a - RT_HDR}, \A b \in InUse(g) : g.chunk[b].size = h.chunk[b].size
  PROVE  Holds(g, [b \in DOMAIN H \ {a} |-> H[b]])
  <1> DEFINE K == [b \in DOMAIN H \ {a} |-> H[b]]
  <1>1. DOMAIN K = DOMAIN H \ {a} /\ \A b \in DOMAIN K : K[b] = H[b]
    OBVIOUS
  <1> HIDE DEF K
  <1>2. RT_HDR \in Nat /\ DOMAIN H \subseteq Nat
    BY Units, AlignIs DEF Holds
  <1>3. \A b \in DOMAIN H : b - RT_HDR = a - RT_HDR => b = a
    BY <1>2
  <1>4. {b - RT_HDR : b \in DOMAIN H} = InUse(h)
    BY DEF Holds
  <1>5. {b - RT_HDR : b \in DOMAIN K} = InUse(g)
    BY <1>1, <1>3, <1>4
  <1>6. \A b \in DOMAIN K : nextc(g, b - RT_HDR) = nextc(h, b - RT_HDR)
    BY <1>5 DEF nextc
  <1>7. Holds(g, K)
    BY <1>1, <1>2, <1>5, <1>6 DEF Holds
  <1> QED
    BY <1>7 DEF K

\* One block more is handed out.
LEMMA HoldsMore ==
  ASSUME NEW h, NEW H, Holds(h, H), NEW a \in Nat, NEW n \in 0 .. AddrSpace - 1, NEW g,
         a - RT_HDR \notin InUse(h), InUse(g) = InUse(h) \cup {a - RT_HDR},
         \A b \in InUse(h) : g.chunk[b].size = h.chunk[b].size,
         Representable(n) => a + n <= nextc(g, a - RT_HDR)
  PROVE  Holds(g, With(H, a, n))
  <1> DEFINE K == With(H, a, n)
  <1>1. /\ DOMAIN K = DOMAIN H \cup {a} /\ K[a] = n
        /\ \A b \in DOMAIN H : b # a => K[b] = H[b]
    BY DEF With
  <1> HIDE DEF K
  <1>2. RT_HDR \in Nat /\ DOMAIN H \subseteq Nat
    BY Units, AlignIs DEF Holds
  <1>3. {b - RT_HDR : b \in DOMAIN H} = InUse(h) /\ a \notin DOMAIN H
    BY DEF Holds
  <1>4. {b - RT_HDR : b \in DOMAIN K} = InUse(g)
    BY <1>1, <1>3
  <1>5. \A b \in DOMAIN H : nextc(g, b - RT_HDR) = nextc(h, b - RT_HDR)
    BY <1>3 DEF nextc
  <1>6. ASSUME NEW b \in DOMAIN K
        PROVE  /\ K[b] \in 0 .. AddrSpace - 1
               /\ Representable(K[b]) => b + K[b] <= nextc(g, b - RT_HDR)
    <2>1. CASE b = a
      BY <1>1, <2>1
    <2>2. CASE b # a
      <3>1. b \in DOMAIN H /\ K[b] = H[b]
        BY <1>1, <2>2
      <3>2. /\ H[b] \in 0 .. AddrSpace - 1
            /\ Representable(H[b]) => b + H[b] <= nextc(h, b - RT_HDR)
        BY <3>1 DEF Holds
      <3> QED
        BY <1>5, <3>1, <3>2
    <2> QED
      BY <2>1, <2>2
  <1>7. DOMAIN K \subseteq Nat
    BY <1>1, <1>2
  <1>8. Holds(g, K)
    BY <1>4, <1>6, <1>7 DEF Holds
  <1> QED
    BY <1>8 DEF K

\* The block malloc() gives has room for what was asked for.
LEMMA RoomIs ==
  ASSUME NEW g, Heaped(g), NEW a \in Nat, a - RT_HDR \in InUse(g), NEW n \in 0 .. AddrSpace - 1,
         g.chunk[a - RT_HDR].size >= rt_roundup(IF n = 0 THEN 1 ELSE n), Representable(n)
  PROVE  a + n <= nextc(g, a - RT_HDR)
  <1> DEFINE c == a - RT_HDR
             size == g.chunk[c].size
             end == nextc(g, c)
             need == rt_roundup(n)
  <1>1. Tags(g, Null) /\ WellFormed(g) /\ c \in DOMAIN g.chunk /\ c # g.rt_top
    BY DEF Heaped, Tags, InUse
  <1>2. /\ Solid(g, c) /\ c \in Nat /\ size \in Nat /\ end = c + size
        /\ RT_HDR \in Nat /\ RT_MIN \in Nat /\ RT_HDR <= RT_MIN
    <2> HIDE DEF c
    <2> QED
      BY <1>1, SolidFacts, ChunkFacts, Units, AlignIs
  <1>3. size >= RT_MIN
    BY <1>2 DEF Solid
  <1>4. n # 0 => size >= need /\ need \in Nat /\ need >= n + RT_HDR
    <2>1. need = 0 \/ (need \in Nat /\ need >= RT_MIN)
      BY RoundupIs
    <2>2. need >= n + RT_HDR
      BY RoundupIs
    <2> QED
      BY <2>1, <2>2
  <1>5. c = a - RT_HDR
    OBVIOUS
  <1> HIDE DEF c, size, need, end
  <1>6. a + n <= end
    BY <1>2, <1>3, <1>4, <1>5
  <1> QED
    BY <1>6 DEF end, c

\* The allocator starts in order.
LEMMA HeapInvInit == Init => HeapInv
  <1> SUFFICES ASSUME Init  PROVE HeapInv
    OBVIOUS
  <1> DEFINE none == [a \in {} |-> NoChunk]
             f == FALSE
             z == Null
  <1>1. heap = [chunk |-> none, rt_free |-> z, rt_top |-> z, rt_ready |-> f, end |-> FirstEnd]
    BY DEF Init, Start
  <1>2. DOMAIN none = {} /\ none \in [{} -> ChunkType] /\ z = 0 /\ f = FALSE
    BY DEF Null
  <1>3. held = [a \in {} |-> 0] /\ refused = FALSE
    BY DEF Init
  <1> HIDE DEF none, f, z
  <1>4. /\ heap.chunk = none /\ heap.rt_free = 0 /\ heap.rt_top = 0 /\ heap.rt_ready = FALSE
        /\ heap.end = FirstEnd
    BY <1>1, <1>2
  <1>5. HeapRecord(heap)
    BY <1>1 DEF HeapRecord
  <1>6. WellFormed(heap)
    <2>1. FirstEnd \in FirstEnd .. AddrSpace
      BY HeapAssumption
    <2>2. IsFiniteSet({})
      BY FS_EmptySet
    <2>3. /\ heap.chunk \in [DOMAIN heap.chunk -> ChunkType] /\ IsFiniteSet(DOMAIN heap.chunk)
          /\ DOMAIN heap.chunk \subseteq Nat \ {0}
      BY <1>2, <1>4, <2>2
    <2>4. heap.rt_ready \in BOOLEAN
      BY <1>4
    <2>5. heap.rt_free \in Nat /\ heap.rt_top \in Nat /\ heap.end \in FirstEnd .. AddrSpace
      BY <1>4, <2>1
    <2> QED
      BY <1>5, <2>3, <2>4, <2>5 DEF WellFormed
  <1>7. Sane(heap) /\ FreeSet(heap) = {} /\ InUse(heap) = {}
    BY <1>2, <1>4, <1>6 DEF Sane, Fresh, FreeSet, InUse, Null
  <1>8. Holds(heap, held)
    BY <1>3, <1>7 DEF Holds
  <1>9. Complete(heap)
    <2> DEFINE r == [c \in {} |-> 0]
    <2>1. Ranked(heap, {}, r)
      BY DEF Ranked
    <2> QED
      BY <1>7, <2>1 DEF Complete, Reached
  <1> QED
    BY <1>3, <1>7, <1>8, <1>9 DEF HeapInv

\* A block that is held is a chunk in use of a heap that is ready.
LEMMA HeldIs ==
  ASSUME HeapInv, NEW a \in DOMAIN held
  PROVE  /\ Heaped(heap) /\ a \in Nat /\ a - RT_HDR \in InUse(heap)
         /\ a - RT_HDR \in DOMAIN heap.chunk /\ a - RT_HDR # heap.rt_top
  <1>1. a \in Nat /\ a - RT_HDR \in InUse(heap)
    BY DEF HeapInv, Holds
  <1>2. a - RT_HDR \in DOMAIN heap.chunk /\ a - RT_HDR # heap.rt_top
    BY <1>1 DEF InUse
  <1> QED
    BY <1>1, <1>2 DEF HeapInv, Sane, Fresh

\* An allocation that the callers see.
LEMMA GivenInv ==
  ASSUME HeapInv, NEW n \in 0 .. AddrSpace - 1, NEW grants,
         Given(malloc(heap, n, grants), n, held)
  PROVE  HeapInv'
  <1> DEFINE r == malloc(heap, n, grants)
             c == r.ret - RT_HDR
             need == rt_roundup(IF n = 0 THEN 1 ELSE n)
  <1>1. /\ heap' = r.heap
        /\ held' = IF r.ret = Null THEN held ELSE With(held, r.ret, n)
        /\ refused' = (refused \/ (r.ret = Null /\ rt_roundup(n) # 0))
    BY DEF Given
  <1>2. /\ Sane(heap) /\ Holds(heap, held) /\ refused \in BOOLEAN /\ (~refused => Complete(heap))
    BY DEF HeapInv
  <1>3. /\ Sane(r.heap)
        /\ r.ret = Null => /\ SameBlocks(heap, r.heap)
                           /\ rt_roundup(n) = 0 /\ Complete(heap) => Complete(r.heap)
        /\ r.ret # Null => /\ r.ret \in Nat /\ Heaped(r.heap)
                           /\ Complete(heap) => Complete(r.heap)
                           /\ c \notin InUse(heap) /\ InUse(r.heap) = InUse(heap) \cup {c}
                           /\ r.heap.chunk[c].size >= need
                           /\ \A b \in InUse(heap) : r.heap.chunk[b].size = heap.chunk[b].size
    BY <1>2, MallocIs
  <1> HIDE DEF r, need
  <1>4. CASE r.ret = Null
    <2>1. heap' = r.heap /\ held' = held /\ refused' = (refused \/ rt_roundup(n) # 0)
      BY <1>1, <1>4
    <2>2. Holds(r.heap, held)
      BY <1>2, <1>3, <1>4, HoldsKept
    <2>3. refused' \in BOOLEAN /\ (~refused' => Complete(r.heap))
      BY <1>2, <1>3, <1>4, <2>1
    <2> QED
      BY <1>3, <2>1, <2>2, <2>3 DEF HeapInv
  <1>5. CASE r.ret # Null
    <2>1. heap' = r.heap /\ held' = With(held, r.ret, n) /\ refused' = refused
      BY <1>1, <1>2, <1>5
    <2>2. Representable(n) => r.ret + n <= nextc(r.heap, c)
      <3>1. c \in InUse(r.heap)
        BY <1>3, <1>5
      <3> QED
        BY <1>3, <1>5, <3>1, RoomIs DEF need
    <2>3. Holds(r.heap, With(held, r.ret, n))
      BY <1>2, <1>3, <1>5, <2>2, HoldsMore
    <2> QED
      BY <1>2, <1>3, <1>5, <2>1, <2>3 DEF HeapInv
  <1> QED
    BY <1>4, <1>5

\* A block given back.
LEMMA FreeInv ==
  ASSUME HeapInv, NEW a \in DOMAIN held, FreeBlock(a)
  PROVE  HeapInv'
  <1> DEFINE c == a - RT_HDR
             g == free(heap, a)
  <1>1. heap' = g /\ held' = [b \in DOMAIN held \ {a} |-> held[b]] /\ refused' = refused
    BY DEF FreeBlock, Without
  <1>2. Heaped(heap) /\ c \in InUse(heap) /\ Holds(heap, held)
    BY HeldIs DEF HeapInv
  <1>3. /\ Heaped(g) /\ (Complete(heap) => Complete(g)) /\ InUse(g) = InUse(heap) \ {c}
        /\ \A b \in InUse(g) : g.chunk[b].size = heap.chunk[b].size
    BY <1>2, FreeIs
  <1> HIDE DEF g
  <1>4. Holds(g, [b \in DOMAIN held \ {a} |-> held[b]])
    BY <1>2, <1>3, HoldsLess
  <1> QED
    BY <1>1, <1>3, <1>4 DEF HeapInv, Sane

\* A block that was moved, or grew where it was.
LEMMA ReallocInv ==
  ASSUME HeapInv, NEW a \in DOMAIN held, NEW n \in 0 .. AddrSpace - 1, NEW grants,
         Realloc(a, n, grants)
  PROVE  HeapInv'
  <1> DEFINE c == a - RT_HDR
             old == heap.chunk[c].size - RT_HDR
             r == malloc(heap, n, grants)
             g == free(r.heap, a)
             d == r.ret - RT_HDR
             others == Without(a)
             need == rt_roundup(IF n = 0 THEN 1 ELSE n)
  <1>1. /\ Heaped(heap) /\ a \in Nat /\ c \in InUse(heap) /\ c \in DOMAIN heap.chunk
        /\ Sane(heap) /\ Holds(heap, held) /\ refused \in BOOLEAN /\ (~refused => Complete(heap))
    BY HeldIs DEF HeapInv
  <1>2. IF n = 0 THEN FreeBlock(a)
        ELSE IF old >= n THEN held' = [held EXCEPT ![a] = n] /\ UNCHANGED <<heap, refused>>
        ELSE IF r.ret = Null THEN Given(r, n, held)
        ELSE Given([r EXCEPT !.heap = g], n, others)
    BY DEF Realloc
  <1>3. CASE n = 0
    <2>1. FreeBlock(a)
      BY <1>2, <1>3
    <2> QED
      BY <2>1, FreeInv
  <1>4. CASE n # 0 /\ old >= n
    <2>1. held' = [held EXCEPT ![a] = n] /\ heap' = heap /\ refused' = refused
      BY <1>2, <1>4
    <2>2. a + n <= nextc(heap, c)
      <3> DEFINE size == heap.chunk[c].size
      <3>1. size \in Nat /\ nextc(heap, c) = c + size /\ RT_HDR \in Nat
        <4>1. WellFormed(heap)
          BY <1>1 DEF Heaped, Tags
        <4> HIDE DEF c
        <4> QED
          BY <1>1, <4>1, ChunkFacts, Units, AlignIs
      <3>2. size - RT_HDR >= n /\ c = a - RT_HDR
        BY <1>4
      <3> HIDE DEF c, size
      <3> QED
        BY <1>1, <3>1, <3>2
    <2>3. DOMAIN held' = DOMAIN held /\ held'[a] = n /\ \A b \in DOMAIN held : b # a => held'[b] = held[b]
      BY <2>1
    <2>4. Holds(heap, held')
      BY <1>1, <2>2, <2>3 DEF Holds
    <2> QED
      BY <1>1, <2>1, <2>4 DEF HeapInv
  <1>5. CASE n # 0 /\ ~(old >= n) /\ r.ret = Null
    <2>1. Given(r, n, held)
      BY <1>2, <1>5
    <2> QED
      BY <2>1, GivenInv
  <1>6. CASE n # 0 /\ ~(old >= n) /\ r.ret # Null
    <2>1. PICK k, x : r = Result(k, x)
      BY MallocResult
    <2>2. Given([r EXCEPT !.heap = g], n, others)
      BY <1>2, <1>6
    <2>3. [r EXCEPT !.heap = g] = Result(g, r.ret)
      <3> HIDE DEF g, r
      <3> QED
        BY <2>1 DEF Result
    <2>4. /\ heap' = g /\ held' = With(others, r.ret, n) /\ refused' = refused
      <3> HIDE DEF g, r, others
      <3> QED
        BY <1>1, <1>6, <2>2, <2>3 DEF Given, Result
    <2>5. /\ r.ret \in Nat /\ Heaped(r.heap) /\ (Complete(heap) => Complete(r.heap))
          /\ d \notin InUse(heap) /\ InUse(r.heap) = InUse(heap) \cup {d}
          /\ r.heap.chunk[d].size >= need
          /\ \A b \in InUse(heap) : r.heap.chunk[b].size = heap.chunk[b].size
      BY <1>1, <1>6, MallocIs
    <2> HIDE DEF r
    <2>6. /\ Heaped(g) /\ (Complete(r.heap) => Complete(g)) /\ InUse(g) = InUse(r.heap) \ {c}
          /\ \A b \in InUse(g) : g.chunk[b].size = r.heap.chunk[b].size
      <3>1. c \in InUse(r.heap)
        BY <1>1, <2>5
      <3> QED
        BY <2>5, <3>1, FreeIs
    <2> HIDE DEF g, need
    <2>7. c # d
      BY <1>1, <2>5
    <2>8. /\ InUse(g) = (InUse(heap) \ {c}) \cup {d} /\ d \in InUse(g)
      BY <1>1, <2>5, <2>6, <2>7
    <2>9. Representable(n) => r.ret + n <= nextc(g, d)
      <3>1. g.chunk[d].size >= need
        BY <2>5, <2>6, <2>8
      <3> QED
        BY <2>5, <2>6, <2>8, <3>1, RoomIs DEF need
    <2>10. Holds(g, With(others, r.ret, n))
      <3>1. Holds(r.heap, With(held, r.ret, n))
        <4>1. Representable(n) => r.ret + n <= nextc(r.heap, d)
          <5>1. d \in InUse(r.heap)
            BY <2>5
          <5> QED
            BY <2>5, <5>1, RoomIs DEF need
        <4> QED
          BY <1>1, <2>5, <4>1, HoldsMore
      <3> DEFINE H == With(held, r.ret, n)
      <3>2. a # r.ret
        BY <1>1, <2>5
      <3>3. DOMAIN H = DOMAIN held \cup {r.ret} /\ a \in DOMAIN H
        BY DEF With
      <3>4. [b \in DOMAIN H \ {a} |-> H[b]] = With(others, r.ret, n)
        BY <3>2, <3>3 DEF With, Without
      <3> HIDE DEF H, others
      <3>5. Holds(g, [b \in DOMAIN H \ {a} |-> H[b]])
        BY <2>6, <3>1, <3>3, HoldsLess DEF H
      <3> QED
        BY <3>4, <3>5
    <2> QED
      BY <1>1, <2>4, <2>5, <2>6, <2>10 DEF HeapInv, Sane
  <1> QED
    BY <1>3, <1>4, <1>5, <1>6

\* Every call keeps it in order.
LEMMA HeapInvNext == HeapInv /\ [Next]_vars => HeapInv'
  <1> SUFFICES ASSUME HeapInv, [Next]_vars  PROVE HeapInv'
    OBVIOUS
  <1>0. /\ Sizes \subseteq 0 .. AddrSpace - 1 /\ Counts \subseteq 0 .. AddrSpace - 1
        /\ AddrSpace \in Nat
    BY HeapAssumption
  <1>1. ASSUME NEW n \in Sizes, NEW grants \in BOOLEAN, Malloc(n, grants)  PROVE HeapInv'
    <2>1. n \in 0 .. AddrSpace - 1 /\ Given(malloc(heap, n, grants), n, held)
      BY <1>0, <1>1 DEF Malloc
    <2> QED
      BY <2>1, GivenInv
  <1>2. ASSUME UNCHANGED vars  PROVE HeapInv'
    BY <1>2 DEF HeapInv, vars
  <1>3. ASSUME NEW k \in Counts, NEW n \in Sizes, NEW grants \in BOOLEAN, Calloc(k, n, grants)
        PROVE  HeapInv'
    <2>1. k \in Nat /\ n \in Nat
      BY <1>0
    <2> DEFINE m == k * n
    <2>2. m \in Nat
      BY <2>1
    <2>3. IF m >= AddrSpace THEN UNCHANGED vars ELSE Given(malloc(heap, m, grants), m, held)
      BY <1>3 DEF Calloc
    <2> HIDE DEF m
    <2>4. CASE m >= AddrSpace
      BY <1>2, <2>3, <2>4
    <2>5. CASE ~(m >= AddrSpace)
      <3>1. m \in 0 .. AddrSpace - 1
        BY <1>0, <2>2, <2>5
      <3> QED
        BY <2>3, <2>5, <3>1, GivenInv
    <2> QED
      BY <2>4, <2>5
  <1>4. ASSUME NEW a \in DOMAIN held, FreeBlock(a)  PROVE HeapInv'
    BY <1>4, FreeInv
  <1>5. ASSUME NEW a \in DOMAIN held, NEW n \in Sizes, NEW grants \in BOOLEAN, Realloc(a, n, grants)
        PROVE  HeapInv'
    <2>1. n \in 0 .. AddrSpace - 1
      BY <1>0
    <2> QED
      BY <1>5, <2>1, ReallocInv
  <1> QED
    BY <1>1, <1>2, <1>3, <1>4, <1>5 DEF Next

\* The heap is in order whatever is allocated, moved and freed, and however often
\* the system refuses to grow.
THEOREM HeapIsSane == Spec => []HeapInv
  BY HeapInvInit, HeapInvNext, PTL DEF Spec

-----------------------------------------------------------------------------
(* What follows from it.                                                    *)

\* The chunks the properties speak of.
LEMMA ChunkNames == /\ Chunks \ FreeChunks = InUse(heap)
                    /\ Heaped(heap) => FreeChunks = FreeSet(heap)
  BY FreeChunk DEF Chunks, FreeChunks, InUse, FreeSet, Free, Heaped

\* What follows from the invariant: links and tags within memory,
LEMMA TypeFollows == HeapInv => HeapTypeOK
  <1> SUFFICES ASSUME HeapInv  PROVE HeapTypeOK
    OBVIOUS
  <1>1. WellFormed(heap) /\ refused \in BOOLEAN
    BY DEF HeapInv, Sane, Fresh, Heaped, Tags
  <1>2. heap.end \in FirstEnd .. AddrSpace
    BY <1>1 DEF WellFormed
  <1>3. heap.rt_ready => heap.rt_top \in DOMAIN heap.chunk
    BY DEF HeapInv, Sane, Fresh, Heaped, Tags, HasTop
  <1>4. ASSUME NEW c \in DOMAIN heap.chunk
        PROVE  /\ heap.chunk[c].size \in RT_HDR .. AddrSpace /\ heap.chunk[c].prevsz \in 0 .. AddrSpace
               /\ heap.chunk[c].inuse \in BOOLEAN
               /\ {heap.chunk[c].fnext, heap.chunk[c].fprev} \subseteq {Null} \cup DOMAIN heap.chunk
    <2>1. Heaped(heap)
      BY DEF HeapInv, Sane, Fresh
    <2>2. Tags(heap, Null) /\ HasTop(heap) /\ Links(heap, FreeSet(heap))
      BY <2>1 DEF Heaped, Tags
    <2> DEFINE size == heap.chunk[c].size
               p == heap.chunk[c].prevsz
               top == heap.rt_top
    <2>3. /\ c \in Nat /\ size \in Nat /\ p \in Nat /\ nextc(heap, c) = c + size
          /\ heap.chunk[c].inuse \in BOOLEAN
      BY <1>1, ChunkFacts
    <2>4. /\ top \in DOMAIN heap.chunk /\ top \in Nat /\ top + RT_HDR <= heap.end
          /\ heap.end \in Nat /\ heap.end <= AddrSpace /\ heap.chunk[top].size = RT_HDR
          /\ AddrSpace \in Nat /\ RT_HDR \in Nat /\ RT_MIN \in Nat /\ RT_HDR <= RT_MIN
      <3>1. top \in DOMAIN heap.chunk /\ top + RT_HDR <= heap.end /\ heap.chunk[top].size = RT_HDR
        BY <2>2 DEF HasTop
      <3>2. top \in Nat /\ heap.end \in FirstEnd .. AddrSpace
        BY <1>1 DEF WellFormed
      <3> HIDE DEF top
      <3> QED
        BY <3>1, <3>2, HeapAssumption, Units, AlignIs
    <2>5. c # top => size >= RT_MIN /\ c + size <= top
      BY <2>2, <2>3, SolidFacts DEF Solid
    <2>6. p # 0 => c - p \in DOMAIN heap.chunk
      <3>1. c # Null
        BY <1>1 DEF WellFormed, Null
      <3> QED
        BY <2>2, <3>1 DEF Tags
    <2>7. p # 0 => c - p \in Nat
      BY <1>1, <2>6 DEF WellFormed
    <2>8. heap.chunk[c].fnext \in {Null} \cup DOMAIN heap.chunk /\ heap.chunk[c].fprev \in {Null} \cup DOMAIN heap.chunk
      BY <2>2 DEF Links, FreeSet
    <2>t. c = top => size = RT_HDR
      BY <2>4
    <2> HIDE DEF size, p, top
    <2>9. size \in RT_HDR .. AddrSpace /\ p \in 0 .. AddrSpace
      BY <2>3, <2>4, <2>5, <2>7, <2>t
    <2> QED
      BY <2>3, <2>8, <2>9 DEF size, p
  <1> QED
    BY <1>1, <1>2, <1>3, <1>4 DEF HeapTypeOK

\* tags that lead from chunk to chunk and back,
LEMMA TagsFollow == HeapInv => BoundaryTags
  <1> SUFFICES ASSUME HeapInv, NEW c \in Chunks
               PROVE  /\ c % RT_ALIGN = 0 /\ heap.chunk[c].size % RT_ALIGN = 0
                      /\ heap.chunk[c].size >= RT_MIN
                      /\ nextc(heap, c) \in DOMAIN heap.chunk
                      /\ prevc(heap, nextc(heap, c)) = c
                      /\ heap.rt_top + RT_HDR <= heap.end
    BY DEF BoundaryTags
  <1>1. c \in DOMAIN heap.chunk /\ c # heap.rt_top
    BY DEF Chunks
  <1>2. Tags(heap, Null) /\ HasTop(heap)
    BY <1>1 DEF HeapInv, Sane, Fresh, Heaped, Tags
  <1>3. Solid(heap, c) /\ nextc(heap, c) \in DOMAIN heap.chunk
    BY <1>1, <1>2, SolidFacts
  <1>4. nextc(heap, c) # Null
    BY <1>2, <1>3 DEF Tags, WellFormed, Null
  <1>5. prevc(heap, nextc(heap, c)) = c
    BY <1>1, <1>2, <1>3, <1>4, PrevFacts
  <1> QED
    BY <1>2, <1>3, <1>5 DEF Solid, Aligned, HasTop

\* blocks apart from each other,
LEMMA ApartFollows == HeapInv => BlocksApart
  <1> SUFFICES ASSUME HeapInv  PROVE BlocksApart
    OBVIOUS
  <1>1. Holds(heap, held)
    BY DEF HeapInv
  <1>2. {a - RT_HDR : a \in DOMAIN held} = Chunks \ FreeChunks
    BY <1>1, ChunkNames DEF Holds
  <1>3. ASSUME NEW a \in DOMAIN held
        PROVE  /\ a % RT_ALIGN = 0
               /\ Representable(held[a]) => a + held[a] <= nextc(heap, a - RT_HDR)
               /\ \A b \in DOMAIN held : a < b /\ Representable(held[a]) => a + held[a] <= b - RT_HDR
    <2> DEFINE c == a - RT_HDR
    <2>1. /\ Heaped(heap) /\ a \in Nat /\ c \in DOMAIN heap.chunk /\ c # heap.rt_top
      BY HeldIs
    <2>2. Tags(heap, Null) /\ WellFormed(heap)
      BY <2>1 DEF Heaped, Tags
    <2>3. a % RT_ALIGN = 0
      <3>1. Aligned(c) /\ Aligned(RT_HDR) /\ c \in Int /\ RT_HDR \in Int
        <4> HIDE DEF c
        <4> QED
          BY <2>1, <2>2, SolidFacts, ChunkFacts, Units, AlignIs DEF Solid
      <3>2. a = c + RT_HDR
        BY <2>1, <3>1
      <3> HIDE DEF c
      <3>3. Aligned(c + RT_HDR)
        BY <3>1, AlignedSum
      <3> QED
        BY <3>2, <3>3 DEF Aligned
    <2>4. /\ held[a] \in Nat
          /\ Representable(held[a]) => a + held[a] <= nextc(heap, c)
      BY <1>1, HeapAssumption DEF Holds
    <2>5. ASSUME NEW b \in DOMAIN held, a < b, Representable(held[a])
          PROVE  a + held[a] <= b - RT_HDR
      <3> DEFINE d == b - RT_HDR
      <3>1. d \in DOMAIN heap.chunk /\ b \in Nat /\ RT_HDR \in Nat
        BY HeldIs, Units, AlignIs
      <3>2. c < d
        BY <2>1, <2>5, <3>1
      <3>3. nextc(heap, c) <= d
        <4> HIDE DEF c, d
        <4> QED
          BY <2>1, <2>2, <3>1, <3>2, SolidFacts
      <3>4. nextc(heap, c) \in Nat
        <4> HIDE DEF c
        <4> QED
          BY <2>1, <2>2, ChunkFacts
      <3> QED
        BY <2>1, <2>4, <2>5, <3>1, <3>3, <3>4
    <2> QED
      BY <2>3, <2>4, <2>5
  <1> QED
    BY <1>2, <1>3 DEF BlocksApart

\* free neighbours joined,
LEMMA CalmFollows == HeapInv => Coalesced
  <1> SUFFICES ASSUME HeapInv, NEW c \in FreeChunks  PROVE nextc(heap, c) \notin FreeChunks
    BY DEF Coalesced
  <1>1. Heaped(heap)
    BY DEF HeapInv, Sane, Fresh, FreeChunks, Chunks
  <1> QED
    BY <1>1, ChunkNames DEF Heaped, Calm

\* and a list of the free chunks.
LEMMA ListFollows == HeapInv => FreeListTrue
  <1> SUFFICES ASSUME HeapInv  PROVE FreeListTrue
    OBVIOUS
  <1> DEFINE F == FreeSet(heap)
  <1>1. WellFormed(heap) /\ Links(heap, F) /\ FreeChunks = F
    <2>1. CASE Heaped(heap)
      BY <2>1, ChunkNames DEF Heaped, Tags
    <2>2. CASE Fresh(heap)
      BY <2>2 DEF Fresh, Links, FreeSet, FreeChunks, Chunks
    <2> QED
      BY <2>1, <2>2 DEF HeapInv, Sane
  <1> QED
    BY <1>1, ListedIs DEF HeapInv, FreeListTrue, Complete, FreeSet

-----------------------------------------------------------------------------
\* The links of a chunk, its tags and the end of memory stay where the code can use
\* them: inside memory, which never shrinks below where it began.
THEOREM HeapStaysTyped == Spec => []HeapTypeOK
  BY HeapIsSane, TypeFollows, PTL

\* From any header the sizes lead to the next header and back, up to the sentinel:
\* what free() and rt_extend() follow is a header, never a stray word.
THEOREM TagsLeadThrough == Spec => []BoundaryTags
  BY HeapIsSane, TagsFollow, PTL

\* Each block malloc(), calloc() or realloc() gave out has all the bytes it was asked
\* for to itself, aligned, until it is freed; the chunks in use are those blocks.
THEOREM BlocksStayApart == Spec => []BlocksApart
  BY HeapIsSane, ApartFollows, PTL

\* free() and the growth of memory leave no two free chunks side by side.
THEOREM NeighboursAreJoined == Spec => []Coalesced
  BY HeapIsSane, CalmFollows, PTL

\* The free list is doubly linked and holds free chunks only, and all of them as long
\* as the system has never refused to grow.
THEOREM NothingFreedIsLost == Spec => []FreeListTrue
  BY HeapIsSane, ListFollows, PTL

=============================================================================
