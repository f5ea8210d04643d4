------------------------------- MODULE WebHeap -------------------------------
(***************************************************************************)
(* The allocator of the browser build (web/src/s2r_rt.c): chunks with      *)
(* boundary tags, a doubly linked free list, and a memory that grows by    *)
(* pages or refuses to.  Every address and size is a number of bytes.      *)
(*                                                                         *)
(* chunk maps the address of each header to its fields; the lowest bit of  *)
(* the size, "in use", is a field of its own.                              *)
(***************************************************************************)
EXTENDS Integers, FiniteSets

CONSTANTS
  RT_ALIGN,    \* 64
  Page,        \* 65536, the step in which memory grows, and the slack asked for
  AddrSpace,   \* 2^32, one more than SIZE_MAX
  HeapBase,    \* __heap_base
  FirstEnd,    \* where memory ends when the program starts
  Sizes,       \* arguments of malloc, realloc and calloc
  Counts,      \* counts given to calloc
  MaxBlocks    \* bound: blocks the program holds at once

RT_HDR == RT_ALIGN
RT_MIN == RT_HDR + RT_ALIGN

ASSUME HeapAssumption ==
  /\ RT_ALIGN \in Nat \ {0} /\ Page \in Nat \ {0} /\ Page % RT_ALIGN = 0
  /\ AddrSpace \in Nat /\ AddrSpace % Page = 0
  /\ HeapBase \in Nat \ {0} /\ FirstEnd \in Nat /\ FirstEnd % Page = 0
  /\ HeapBase + RT_ALIGN <= FirstEnd /\ FirstEnd < AddrSpace
  /\ 3 * RT_ALIGN + 2 * Page <= AddrSpace
  /\ Sizes \subseteq 0 .. AddrSpace - 1 /\ Counts \subseteq 0 .. AddrSpace - 1
  /\ MaxBlocks \in Nat

VARIABLES
  heap,     \* the allocator's statics and everything in memory it looks at
  held,     \* observer: the blocks callers hold, and the size each asked for
  refused   \* observer: the system has refused to grow since the start
vars == <<heap, held, refused>>

Null == 0

-----------------------------------------------------------------------------
(* Arithmetic of size_t.                                                    *)

Wrap(n)      == n % AddrSpace
AlignDown(n) == n - (n % RT_ALIGN)

rt_roundup_down(n) ==   \* mutant: the last partial unit is not counted
  LET u == AlignDown(Wrap(n + RT_HDR)) IN IF u < RT_MIN THEN RT_MIN ELSE u

\* Total bytes of a chunk for n payload bytes; 0 when the first sum wraps.
rt_roundup(n) ==
  LET t == Wrap(n + RT_HDR)
      u == AlignDown(Wrap(t + RT_ALIGN - 1))
  IN  IF t < n THEN 0 ELSE IF u < RT_MIN THEN RT_MIN ELSE u

(* The chunks and the free list.                                            *)

NoChunk == [size |-> 0, inuse |-> FALSE, prevsz |-> 0, fnext |-> Null, fprev |-> Null]
nextc(h, c) == c + h.chunk[c].size
prevc(h, c) == IF h.chunk[c].prevsz = 0 THEN Null ELSE c - h.chunk[c].prevsz
Free(h, c)  == ~h.chunk[c].inuse

fl_push(h, c) ==
  [h EXCEPT !.rt_free = c,
            !.chunk = [a \in DOMAIN @ |->
               IF a = c THEN [@[a] EXCEPT !.fprev = Null, !.fnext = h.rt_free]
               ELSE IF a = h.rt_free THEN [@[a] EXCEPT !.fprev = c] ELSE @[a]]]

fl_drop_head(h, c) == [h EXCEPT !.rt_free = h.chunk[c].fnext]   \* mutant: neighbours not relinked
fl_drop(h, c) ==
  LET x == h.chunk[c] IN
  [h EXCEPT !.rt_free = IF x.fprev = Null THEN x.fnext ELSE @,
            !.chunk = [a \in DOMAIN @ |->
               LET y == h.chunk[a] IN
               IF a = c THEN [y EXCEPT !.fprev = Null, !.fnext = Null]
               ELSE [y EXCEPT !.fnext = IF a = x.fprev THEN x.fnext ELSE y.fnext,
                              !.fprev = IF a = x.fnext THEN x.fprev ELSE y.fprev]]]

\* A free chunk from `at` to the new end, and the sentinel after it.
rt_settop(h, at, total, prevsz) ==
  fl_push([h EXCEPT !.rt_top = at + total,
                    !.chunk = [a \in {b \in DOMAIN @ : b < at} \cup {at, at + total} |->
                       IF a = at THEN [NoChunk EXCEPT !.size = total, !.prevsz = prevsz]
                       ELSE IF a < at THEN @[a]
                       ELSE [NoChunk EXCEPT !.size = RT_HDR, !.inuse = TRUE, !.prevsz = total]]],
          at)

-----------------------------------------------------------------------------
(* Growth.  `grants` says whether the system gives the pages.               *)

Result(h, r) == [heap |-> h, ret |-> r]

sys_grow(h, bytes, grants) ==
  LET pages == Wrap(bytes + Page - 1) \div Page
      end   == h.end + pages * Page
  IN  IF (pages = 0 \/ grants) /\ end <= AddrSpace
      THEN Result([h EXCEPT !.end = end], TRUE) ELSE Result(h, FALSE)

rt_init(h, grants) ==
  LET lo == HeapBase + ((-HeapBase) % RT_ALIGN)
      g  == IF h.end < lo + RT_MIN + RT_HDR
            THEN sys_grow(h, lo + RT_MIN + RT_HDR - h.end + Page, grants) ELSE Result(h, TRUE)
      ready == [g.heap EXCEPT !.rt_ready = TRUE, !.rt_free = Null]
  IN  IF h.rt_ready THEN Result(h, TRUE)
      ELSE IF ~g.ret \/ g.heap.end < lo + RT_MIN + RT_HDR THEN Result(g.heap, FALSE)
      ELSE Result(rt_settop(ready, lo, AlignDown(ready.end - lo - RT_HDR), 0), TRUE)

\* The last chunk, if free, is taken off the list and becomes part of the new one.
rt_extend(h, need, grants) ==
  LET last == prevc(h, h.rt_top)
      open == last # Null /\ Free(h, last)
      at   == IF open THEN last ELSE h.rt_top
      g    == sys_grow(IF open THEN fl_drop(h, last) ELSE h, Wrap(need + RT_HDR + Page), grants)
      span == AlignDown(g.heap.end - at - RT_HDR)
  IN  IF ~g.ret \/ span < need THEN Result(g.heap, FALSE)
      ELSE Result(rt_settop(g.heap, at, span, h.chunk[at].prevsz), TRUE)

-----------------------------------------------------------------------------
(* Allocation and release.                                                  *)

\* The free list in its order, Null from its end on.
ListOrder(h) ==
  LET f[i \in 0 .. Cardinality(DOMAIN h.chunk)] ==
        IF i = 0 THEN h.rt_free ELSE IF f[i - 1] = Null THEN Null ELSE h.chunk[f[i - 1]].fnext
  IN  f
Listed(h) == LET f == ListOrder(h) IN {f[i] : i \in DOMAIN f} \ {Null}

\* The first chunk on the list that is large enough, Null when there is none.
FirstFit(h, need) ==
  LET f == ListOrder(h)
      fits(i) == f[i] # Null /\ h.chunk[f[i]].size >= need
  IN  IF \A i \in DOMAIN f : ~fits(i) THEN Null
      ELSE f[CHOOSE i \in DOMAIN f : fits(i) /\ \A j \in DOMAIN f : fits(j) => i <= j]

\* The rest of chunk c after its first `need` bytes becomes a free chunk.
Split(h, c, need) ==
  LET r    == c + need
      rest == h.chunk[c].size - need
      n    == nextc(h, c)
  IN  fl_push([h EXCEPT !.chunk = [a \in DOMAIN @ \cup {r} |->
                 IF a = r THEN [NoChunk EXCEPT !.size = rest, !.prevsz = need]
                 ELSE IF a = c THEN [@[a] EXCEPT !.size = need]
                 ELSE IF a = n THEN [@[a] EXCEPT !.prevsz = rest] ELSE @[a]]], r)

TakeAlmost(h, c, need) ==   \* mutant: a rest too small for a chunk is split off
  LET g == fl_drop(h, c) IN
  [(IF g.chunk[c].size > need THEN Split(g, c, need) ELSE g) EXCEPT !.chunk[c].inuse = TRUE]
Take(h, c, need) ==
  LET g == fl_drop(h, c) IN
  [(IF g.chunk[c].size - need >= RT_MIN THEN Split(g, c, need) ELSE g)
     EXCEPT !.chunk[c].inuse = TRUE]

\* ret is the payload's address, Null when there is no memory.
malloc(h, n, grants) ==
  LET init == rt_init(h, grants)
      need == rt_roundup(IF n = 0 THEN 1 ELSE n)
      more == rt_extend(init.heap, need, grants)
      g    == IF FirstFit(init.heap, need) # Null THEN Result(init.heap, TRUE) ELSE more
      c    == FirstFit(g.heap, need)
  IN  IF ~init.ret THEN Result(init.heap, Null)
      ELSE IF need = 0 THEN Result(init.heap, Null)
      ELSE IF ~g.ret THEN Result(g.heap, Null)
      ELSE Result(Take(g.heap, c, need), c + RT_HDR)

\* Chunk c takes over the bytes of the chunk n after it.
Absorb(h, c, n) ==
  LET size == h.chunk[c].size + h.chunk[n].size IN
  [h EXCEPT !.chunk = [a \in DOMAIN @ \ {n} |-> IF a = c THEN [@[a] EXCEPT !.size = size] ELSE @[a]]]

MergeListed(h, c) ==   \* mutant: the absorbed chunk stays on the list
  LET n == nextc(h, c) IN Result(IF Free(h, n) THEN Absorb(h, c, n) ELSE h, c)
MergeNextOnly(h, c) ==   \* mutant: the previous chunk is not looked at
  LET n == nextc(h, c) IN
  Result(IF Free(h, n) THEN Absorb(fl_drop(h, n), c, n) ELSE h, c)
Merge(h, c) ==
  LET n == nextc(h, c)
      g == IF Free(h, n) THEN Absorb(fl_drop(h, n), c, n) ELSE h
      p == prevc(g, c)
  IN  IF p # Null /\ Free(g, p) THEN Result(Absorb(fl_drop(g, p), p, c), p) ELSE Result(g, c)

free(h, a) ==
  LET c == a - RT_HDR
      m == Merge([h EXCEPT !.chunk[c].inuse = FALSE], c)
      tagged == [m.heap EXCEPT !.chunk[nextc(m.heap, m.ret)].prevsz = m.heap.chunk[m.ret].size]
  IN  fl_push(tagged, m.ret)

-----------------------------------------------------------------------------
Start == [chunk |-> [a \in {} |-> NoChunk], rt_free |-> Null, rt_top |-> Null,
          rt_ready |-> FALSE, end |-> FirstEnd]

Init == heap = Start /\ held = [a \in {} |-> 0] /\ refused = FALSE

Without(a) == [b \in DOMAIN held \ {a} |-> held[b]]
With(f, a, n) == [b \in DOMAIN f \cup {a} |-> IF b = a THEN n ELSE f[b]]

\* What the caller is given, and whether the call found the system unwilling.
Given(r, n, others) ==
  /\ heap' = r.heap
  /\ held' = IF r.ret = Null THEN held ELSE With(others, r.ret, n)
  /\ refused' = (refused \/ (r.ret = Null /\ rt_roundup(n) # 0))

Malloc(n, grants) ==
  /\ Cardinality(DOMAIN held) < MaxBlocks
  /\ Given(malloc(heap, n, grants), n, held)

\* calloc refuses a product that does not fit and otherwise asks for it.
Calloc(k, n, grants) ==
  /\ Cardinality(DOMAIN held) < MaxBlocks
  /\ IF k * n >= AddrSpace THEN UNCHANGED vars
     ELSE Given(malloc(heap, k * n, grants), k * n, held)

FreeBlock(a) ==
  /\ heap' = free(heap, a) /\ held' = Without(a) /\ UNCHANGED refused

\* The block stays where it is if it is large enough, and otherwise is replaced;
\* a failure leaves it.
Realloc(a, n, grants) ==
  LET old == heap.chunk[a - RT_HDR].size - RT_HDR
      r   == malloc(heap, n, grants)
  IN  IF n = 0 THEN FreeBlock(a)
      ELSE IF old >= n THEN held' = [held EXCEPT ![a] = n] /\ UNCHANGED <<heap, refused>>
      ELSE IF r.ret = Null THEN Given(r, n, held)
      ELSE Given([r EXCEPT !.heap = free(r.heap, a)], n, Without(a))

Next ==
  \/ \E n \in Sizes, grants \in BOOLEAN : Malloc(n, grants)
  \/ \E k \in Counts, n \in Sizes, grants \in BOOLEAN : Calloc(k, n, grants)
  \/ \E a \in DOMAIN held : FreeBlock(a)
  \/ \E a \in DOMAIN held, n \in Sizes, grants \in BOOLEAN : Realloc(a, n, grants)

Spec == Init /\ [][Next]_vars

-----------------------------------------------------------------------------
Chunks == DOMAIN heap.chunk \ {heap.rt_top}
FreeChunks == {c \in Chunks : Free(heap, c)}

\* Type invariant.
HeapTypeOK ==
  /\ heap.end \in FirstEnd .. AddrSpace
  /\ heap.rt_ready => heap.rt_top \in DOMAIN heap.chunk
  /\ \A c \in DOMAIN heap.chunk :
       /\ heap.chunk[c].size \in RT_HDR .. AddrSpace /\ heap.chunk[c].prevsz \in 0 .. AddrSpace
       /\ heap.chunk[c].inuse \in BOOLEAN
       /\ {heap.chunk[c].fnext, heap.chunk[c].fprev} \subseteq {Null} \cup DOMAIN heap.chunk
  /\ refused \in BOOLEAN

\* Boundary tags: from any header the sizes lead to the next header and back, up to
\* the sentinel, which lies inside memory; what free() follows is never a stray word.
BoundaryTags ==
  \A c \in Chunks :
    /\ c % RT_ALIGN = 0 /\ heap.chunk[c].size % RT_ALIGN = 0 /\ heap.chunk[c].size >= RT_MIN
    /\ nextc(heap, c) \in DOMAIN heap.chunk
    /\ prevc(heap, nextc(heap, c)) = c
    /\ heap.rt_top + RT_HDR <= heap.end

\* A payload rounded to the alignment must be representable with its header: the
\* rounding in rt_roundup wraps for sizes past that, and the library asks for none.
Representable(n) == n + RT_HDR + RT_ALIGN - 1 < AddrSpace

\* Each block a caller holds has all the bytes it asked for to itself, aligned,
\* whatever was allocated, freed, moved and refused meanwhile; and the chunks in
\* use are exactly those blocks.
BlocksApart ==
  /\ {a - RT_HDR : a \in DOMAIN held} = Chunks \ FreeChunks
  /\ \A a \in DOMAIN held :
       /\ a % RT_ALIGN = 0
       /\ Representable(held[a]) => a + held[a] <= nextc(heap, a - RT_HDR)
       /\ \A b \in DOMAIN held : a < b /\ Representable(held[a]) => a + held[a] <= b - RT_HDR

\* Coalescing is complete: no two free chunks lie side by side.
Coalesced == \A c \in FreeChunks : nextc(heap, c) \notin FreeChunks

\* The free list is a doubly linked list of free chunks, and unless the system has
\* refused to grow, of all of them: nothing freed is lost to later calls.
FreeListTrue ==
  /\ Listed(heap) \subseteq FreeChunks
  /\ \A c \in Listed(heap) :
       IF c = heap.rt_free THEN heap.chunk[c].fprev = Null
       ELSE heap.chunk[heap.chunk[c].fprev].fnext = c
  /\ ~refused => Listed(heap) = FreeChunks
=============================================================================
