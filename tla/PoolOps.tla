------------------------------ MODULE PoolOps ------------------------------
(***************************************************************************)
(* The operations of an S2RPool (include/smart2raw.h) as operators on the  *)
(* pool record.  Each operator is one C function: it takes the structure   *)
(* before the call and the arguments, and yields the structure after it    *)
(* (and the returned code, for functions whose callers inspect it).        *)
(*                                                                         *)
(* Widths are parameters.  The code has four classes of 8, 16, 32 and 64   *)
(* bits; here class c holds 2 * Half[c] raw values in ElemBytes[c] bytes,  *)
(* and the largest class plays the part of uint64_t / int64_t.             *)
(***************************************************************************)
EXTENDS Integers, Sequences

CONSTANTS
  K,           \* number of width classes (4 in the code: 8, 16, 32, 64 bits)
  Half,        \* Half[c] = 2^(w-1) for the class of w bits
  ElemBytes,   \* ElemBytes[c] = w / 8
  Align,       \* S2R_ALIGNMENT
  InitialCap,  \* S2R_INITIAL_CAPACITY
  SizeMax,     \* SIZE_MAX: sizes are computed modulo SizeMax + 1
  Memory,      \* the largest block the allocator can grant
  EpochMod     \* 2^32: the epoch is a uint32_t

ASSUME ClassAssumption ==
  /\ K \in Nat \ {0}
  /\ Half \in [1..K -> Nat \ {0}]
  /\ \A c, d \in 1..K : c < d => 2 * Half[c] <= Half[d]
  /\ ElemBytes \in [1..K -> Nat \ {0}]
ASSUME WidthAssumption ==   \* each class is a whole number of times wider
  \A c, d \in 1..K : c < d => Half[d] % (2 * Half[c]) = 0
ASSUME MemoryAssumption ==
  /\ Align \in Nat \ {0}
  /\ InitialCap \in Nat \ {0}
  /\ SizeMax \in Nat
  /\ EpochMod \in Nat \ {0}
ASSUME AddressAssumption ==   \* the memory is a small part of the address space
  /\ Memory \in Nat
  /\ (SizeMax + 1) % Align = 0
  /\ \A c \in 1..K : ElemBytes[c] * (2 * Memory + InitialCap + 2) + Align <= SizeMax + 1

Classes == 1..K
Pow(c)  == 2 * Half[c]
Word    == 0 .. Pow(K) - 1             \* uint64_t
Int64   == -Half[K] .. Half[K] - 1     \* int64_t

Flags == {"SIGNED", "READONLY", "EXTERNAL", "SORTED", "SUMMARY"}
FactFlags == {"SORTED", "SUMMARY"}

(***************************************************************************)
(* The structure.  count is Len(data); data holds the raw stored values.   *)
(* buf says what the data pointer refers to, and heap counts the blocks    *)
(* allocated for this pool and not freed.                                  *)
(***************************************************************************)
PoolType ==
  [data     : Seq(Word),
   size     : -K .. K,                 \* negative = signed; 0 after a free
   flags    : SUBSET Flags,
   smin     : Word, smax : Word, ssum : Word,
   epoch    : 0 .. EpochMod - 1,
   capacity : Nat,
   byte_cap : Nat,
   buf      : {"null", "heap", "mapping"},
   heap     : Int]

Sizes == (-K .. K) \ {0}   \* sizes of a pool in use

Zeroed(heap) ==
  [data |-> <<>>, size |-> 0, flags |-> {}, smin |-> 0, smax |-> 0, ssum |-> 0,
   epoch |-> 0, capacity |-> 0, byte_cap |-> 0, buf |-> "null", heap |-> heap]

-----------------------------------------------------------------------------
(* Classes, limits and conversions.                                        *)

Abs(size) == IF size < 0 THEN -size ELSE size
Count(p)  == Len(p.data)
IsSigned(p) == p.size < 0 \/ "SIGNED" \in p.flags
Bytes(size) == IF size = 0 THEN 0 ELSE ElemBytes[Abs(size)]

\* s2r_align_up, in the arithmetic of size_t: within one alignment unit of
\* SIZE_MAX the sum wraps, and the rounded size is 0.
AlignUp(n) == LET m == (n + Align - 1) % (SizeMax + 1) IN m - (m % Align)

\* Asking for n elements of any class either is beyond size_t, which the callers of
\* s2r_align_up look for, or stays clear of that last unit, which they do not.
Aligns(n) == n + Align - 1 <= SizeMax \/ n > SizeMax
Askable(n) == \A c \in Classes : Aligns(n * ElemBytes[c])
BumpUnbounded(e, k) == e + k    \* mutant: the counter does not wrap
Bump(e, k) == (e + k) % EpochMod

Raw(c, v) == v % Pow(c)                                \* (uintN_t)v
AsSigned(c, r) == IF r < Half[c] THEN r ELSE r - Pow(c)  \* (intN_t)r
I64(u) == AsSigned(K, u)
U64(i) == Raw(K, i)

MaxValue(size)  == IF size = 0 THEN 0 ELSE Pow(Abs(size)) - 1
MinSigned(size) == IF size < 0 THEN -Half[-size] ELSE 0
MaxSigned(size) == IF size < 0 THEN Half[-size] - 1 ELSE I64(MaxValue(size))

\* s2r_get and s2r_get_signed: the raw bytes read as unsigned or as signed.
Get(p, i) == p.data[i]
GetSigned(p, i) ==
  IF p.size < 0 THEN AsSigned(-p.size, p.data[i]) ELSE I64(p.data[i])

\* The element as every sign-aware function of the library reads it.
Value(p, i) == IF IsSigned(p) THEN GetSigned(p, i) ELSE Get(p, i)
Values(p)   == [i \in DOMAIN p.data |-> Value(p, i)]

\* The narrowest class holding every value of a set: s2r_classify and
\* s2r_classify_signed on one value, their _array forms on several.
UFits(c, vs) == \A v \in vs : v < Pow(c)
SFits(c, vs) == \A v \in vs : -Half[c] <= v /\ v < Half[c]
Classify(vs) ==
  CHOOSE c \in Classes : UFits(c, vs) /\ \A d \in Classes : UFits(d, vs) => c <= d
ClassifySigned(vs) ==
  -(CHOOSE c \in Classes : SFits(c, vs) /\ \A d \in Classes : SFits(d, vs) => c <= d)

\* The elements lie within the block: there are no more elements than the
\* capacity, the capacity counted in the elements of the CURRENT class fits the
\* allocated bytes, and every stored value fits that class.  The block is one that
\* can be had.
Sound(p) ==
  /\ p.size # 0
  /\ Count(p) <= p.capacity
  /\ p.capacity * Bytes(p.size) <= p.byte_cap
  /\ p.byte_cap > 0 => p.buf # "null"
  /\ p.byte_cap <= Memory
  /\ \A i \in DOMAIN p.data : p.data[i] < Pow(Abs(p.size))

-----------------------------------------------------------------------------
(* Creation, release, capacity.  ok says whether the allocator obliges.     *)

Result(p, r) == [pool |-> p, ret |-> r]
CanAlloc(ok, bytes) == ok /\ bytes <= Memory

SignFlag(size) == IF size < 0 THEN {"SIGNED"} ELSE {}

\* Flags of a pool that moves to class `size`.
SignOnlySet(flags, size) == flags \cup SignFlag(size)   \* mutant: the flag is never cleared
Resigned(flags, size) == (flags \ {"SIGNED"}) \cup SignFlag(size)

\* Mutant: the old block is forgotten.
AdoptOnly(p, bytes, cap) ==
  [p EXCEPT !.buf = "heap", !.byte_cap = bytes, !.capacity = cap, !.heap = @ + 1]

\* The tail common to reserve, shrink, promote, demote and reclass: free the
\* old block unless it is EXTERNAL, then own a new one of `bytes` bytes.
Adopt(p, bytes, cap) ==
  [p EXCEPT !.buf = "heap", !.byte_cap = bytes, !.capacity = cap,
            !.heap = IF p.buf # "null" /\ "EXTERNAL" \notin p.flags THEN @ ELSE @ + 1]

PoolInit(heap, size, cap, ok) ==
  LET bytes == AlignUp(cap * Bytes(size))
      fresh == [Zeroed(heap) EXCEPT !.size = size, !.flags = SignFlag(size), !.capacity = cap]
  IN  IF cap = 0 THEN Result(fresh, TRUE)
      ELSE IF cap * Bytes(size) > SizeMax \/ ~CanAlloc(ok, bytes) THEN Result(fresh, FALSE)
      ELSE Result([fresh EXCEPT !.buf = "heap", !.byte_cap = bytes, !.heap = @ + 1], TRUE)

\* The epoch and the summary words are the fields s2r_pool_free leaves alone.
PoolFree(p) ==
  [p EXCEPT !.data = <<>>, !.size = 0, !.flags = {}, !.capacity = 0, !.byte_cap = 0,
            !.buf = "null",
            !.heap = IF p.buf # "null" /\ "EXTERNAL" \notin p.flags THEN @ - 1 ELSE @]

Reserve(p, cap, ok) ==
  LET bytes == AlignUp(cap * Bytes(p.size)) IN
  IF cap <= p.capacity THEN Result(p, TRUE)
  ELSE IF \/ "READONLY" \in p.flags \/ p.size = 0
          \/ cap * Bytes(p.size) > SizeMax
          \/ ~CanAlloc(ok, bytes)
  THEN Result(p, FALSE)
  ELSE Result([Adopt(p, bytes, cap) EXCEPT !.flags = @ \ {"EXTERNAL"}], TRUE)

ShrinkToFit(p, ok) ==
  LET bytes == AlignUp(Count(p) * Bytes(p.size)) IN
  IF Count(p) = 0 \/ Count(p) = p.capacity THEN Result(p, TRUE)
  ELSE IF "READONLY" \in p.flags \/ ~CanAlloc(ok, bytes) THEN Result(p, FALSE)
  ELSE Result([Adopt(p, bytes, Count(p)) EXCEPT !.flags = @ \ {"EXTERNAL"}], TRUE)

\* s2r__recap_empty: an empty pool that changes class counts its block in the
\* new elements.
RecapNothing(p) == p   \* mutant: the capacity stays counted in the old elements
RecapEmpty(p) ==
  [p EXCEPT !.capacity = IF p.size = 0 THEN 0 ELSE p.byte_cap \div Bytes(p.size)]

-----------------------------------------------------------------------------
(* Writes.                                                                  *)

DropFacts(p) == [p EXCEPT !.flags = @ \ FactFlags, !.epoch = Bump(@, 1)]

Set(p, i, v) == [DropFacts(p) EXCEPT !.data[i] = Raw(Abs(p.size), v)]

SetSigned(p, i, v) ==
  IF p.size < 0 THEN [DropFacts(p) EXCEPT !.data[i] = Raw(-p.size, v)]
                ELSE Set(DropFacts(p), i, v)

\* Order of two words as the pool reads them, and whether v keeps the pool ordered.
LessUnsigned(p, a, b) == a < b   \* mutant: signed pools compared as unsigned
Less(p, a, b) == IF IsSigned(p) THEN I64(a) < I64(b) ELSE a < b

OrderAsUnsigned(p, v) == Count(p) = 0 \/ v >= Get(p, Count(p))   \* mutant
KeepsOrder(p, v) ==
  \/ Count(p) = 0
  \/ IF IsSigned(p) THEN I64(v) >= GetSigned(p, Count(p)) ELSE v >= Get(p, Count(p))

\* What s2r_push does to the recorded facts.  It runs before the value is
\* narrowed to the class and before the block is grown.
PushFacts(p, v) ==
  LET empty == Count(p) = 0
      summed == "SUMMARY" \in p.flags
  IN  [p EXCEPT
         !.epoch = Bump(@, 1),
         !.flags = IF KeepsOrder(p, v) THEN @ ELSE @ \ {"SORTED"},
         !.smin  = IF summed /\ (empty \/ Less(p, v, @)) THEN v ELSE @,
         !.smax  = IF summed /\ (empty \/ Less(p, @, v)) THEN v ELSE @,
         !.ssum  = IF ~summed THEN @ ELSE IF empty THEN v ELSE Raw(K, @ + v)]

\* Growth by a factor of 3/2, at least by one element.
GrownCap(cap) ==
  IF cap = 0 THEN InitialCap
  ELSE IF (cap * 3) \div 2 <= cap THEN cap + 1 ELSE (cap * 3) \div 2

Store(p, v) == [p EXCEPT !.data = Append(@, Raw(Abs(p.size), v))]

Push(p, v, ok) ==
  LET q == PushFacts(p, v)
      g == Reserve(q, GrownCap(q.capacity), ok)
  IN  IF "READONLY" \in p.flags THEN Result(p, FALSE)
      ELSE IF Count(p) < p.capacity
           THEN IF p.size = 0 THEN Result(q, FALSE) ELSE Result(Store(q, v), TRUE)
      ELSE IF p.capacity > SizeMax \div 3 \/ ~g.ret THEN Result(q, FALSE)
      ELSE Result(Store(g.pool, v), TRUE)

Coded(r) == [r EXCEPT !.ret = IF @ THEN "OK" ELSE "OOM"]

PushChecked(p, v, ok) ==
  IF "READONLY" \in p.flags THEN Result(p, "INVALID")
  ELSE IF v > MaxValue(p.size) THEN Result(p, "TOO_LARGE")
  ELSE Coded(Push(p, v, ok))

PushSignedChecked(p, v, ok) ==
  IF ~IsSigned(p) THEN Result(p, "INVALID")
  ELSE IF v < MinSigned(p.size) THEN Result(p, "TOO_SMALL")
  ELSE IF v > MaxSigned(p.size) THEN Result(p, "TOO_LARGE")
  ELSE Coded(Push(p, U64(v), ok))

Saturated(p, v) == IF v > MaxValue(p.size) THEN MaxValue(p.size) ELSE v
PushSaturate(p, v, ok) == Push(p, Saturated(p, v), ok)

\* s2r_push_many for an array of two values: one reservation, then the loop.
PushMany(p, a, b, ok) ==
  LET room  == Reserve(p, Count(p) + 2, ok)
      first == Push(room.pool, a, TRUE)
  IN  IF room.ret THEN Push(first.pool, b, TRUE) ELSE room

-----------------------------------------------------------------------------
(* Changing the class of the stored elements.                               *)

\* Every element re-stored in class c.
RecastRaw(p, c) == [i \in DOMAIN p.data |-> Raw(c, Get(p, i))]   \* mutant: no sign extension
Recast(p, c) == [i \in DOMAIN p.data |-> Raw(c, Value(p, i))]

Promote(p, size, ok) ==
  LET bytes == AlignUp(Count(p) * Bytes(size)) IN
  IF \/ Count(p) = 0
     \/ Abs(size) <= Abs(p.size)
     \/ ~CanAlloc(ok, bytes)
     \/ IsSigned(p) # (size < 0)       \* the new block is released again
  THEN Result(p, FALSE)
  ELSE Result([Adopt(p, bytes, Count(p)) EXCEPT
                 !.data = Recast(p, Abs(size)), !.size = size, !.flags = SignFlag(size)],
              TRUE)

Demote(p, size, ok) ==
  LET bytes == AlignUp(Count(p) * Bytes(size)) IN
  IF \/ Count(p) = 0
     \/ Abs(size) >= Abs(p.size)
     \/ \E i \in DOMAIN p.data : Get(p, i) > MaxValue(size)
     \/ ~CanAlloc(ok, bytes)
     \/ size < 0                       \* no signed case: the block is released again
  THEN Result(p, FALSE)
  ELSE Result([Adopt(p, bytes, Count(p)) EXCEPT !.size = size], TRUE)

Reclass(p, size, ok) ==
  LET bytes == AlignUp(Count(p) * Bytes(size))
      flags == Resigned(p.flags, size)
  IN  IF Count(p) = 0
      THEN Result(RecapEmpty([p EXCEPT !.size = size, !.flags = flags]), TRUE)
      ELSE IF ~CanAlloc(ok, bytes) THEN Result(p, FALSE)
      ELSE Result([Adopt(p, bytes, Count(p)) EXCEPT
                     !.data = Recast(p, Abs(size)), !.size = size, !.flags = flags],
                  TRUE)

ValueSet(p) == {Value(p, i) : i \in DOMAIN p.data}
RawSet(p)   == {p.data[i] : i \in DOMAIN p.data}

\* Mutant: at most one class down at a time.
FitOneClass(p, ok) ==
  LET c == Abs(p.size) - 1 IN
  IF \/ Count(p) = 0 \/ c = 0
     \/ ~(IF IsSigned(p) THEN SFits(c, ValueSet(p)) ELSE UFits(c, RawSet(p)))
  THEN Result(p, TRUE)
  ELSE Reclass(p, IF IsSigned(p) THEN -c ELSE c, ok)

FitClass(p, ok) ==
  LET target == IF IsSigned(p) THEN ClassifySigned(ValueSet(p)) ELSE Classify(RawSet(p)) IN
  IF Count(p) = 0 \/ Abs(target) >= Abs(p.size) THEN Result(p, TRUE)
  ELSE Reclass(p, target, ok)

FitClassSignedness(p, ok) ==
  IF Count(p) = 0 THEN Result(p, TRUE)
  ELSE IF ~IsSigned(p) \/ \E v \in ValueSet(p) : v < 0 THEN FitClass(p, ok)
  ELSE IF Classify(ValueSet(p)) >= Abs(p.size) THEN Result(p, TRUE)
  ELSE Reclass(p, Classify(ValueSet(p)), ok)

\* An empty pool changes class in place; a filled one is promoted.
Widen(p, size, ok) ==
  IF Count(p) = 0 THEN Result(RecapEmpty([p EXCEPT !.size = size]), TRUE)
  ELSE Promote(p, size, ok)

\* ok1 and ok2: the promotion's allocation and the growth's.
PushAdaptive(p, v, ok1, ok2) ==
  LET w == IF v > MaxValue(p.size) THEN Widen(p, Classify({v}), ok1) ELSE Result(p, TRUE) IN
  IF "READONLY" \in p.flags \/ IsSigned(p) THEN Result(p, "INVALID")
  ELSE IF ~w.ret THEN Result(w.pool, "OOM")
  ELSE Coded(Push(w.pool, v, ok2))

BelowMax(p, v) == v <= MaxSigned(p.size)   \* mutant: the lower limit is not looked at
InRange(p, v)  == MinSigned(p.size) <= v /\ v <= MaxSigned(p.size)

PushSignedAdaptive(p, v, ok1, ok2) ==
  LET need == ClassifySigned({v})
      w == IF \/ InRange(p, v)
              \/ Count(p) # 0 /\ Abs(need) <= Abs(p.size)
           THEN Result(p, TRUE) ELSE Widen(p, need, ok1)
  IN  IF "READONLY" \in p.flags \/ ~IsSigned(p) THEN Result(p, "INVALID")
      ELSE IF ~w.ret THEN Result(w.pool, "OOM")
      ELSE Coded(Push(w.pool, U64(v), ok2))

RemoveSwap(p, i) ==
  LET last == Count(p)
      q == IF i = last THEN p
           ELSE IF IsSigned(p) THEN SetSigned(p, i, GetSigned(p, last))
           ELSE Set(p, i, Get(p, last))
  IN  [q EXCEPT !.data = SubSeq(@, 1, last - 1)]

-----------------------------------------------------------------------------
(* Whole-column writes.  Each does nothing on an empty pool.                *)

\* Every stored value replaced by f of it, narrowed to the class.
Rewrite(p, f) == [p EXCEPT !.data = [i \in DOMAIN @ |-> Raw(Abs(p.size), f[@[i]])]]

AddScalar(p, s) ==
  IF Count(p) = 0 THEN p ELSE Rewrite(DropFacts(p), [x \in Word |-> x + s])
MulScalar(p, s) ==
  IF Count(p) = 0 THEN p ELSE Rewrite(DropFacts(p), [x \in Word |-> x * s])
SubScalar(p, s) == Rewrite(p, [x \in Word |-> x - s])
Fill(p, v)      == Rewrite(p, [x \in Word |-> v])
Not(p)          == Rewrite(p, [x \in Word |-> -1 - x])

\* s2r_transform sets the elements one by one, so the epoch moves once for each.
Transform(p, f) ==
  IF Count(p) = 0 THEN p
  ELSE [Rewrite(DropFacts(p), f) EXCEPT !.epoch = Bump(p.epoch, Count(p))]

Clear(p) == [DropFacts(p) EXCEPT !.data = <<>>]

-----------------------------------------------------------------------------
(* Established facts: order and the single-zone summary.                    *)

InOrder(p)   == \A i, j \in DOMAIN p.data : i < j => Value(p, i) <= Value(p, j)
Adjacent(p)  == \A i \in 2 .. Count(p) : Value(p, i - 1) <= Value(p, i)

\* s2r_sort leaves a rearrangement of the elements that is in order.
Rearrangements(n) ==
  {f \in [1..n -> 1..n] : \A i, j \in 1..n : i # j => f[i] # f[j]}
SortResults(p) ==
  {[p EXCEPT !.data = [i \in 1..Count(p) |-> p.data[f[i]]],
             !.flags = @ \cup {"SORTED"}] : f \in Rearrangements(Count(p))}
Sort(p) ==
  IF "READONLY" \in p.flags \/ Count(p) < 2 THEN {p} ELSE {q \in SortResults(p) : InOrder(q)}

MarkSorted(p) == IF Adjacent(p) THEN [p EXCEPT !.flags = @ \cup {"SORTED"}] ELSE p

\* Sum of the elements as read, in the arithmetic of uint64_t.
RunningSum(p) ==
  LET s[i \in 0 .. Count(p)] == IF i = 0 THEN 0 ELSE Raw(K, s[i - 1] + Value(p, i))
  IN  s[Count(p)]

\* s2r_summarize records the extremes (as uint64_t words) and the sum.
IsMinimum(p, w) ==
  \E i \in DOMAIN p.data : w = U64(Value(p, i)) /\ \A j \in DOMAIN p.data : Value(p, i) <= Value(p, j)
IsMaximum(p, w) ==
  \E i \in DOMAIN p.data : w = U64(Value(p, i)) /\ \A j \in DOMAIN p.data : Value(p, j) <= Value(p, i)
Recorded(p, mn, mx, sm) ==
  [p EXCEPT !.smin = mn, !.smax = mx, !.ssum = sm, !.flags = @ \cup {"SUMMARY"}]
Summarize(p) ==
  IF "SUMMARY" \in p.flags THEN {p}
  ELSE IF Count(p) = 0 THEN {Recorded(p, 0, 0, 0)}
  ELSE {Recorded(p, mn, mx, sm) : mn \in {w \in Word : IsMinimum(p, w)},
                                  mx \in {w \in Word : IsMaximum(p, w)},
                                  sm \in {w \in Word : w = RunningSum(p)}}

SummarizeEmpty(p) == IF Count(p) # 0 THEN p ELSE Recorded(p, 0, 0, 0)

\* s2r_unique_sorted keeps the first element of every run of equal values.  The
\* kept ones after the first are written through s2r_set, the rest are cut off.
RunStarts(p) == {i \in DOMAIN p.data : i = 1 \/ p.data[i] # p.data[i - 1]}
Compactions(p) ==
  UNION {{[j \in 1..m |-> p.data[f[j]]] :
            f \in {g \in [1..m -> RunStarts(p)] :
                     /\ \A a, b \in 1..m : a < b => g[a] < g[b]
                     /\ {g[a] : a \in 1..m} = RunStarts(p)}} : m \in 1..Count(p)}
Compacted(p, d) ==
  IF Len(d) = 1 THEN [p EXCEPT !.data = d]
  ELSE [DropFacts(p) EXCEPT !.data = d, !.epoch = Bump(p.epoch, Len(d) - 1)]
UniqueSorted(p, ok) ==
  IF "READONLY" \in p.flags \/ Count(p) < 2 THEN {p}
  ELSE {FitClass(Compacted(p, d), ok).pool : d \in Compactions(p)}

-----------------------------------------------------------------------------
(* Whole pools built from an array, from another pool, from a mapped file.  *)

FromArrayAuto(heap, arr, ok) ==
  LET c == Classify({arr[i] : i \in DOMAIN arr})
      r == PoolInit(heap, c, Len(arr), ok)
  IN  IF arr # <<>> /\ r.ret THEN [r EXCEPT !.pool.data = arr] ELSE r

FromArraySignedAuto(heap, arr, ok) ==
  LET size == ClassifySigned({arr[i] : i \in DOMAIN arr})
      r == PoolInit(heap, size, Len(arr), ok)
  IN  IF arr # <<>> /\ r.ret
      THEN [r EXCEPT !.pool.data = [i \in DOMAIN arr |-> Raw(-size, arr[i])]] ELSE r

Copy(heap, src, ok) ==
  LET r == PoolInit(heap, src.size, Count(src), ok)
  IN  IF r.ret THEN [r EXCEPT !.pool.data = src.data, !.pool.flags = src.flags \ {"EXTERNAL"}]
      ELSE r

\* The pool of s2r_map_open over a file of class `size` holding `data`.
Mapped(heap, size, data) ==
  [Zeroed(heap) EXCEPT !.data = data, !.size = size, !.buf = "mapping",
     !.flags = SignFlag(size) \cup {"READONLY", "EXTERNAL"},
     !.capacity = Len(data), !.byte_cap = Len(data) * Bytes(size)]

=============================================================================
