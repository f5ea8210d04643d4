-------------------------------- MODULE Pool --------------------------------
(***************************************************************************)
(* One S2RPool over its life: a caller creates it, calls the functions of  *)
(* include/smart2raw.h on it in any order, releases it, creates it again.  *)
(* Each action is one call and bears the name of the C function.  The      *)
(* allocator may refuse any request (ok = FALSE).                          *)
(***************************************************************************)
EXTENDS PoolOps

CONSTANTS
  Args,        \* uint64_t arguments of the calls
  CapArgs,     \* capacities asked of s2r_pool_init and s2r_reserve
  Arrays,      \* arrays columns are built from
  BitAnd,      \* BitAnd[<<a, b>>] is the C expression a & b on uint64_t words
  Transforms,  \* functions handed to s2r_transform
  Careful      \* callers keep to the calls after which the facts stay true

ASSUME ArgsAssumption ==
  /\ Args \subseteq Word
  /\ CapArgs \subseteq Nat
  /\ Arrays \subseteq Seq(Word)
  /\ BitAnd \in [Word \X Word -> Word]
  /\ Transforms \subseteq [Word -> Word]
  /\ Careful \in BOOLEAN

VARIABLES
  pool,   \* the structure
  owner   \* who must release it: "none", "pool" (s2r_pool_free) or "map" (s2r_map_close)
vars == <<pool, owner>>

Init == pool = Zeroed(0) /\ owner = "none"

-----------------------------------------------------------------------------
Live     == owner # "none"
Facts    == pool.flags \cap FactFlags
Summed   == "SUMMARY" \in pool.flags
Borrowed == "EXTERNAL" \in pool.flags

\* Callers do not write through a read-only pool (s2r_set asserts it).
Assignable == Live /\ "READONLY" \notin pool.flags

Become(p)   == pool' = p /\ UNCHANGED owner
Create(r)   == owner = "none" /\ pool' = r.pool /\ owner' = IF r.ret THEN "pool" ELSE "none"

\* Creation and release.  A failed creation leaves a structure nobody uses.
s2r_pool_init(size, cap, ok) == Create(PoolInit(pool.heap, size, cap, ok))
s2r_from_array_auto(arr, ok) == Create(FromArrayAuto(pool.heap, arr, ok))
s2r_from_array_signed_auto(arr, ok) ==
  Create(FromArraySignedAuto(pool.heap, [i \in DOMAIN arr |-> I64(arr[i])], ok))
s2r_map_open(size, arr) ==
  /\ owner = "none"
  /\ \A i \in DOMAIN arr : arr[i] < Pow(Abs(size))
  /\ Len(arr) * Bytes(size) <= Memory            \* the mapping can be had
  /\ pool' = Mapped(pool.heap, size, arr)
  /\ owner' = "map"
s2r_pool_free == owner = "pool" /\ pool' = PoolFree(pool) /\ owner' = "none"
s2r_map_close == owner = "map" /\ pool' = Zeroed(pool.heap) /\ owner' = "none"

\* s2r_copy, after which the caller releases the original and goes on with
\* the copy; a failed copy is dropped.
Released == IF owner = "map" THEN Zeroed(pool.heap) ELSE PoolFree(pool)
s2r_copy(ok) ==
  LET r == Copy(Released.heap, pool, ok) IN
  /\ Live
  /\ Careful => ~Summed /\ ~Borrowed
  /\ IF r.ret THEN pool' = r.pool /\ owner' = "pool" ELSE UNCHANGED vars

s2r_reserve(cap, ok)     == Live /\ Become(Reserve(pool, cap, ok).pool)
s2r_shrink_to_fit(ok)    == Live /\ Become(ShrinkToFit(pool, ok).pool)

-----------------------------------------------------------------------------
\* Appends.  A careful caller of an unchecked push passes a value the class
\* represents, and does not go on using a summary after a refused push.
Represents(p, v) ==
  IF IsSigned(p) THEN InRange(p, I64(v)) ELSE v <= MaxValue(p.size)
CarefulPush(v, r) ==
  Careful => (Facts # {} => Represents(pool, v)) /\ (Summed => r.ret)

s2r_push(v, ok) ==
  /\ Live
  /\ CarefulPush(v, Push(pool, v, ok))
  /\ Become(Push(pool, v, ok).pool)
s2r_push_many(a, b, ok) ==
  /\ Live
  /\ Careful /\ Facts # {} => Represents(pool, a) /\ Represents(pool, b)
  /\ Become(PushMany(pool, a, b, ok).pool)
s2r_push_checked(v, ok) ==
  /\ Live
  /\ CarefulPush(v, [ret |-> PushChecked(pool, v, ok).ret # "OOM"])
  /\ Become(PushChecked(pool, v, ok).pool)
s2r_push_signed_checked(v, ok) ==
  /\ Live
  /\ Careful /\ Summed => PushSignedChecked(pool, I64(v), ok).ret # "OOM"
  /\ Become(PushSignedChecked(pool, I64(v), ok).pool)
s2r_push_saturate(v, ok) ==
  /\ Live
  /\ CarefulPush(Saturated(pool, v), PushSaturate(pool, v, ok))
  /\ Become(PushSaturate(pool, v, ok).pool)
s2r_push_adaptive(v, ok1, ok2) ==
  LET r == PushAdaptive(pool, v, ok1, ok2) IN
  /\ Live
  /\ Careful /\ "SUMMARY" \in r.pool.flags => r.ret # "OOM"
  /\ Become(r.pool)
s2r_push_signed_adaptive(v, ok1, ok2) ==
  LET r == PushSignedAdaptive(pool, I64(v), ok1, ok2) IN
  /\ Live
  /\ Careful /\ "SUMMARY" \in r.pool.flags => r.ret # "OOM"
  /\ Become(r.pool)

-----------------------------------------------------------------------------
\* Element writes and whole-column writes.
s2r_set(i, v)        == Assignable /\ Become(Set(pool, i, v))
s2r_set_signed(i, v) == Assignable /\ Become(SetSigned(pool, i, I64(v)))
s2r_remove_swap(i) ==
  /\ Live
  /\ i # Count(pool) => Assignable
  /\ Careful /\ Summed => i # Count(pool)
  /\ Become(RemoveSwap(pool, i))
s2r_clear        == Live /\ Become(Clear(pool))
s2r_add_scalar(s) == Assignable /\ Become(AddScalar(pool, s))
s2r_mul_scalar(s) == Assignable /\ Become(MulScalar(pool, s))
s2r_transform(f)  == Assignable /\ Become(Transform(pool, f))

\* These leave the facts alone: a careful caller has none recorded.
Unrecorded == Assignable /\ (Careful => Facts = {})
s2r_sub_scalar(s) == Unrecorded /\ Become(SubScalar(pool, s))
s2r_xor_scalar(s) == Unrecorded /\ Become(Rewrite(pool, [x \in Word |-> x + s - 2 * BitAnd[<<x, s>>]]))
s2r_and_scalar(s) == Unrecorded /\ Become(Rewrite(pool, [x \in Word |-> BitAnd[<<x, s>>]]))
s2r_or_scalar(s)  == Unrecorded /\ Become(Rewrite(pool, [x \in Word |-> x + s - BitAnd[<<x, s>>]]))
s2r_not           == Unrecorded /\ Become(Not(pool))
s2r_fill(v)       == Unrecorded /\ Become(Fill(pool, v))

-----------------------------------------------------------------------------
\* Class changes.  A careful caller does not re-block a mapped pool, nor demote
\* a signed one (s2r_fit_class does that).
s2r_promote(size, ok) ==
  /\ Live
  /\ Careful => ~Borrowed
  /\ Become(Promote(pool, size, ok).pool)
s2r_demote(size, ok) ==
  /\ Live
  /\ Careful => ~Borrowed /\ ~IsSigned(pool)
  /\ Become(Demote(pool, size, ok).pool)
s2r_fit_class(ok) ==
  /\ Live
  /\ Careful => ~Borrowed
  /\ Become(FitClass(pool, ok).pool)
s2r_fit_class_signedness(ok) ==
  /\ Live
  /\ Careful => ~Borrowed
  /\ Become(FitClassSignedness(pool, ok).pool)

\* Facts.
s2r_summarize       == Live /\ \E q \in Summarize(pool) : Become(q)
s2r_summarize_empty == Live /\ Become(SummarizeEmpty(pool))
s2r_mark_sorted     == Live /\ Become(MarkSorted(pool))
s2r_sort            == Live /\ \E q \in Sort(pool) : Become(q)
s2r_unique_sorted(ok) ==
  /\ Live
  /\ Careful /\ Summed /\ Count(pool) > 1 => RunStarts(pool) # {1}
  /\ \E q \in UniqueSorted(pool, ok) : Become(q)

-----------------------------------------------------------------------------
Lifecycle(ok) ==
  \/ \E size \in Sizes, cap \in CapArgs : s2r_pool_init(size, cap, ok)
  \/ \E arr \in Arrays : s2r_from_array_auto(arr, ok) \/ s2r_from_array_signed_auto(arr, ok)
  \/ \E size \in Sizes, arr \in Arrays : s2r_map_open(size, arr)
  \/ s2r_pool_free
  \/ s2r_map_close
  \/ s2r_copy(ok)

Resizes(ok) ==
  \/ \E cap \in CapArgs : s2r_reserve(cap, ok)
  \/ s2r_shrink_to_fit(ok)

Appends(ok) ==
  \/ \E v \in Args : \/ s2r_push(v, ok)
                     \/ s2r_push_checked(v, ok)
                     \/ s2r_push_signed_checked(v, ok)
                     \/ s2r_push_saturate(v, ok)
  \/ \E a, b \in Args : s2r_push_many(a, b, ok)
  \/ \E v \in Args, ok2 \in BOOLEAN : \/ s2r_push_adaptive(v, ok, ok2)
                                      \/ s2r_push_signed_adaptive(v, ok, ok2)

ClassChanges(ok) ==
  \/ \E size \in Sizes : s2r_promote(size, ok) \/ s2r_demote(size, ok)
  \/ s2r_fit_class(ok)
  \/ s2r_fit_class_signedness(ok)

\* The writes that drop the facts, those that do not, and those that do for some
\* arguments.
Writes ==
  \/ \E i \in DOMAIN pool.data, v \in Args : s2r_set(i, v) \/ s2r_set_signed(i, v)
  \/ s2r_clear
  \/ \E s \in Args : s2r_add_scalar(s) \/ s2r_mul_scalar(s)
  \/ \E f \in Transforms : s2r_transform(f)
BareWrites ==
  \/ \E s \in Args : \/ s2r_sub_scalar(s)
                     \/ s2r_xor_scalar(s)
                     \/ s2r_and_scalar(s)
                     \/ s2r_or_scalar(s)
                     \/ s2r_fill(s)
  \/ s2r_not
Removals ==
  \/ \E i \in DOMAIN pool.data : s2r_remove_swap(i)
  \/ \E ok \in BOOLEAN : s2r_unique_sorted(ok)

FactCalls ==
  \/ s2r_summarize
  \/ s2r_summarize_empty
  \/ s2r_mark_sorted
  \/ s2r_sort

Next ==
  \/ \E ok \in BOOLEAN : Lifecycle(ok) \/ Resizes(ok) \/ Appends(ok) \/ ClassChanges(ok)
  \/ Writes
  \/ BareWrites
  \/ Removals
  \/ FactCalls

Spec == Init /\ [][Next]_vars

-----------------------------------------------------------------------------
TypeOK ==
  /\ pool \in PoolType
  /\ owner \in {"none", "pool", "map"}

\* The elements lie within the block: whatever the call sequence, a pool in use is
\* Sound: "capacity in elements" of the "allocated bytes".  (An empty pool that changed
\* class once kept a capacity counted in the old class.)  It holds of callers that ask
\* for no number of elements within one alignment unit of SIZE_MAX (AskedSizes).
BufferSound == Live => Sound(pool)

\* Every block is released exactly once: a pool owns one heap block or none, it
\* is marked EXTERNAL exactly while its data lie in a mapping, and nothing is
\* left allocated once the pool is released.
NoLeak ==
  /\ pool.heap = IF Live /\ pool.buf = "heap" THEN 1 ELSE 0
  /\ Live => (Borrowed <=> pool.buf = "mapping")

\* The two records of signedness, the sign of `size` and the SIGNED flag, agree.
SignAgrees == Live => (pool.size < 0 <=> "SIGNED" \in pool.flags)

\* A pool that says its order is known is in order, so that a binary search on
\* it is right.
OrderTrue == Live /\ "SORTED" \in pool.flags => InOrder(pool)

\* A pool that says its summary is current has in smin, smax and ssum what a
\* pass over its elements would find.
SummaryTrue ==
  Live /\ Summed /\ Count(pool) > 0 =>
    /\ IsMinimum(pool, pool.smin)
    /\ IsMaximum(pool, pool.smax)
    /\ pool.ssum = RunningSum(pool)

\* A call that changes the class of a filled pool, and removes nothing, leaves
\* every element reading as the value it was: promotion extends the sign,
\* demotion and fitting never lose bits.
ClassChangeKeepsValues ==
  [][(Live /\ Live' /\ pool'.size # pool.size
      /\ Count(pool) > 0 /\ Count(pool') >= Count(pool))
     => \A i \in DOMAIN pool.data : Value(pool', i) = Value(pool, i)]_vars

=============================================================================
