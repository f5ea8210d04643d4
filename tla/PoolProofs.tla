----------------------------- MODULE PoolProofs -----------------------------
(***************************************************************************)
(* Theorems about Pool for every number and width of classes, every        *)
(* alignment, every memory bound and every set of arguments.  Whatever is  *)
(* called (Careful or not) the structure keeps its types, the elements lie *)
(* within the block and a class change keeps their values; for a careful   *)
(* caller the block is released exactly once and the recorded facts, the   *)
(* signedness, the order and the summary, are true.  And about             *)
(* IndexedPool, for every epoch width: a cumulative index that still       *)
(* answers answers for the pool as it is.                                  *)
(***************************************************************************)
EXTENDS IndexedPool, PoolFacts

-----------------------------------------------------------------------------
(* The inductive invariant and its steps.                                   *)

Inv == TypeOK /\ BufferSound

\* A live pool is in use.
LEMMA LiveInUse ==
  ASSUME Inv, Live
  PROVE  InUse(pool) /\ pool.size \in Sizes
  BY DEF Inv, TypeOK, BufferSound, InUse, Sound, Sizes, PoolType

\* A call that leaves the pool in use preserves the invariant.
LEMMA BecomeInv ==
  ASSUME Inv, NEW p, InUse(p), Become(p)
  PROVE  Inv'
  BY DEF Inv, TypeOK, BufferSound, InUse, Become, Live

\* So does a constructor.
LEMMA CreateInv ==
  ASSUME NEW r, r.pool \in PoolType, r.ret => InUse(r.pool), Create(r)
  PROVE  Inv'
  BY DEF Inv, TypeOK, BufferSound, InUse, Create, Live

\* An array of words read as signed values.
LEMMA SignedArray ==
  ASSUME NEW arr \in Seq(Word)
  PROVE  /\ [i \in DOMAIN arr |-> I64(arr[i])] \in Seq(Int64)
         /\ Len([i \in DOMAIN arr |-> I64(arr[i])]) = Len(arr)
  <1>1. \A i \in 1 .. Len(arr) : arr[i] \in Word
    OBVIOUS
  <1>2. \A i \in 1 .. Len(arr) : I64(arr[i]) \in Int64
    BY <1>1, Conversions
  <1>3. [i \in DOMAIN arr |-> I64(arr[i])] \in [1 .. Len(arr) -> Int64] /\ Len(arr) \in Nat
    BY <1>2
  <1> QED
    BY <1>3

LEMMA LifecycleStep ==
  ASSUME Inv, NEW ok \in BOOLEAN, Lifecycle(ok)
  PROVE  Inv'
  <1>1. pool \in PoolType /\ pool.heap \in Int
    BY Fields DEF Inv, TypeOK
  <1>2. CASE \E size \in Sizes, cap \in CapArgs : s2r_pool_init(size, cap, ok)
    <2>1. PICK size \in Sizes, cap \in CapArgs : s2r_pool_init(size, cap, ok)
      BY <1>2
    <2>2. cap \in Nat
      BY ArgsAssumption
    <2> QED
      BY <1>1, <2>1, <2>2, AskedAssumption, AskableAligns, PoolInitInUse, CreateInv DEF s2r_pool_init
  <1>3. ASSUME NEW arr \in Arrays, s2r_from_array_auto(arr, ok)
        PROVE  Inv'
    <2>1. arr \in Seq(Word)
      BY ArgsAssumption
    <2> QED
      BY <1>1, <1>3, <2>1, AskedAssumption, FromArrayAutoInUse, CreateInv DEF s2r_from_array_auto
  <1>4. ASSUME NEW arr \in Arrays, s2r_from_array_signed_auto(arr, ok)
        PROVE  Inv'
    <2> DEFINE signed == [i \in DOMAIN arr |-> I64(arr[i])]
    <2>1. arr \in Seq(Word)
      BY ArgsAssumption
    <2>2. signed \in Seq(Int64) /\ Askable(Len(signed))
      BY <2>1, AskedAssumption, SignedArray
    <2>3. Create(FromArraySignedAuto(pool.heap, signed, ok))
      BY <1>4 DEF s2r_from_array_signed_auto
    <2> HIDE DEF signed
    <2> QED
      BY <1>1, <2>2, <2>3, FromArraySignedAutoInUse, CreateInv
  <1>5. CASE \E size \in Sizes, arr \in Arrays : s2r_map_open(size, arr)
    <2>1. PICK size \in Sizes, arr \in Arrays : s2r_map_open(size, arr)
      BY <1>5
    <2>2. arr \in Seq(Word)
      BY ArgsAssumption
    <2>3. InUse(pool') /\ owner' = "map"
      BY <1>1, <2>1, <2>2, MappedInUse DEF s2r_map_open
    <2> QED
      BY <2>3 DEF Inv, TypeOK, BufferSound, InUse
  <1>6. CASE s2r_pool_free
    BY <1>1, <1>6, PoolFreeType DEF s2r_pool_free, Inv, TypeOK, BufferSound, Live
  <1>7. CASE s2r_map_close
    BY <1>1, <1>7, ZeroedType DEF s2r_map_close, Inv, TypeOK, BufferSound, Live
  <1>8. CASE s2r_copy(ok)
    <2> DEFINE r == Copy(Released.heap, pool, ok)
    <2>1. InUse(pool)
      BY <1>8, LiveInUse DEF s2r_copy
    <2>2. Released.heap \in Int
      BY <1>1, PoolFreeType, ZeroedType, Fields DEF Released
    <2>3. r.ret => InUse(r.pool)
      BY <2>1, <2>2, CopyInUse
    <2>4. \/ r.ret /\ pool' = r.pool /\ owner' = "pool"
          \/ UNCHANGED vars
      BY <1>8 DEF s2r_copy
    <2> HIDE DEF r
    <2> QED
      BY <2>3, <2>4 DEF Inv, TypeOK, BufferSound, Live, InUse, vars
  <1> QED
    BY <1>2, <1>3, <1>4, <1>5, <1>6, <1>7, <1>8 DEF Lifecycle

LEMMA ResizesStep ==
  ASSUME Inv, NEW ok \in BOOLEAN, Resizes(ok)
  PROVE  Inv'
  <1>1. ASSUME NEW cap \in CapArgs, s2r_reserve(cap, ok)  PROVE Inv'
    BY <1>1, ArgsAssumption, AskedAssumption, LiveInUse, ReserveInUse, BecomeInv DEF s2r_reserve
  <1>2. CASE s2r_shrink_to_fit(ok)
    BY <1>2, LiveInUse, ShrinkInUse, BecomeInv DEF s2r_shrink_to_fit
  <1> QED
    BY <1>1, <1>2 DEF Resizes

LEMMA AppendsStep ==
  ASSUME Inv, NEW ok \in BOOLEAN, Appends(ok)
  PROVE  Inv'
  <1>1. \A v \in Args : v \in Word /\ I64(v) \in Int64 /\ I64(v) \in Int
    BY ArgsAssumption, Conversions DEF Int64
  <1>2. ASSUME NEW v \in Args, s2r_push(v, ok)  PROVE Inv'
    BY <1>1, <1>2, LiveInUse, PushInUse, BecomeInv DEF s2r_push
  <1>3. ASSUME NEW v \in Args, s2r_push_checked(v, ok)  PROVE Inv'
    BY <1>1, <1>3, LiveInUse, PushCheckedInUse, BecomeInv DEF s2r_push_checked
  <1>4. ASSUME NEW v \in Args, s2r_push_signed_checked(v, ok)  PROVE Inv'
    BY <1>1, <1>4, LiveInUse, PushSignedCheckedInUse, BecomeInv DEF s2r_push_signed_checked
  <1>5. ASSUME NEW v \in Args, s2r_push_saturate(v, ok)  PROVE Inv'
    BY <1>1, <1>5, LiveInUse, PushSaturateInUse, BecomeInv DEF s2r_push_saturate
  <1>6. ASSUME NEW a \in Args, NEW b \in Args, s2r_push_many(a, b, ok)  PROVE Inv'
    BY <1>1, <1>6, LiveInUse, PushManyInUse, BecomeInv DEF s2r_push_many
  <1>7. ASSUME NEW v \in Args, NEW ok2 \in BOOLEAN, s2r_push_adaptive(v, ok, ok2)  PROVE Inv'
    BY <1>1, <1>7, LiveInUse, PushAdaptiveInUse, BecomeInv DEF s2r_push_adaptive
  <1>8. ASSUME NEW v \in Args, NEW ok2 \in BOOLEAN, s2r_push_signed_adaptive(v, ok, ok2)
        PROVE  Inv'
    BY <1>1, <1>8, LiveInUse, PushSignedAdaptiveInUse, BecomeInv DEF s2r_push_signed_adaptive
  <1> QED
    BY <1>2, <1>3, <1>4, <1>5, <1>6, <1>7, <1>8 DEF Appends

LEMMA ClassChangesStep ==
  ASSUME Inv, NEW ok \in BOOLEAN, ClassChanges(ok)
  PROVE  Inv'
  <1>1. ASSUME NEW size \in Sizes, s2r_promote(size, ok)  PROVE Inv'
    BY <1>1, LiveInUse, PromoteInUse, BecomeInv DEF s2r_promote
  <1>2. ASSUME NEW size \in Sizes, s2r_demote(size, ok)  PROVE Inv'
    BY <1>2, LiveInUse, DemoteInUse, BecomeInv DEF s2r_demote
  <1>3. CASE s2r_fit_class(ok)
    BY <1>3, LiveInUse, FitClassInUse, BecomeInv DEF s2r_fit_class
  <1>4. CASE s2r_fit_class_signedness(ok)
    BY <1>4, LiveInUse, FitClassSignednessInUse, BecomeInv DEF s2r_fit_class_signedness
  <1> QED
    BY <1>1, <1>2, <1>3, <1>4 DEF ClassChanges

LEMMA WritesStep ==
  ASSUME Inv, Writes
  PROVE  Inv'
  <1>1. \A v \in Args : v \in Word /\ v \in Int /\ I64(v) \in Int
    BY ArgsAssumption, Conversions DEF Int64
  <1>2. ASSUME NEW i \in DOMAIN pool.data, NEW v \in Args, s2r_set(i, v)  PROVE Inv'
    BY <1>1, <1>2, LiveInUse, SetInUse, BecomeInv DEF s2r_set, Assignable
  <1>3. ASSUME NEW i \in DOMAIN pool.data, NEW v \in Args, s2r_set_signed(i, v)  PROVE Inv'
    BY <1>1, <1>3, LiveInUse, SetSignedInUse, BecomeInv DEF s2r_set_signed, Assignable
  <1>4. CASE s2r_clear
    BY <1>4, LiveInUse, ClearInUse, BecomeInv DEF s2r_clear
  <1>5. ASSUME NEW s \in Args, s2r_add_scalar(s)  PROVE Inv'
    BY <1>1, <1>5, LiveInUse, AddScalarInUse, BecomeInv DEF s2r_add_scalar, Assignable
  <1>6. ASSUME NEW s \in Args, s2r_mul_scalar(s)  PROVE Inv'
    BY <1>1, <1>6, LiveInUse, MulScalarInUse, BecomeInv DEF s2r_mul_scalar, Assignable
  <1>7. ASSUME NEW f \in Transforms, s2r_transform(f)  PROVE Inv'
    BY <1>7, ArgsAssumption, LiveInUse, TransformInUse, BecomeInv DEF s2r_transform, Assignable
  <1> QED
    BY <1>2, <1>3, <1>4, <1>5, <1>6, <1>7 DEF Writes

\* The writes that leave the facts alone, and what they write.
LEMMA BareWrite ==
  ASSUME BareWrites
  PROVE  /\ Unrecorded
         /\ \E f \in [Word -> Int] : Become(Rewrite(pool, f))
  <1>1. /\ \A s \in Args : s \in Int
        /\ \A x \in Word : x \in Int /\ \A s \in Args : BitAnd[<<x, s>>] \in Int
    <2>1. Word \subseteq Int /\ Args \subseteq Word
      BY ArgsAssumption, Conversions
    <2>2. \A x, s \in Word : BitAnd[<<x, s>>] \in Word
      BY ArgsAssumption
    <2> QED
      BY <2>1, <2>2
  <1>2. /\ \A s \in Args : [x \in Word |-> x - s] \in [Word -> Int]
        /\ \A s \in Args : [x \in Word |-> x + s - 2 * BitAnd[<<x, s>>]] \in [Word -> Int]
        /\ \A s \in Args : [x \in Word |-> BitAnd[<<x, s>>]] \in [Word -> Int]
        /\ \A s \in Args : [x \in Word |-> x + s - BitAnd[<<x, s>>]] \in [Word -> Int]
        /\ \A s \in Args : [x \in Word |-> s] \in [Word -> Int]
        /\ [x \in Word |-> -1 - x] \in [Word -> Int]
    BY <1>1
  <1> QED
    BY <1>2 DEF BareWrites, s2r_sub_scalar, s2r_xor_scalar,
                s2r_and_scalar, s2r_or_scalar, s2r_not, s2r_fill, SubScalar, Not, Fill

LEMMA BareWritesStep ==
  ASSUME Inv, BareWrites
  PROVE  Inv'
  <1>1. Live
    BY BareWrite DEF Unrecorded, Assignable
  <1>2. PICK f \in [Word -> Int] : Become(Rewrite(pool, f))
    BY BareWrite
  <1> QED
    BY <1>1, <1>2, LiveInUse, RewriteInUse, BecomeInv

LEMMA RemovalsStep ==
  ASSUME Inv, Removals
  PROVE  Inv'
  <1>1. ASSUME NEW i \in DOMAIN pool.data, s2r_remove_swap(i)  PROVE Inv'
    BY <1>1, LiveInUse, RemoveSwapInUse, BecomeInv DEF s2r_remove_swap
  <1>2. ASSUME NEW ok \in BOOLEAN, s2r_unique_sorted(ok)  PROVE Inv'
    BY <1>2, LiveInUse, UniqueSortedInUse, BecomeInv DEF s2r_unique_sorted
  <1> QED
    BY <1>1, <1>2 DEF Removals

LEMMA FactCallsStep ==
  ASSUME Inv, FactCalls
  PROVE  Inv'
  <1>1. CASE s2r_summarize
    BY <1>1, LiveInUse, SummarizeInUse, BecomeInv DEF s2r_summarize
  <1>2. CASE s2r_summarize_empty
    BY <1>2, LiveInUse, SummarizeEmptyInUse, BecomeInv DEF s2r_summarize_empty
  <1>3. CASE s2r_mark_sorted
    BY <1>3, LiveInUse, MarkSortedInUse, BecomeInv DEF s2r_mark_sorted
  <1>4. CASE s2r_sort
    BY <1>4, LiveInUse, SortInUse, BecomeInv DEF s2r_sort
  <1> QED
    BY <1>1, <1>2, <1>3, <1>4 DEF FactCalls

\* Whatever functions are called, in whatever order, with whatever arguments and
\* however the allocator answers, the invariant holds.
LEMMA Invariance == Spec => []Inv
  <1>1. Init => Inv
    BY ZeroedType DEF Init, Inv, TypeOK, BufferSound, Live
  <1>2. Inv /\ [Next]_vars => Inv'
    <2> SUFFICES ASSUME Inv, [Next]_vars  PROVE Inv'
      OBVIOUS
    <2>1. CASE UNCHANGED vars
      BY <2>1 DEF vars, Inv, TypeOK, BufferSound, Live
    <2>2. CASE Next
      BY <2>2, LifecycleStep, ResizesStep, AppendsStep, ClassChangesStep, WritesStep,
         BareWritesStep, RemovalsStep, FactCallsStep DEF Next
    <2> QED
      BY <2>1, <2>2
  <1> QED
    BY <1>1, <1>2, PTL DEF Spec

\* The structure keeps its types: raw values and summaries stay uint64_t, the
\* epoch a uint32_t, whatever sequence of calls.
THEOREM TypeCorrect == Spec => []TypeOK
  <1>1. Inv => TypeOK
    BY DEF Inv
  <1> QED
    BY <1>1, Invariance, PTL

\* The elements lie within the block, counted in the elements of the current
\* class, whatever sequence of calls (s2r_reserve, s2r_promote, s2r_demote,
\* s2r__reclass, s2r__recap_empty, the pushes).
THEOREM ElementsWithinBlock == Spec => []BufferSound
  <1>1. Inv => BufferSound
    BY DEF Inv
  <1> QED
    BY <1>1, Invariance, PTL

-----------------------------------------------------------------------------
(* A careful caller: what the pool records of itself stays true.            *)

\* Inductive: a pool in use is honest, a mapped one is still marked as such when
\* it comes to be closed, and a released one has left nothing allocated.
CarefulInv ==
  /\ Inv
  /\ Live => Honest(pool)
  /\ owner = "map" => Borrowed
  /\ ~Live => pool.heap = 0

LEMMA OnwardInv ==
  ASSUME CarefulInv, Live, NEW p, Onward(pool, p), Become(p)
  PROVE  CarefulInv'
  <1>1. InUse(p) /\ Honest(p)
    BY DEF Onward, Honest
  <1>2. Inv'
    BY <1>1, BecomeInv DEF CarefulInv
  <1> QED
    BY <1>1, <1>2 DEF CarefulInv, Become, Live, Borrowed, Onward

\* What a guard says of a careful caller.
LEMMA CarefulLive ==
  ASSUME CarefulInv, Live
  PROVE  /\ Honest(pool) /\ InUse(pool) /\ pool.size \in Sizes
         /\ owner = "map" => "EXTERNAL" \in pool.flags
  BY LiveInUse DEF CarefulInv, Honest, Borrowed

LEMMA CreateCareful ==
  ASSUME NEW r, r.pool \in PoolType, r.ret => Honest(r.pool), ~r.ret => r.pool.heap = 0, Create(r)
  PROVE  CarefulInv'
  <1>1. Inv'
    BY CreateInv DEF Honest
  <1> QED
    BY <1>1 DEF CarefulInv, Create, Live

\* The words the guards of the appends speak of.
LEMMA RepresentsTakes ==
  ASSUME NEW p, NEW v
  PROVE  Represents(p, v) <=> Takes(p, v)
  BY DEF Represents, Takes

\* An honest pool, released, has given its block back.
LEMMA FreedHeap ==
  ASSUME NEW p, Honest(p)
  PROVE  PoolFree(p).heap = 0
  <1>1. p \in PoolType /\ p.buf \in {"null", "heap", "mapping"}
    BY DEF Honest, InUse, PoolType
  <1>2. PoolFree(p).heap = IF p.buf # "null" /\ "EXTERNAL" \notin p.flags THEN p.heap - 1 ELSE p.heap
    BY <1>1, PoolFreeEffect
  <1> QED
    BY <1>1, <1>2 DEF Honest, Placed

LEMMA LifecycleCareful ==
  ASSUME Careful, CarefulInv, NEW ok \in BOOLEAN, Lifecycle(ok)
  PROVE  CarefulInv'
  <1>1. pool \in PoolType /\ Inv
    BY DEF CarefulInv, Inv, TypeOK
  <1>2. owner = "none" => pool.heap = 0
    BY DEF CarefulInv, Live
  <1>3. ASSUME NEW size \in Sizes, NEW cap \in CapArgs, s2r_pool_init(size, cap, ok)
        PROVE  CarefulInv'
    <2> DEFINE r == PoolInit(0, size, cap, ok)
    <2>1. cap \in Nat /\ 0 \in Int
      BY ArgsAssumption
    <2>2. Create(r)
      BY <1>2, <1>3 DEF s2r_pool_init, Create
    <2>3. r.pool \in PoolType /\ (r.ret => InUse(r.pool))
      BY <2>1, AskedAssumption, AskableAligns, PoolInitInUse
    <2>4. Fresh(0, size, r.pool) /\ (~r.ret => r.pool.heap = 0)
      BY <2>1, PoolInitEffect
    <2> HIDE DEF r
    <2>5. r.ret => Honest(r.pool)
      BY <2>3, <2>4, FreshHonest
    <2> QED
      BY <2>2, <2>3, <2>4, <2>5, CreateCareful
  <1>4. ASSUME NEW arr \in Arrays, s2r_from_array_auto(arr, ok)
        PROVE  CarefulInv'
    <2> DEFINE r == FromArrayAuto(0, arr, ok)
    <2>1. arr \in Seq(Word) /\ 0 \in Int
      BY ArgsAssumption
    <2>2. Create(r)
      BY <1>2, <1>4 DEF s2r_from_array_auto, Create
    <2>3. r.pool \in PoolType /\ (r.ret => InUse(r.pool))
      BY <2>1, AskedAssumption, FromArrayAutoInUse
    <2>4. (r.ret => Honest(r.pool)) /\ (~r.ret => r.pool.heap = 0)
      BY <2>1, AskedAssumption, FromArrayAutoHonest
    <2> HIDE DEF r
    <2> QED
      BY <2>2, <2>3, <2>4, CreateCareful
  <1>5. ASSUME NEW arr \in Arrays, s2r_from_array_signed_auto(arr, ok)
        PROVE  CarefulInv'
    <2> DEFINE signed == [i \in DOMAIN arr |-> I64(arr[i])]
               r == FromArraySignedAuto(0, signed, ok)
    <2>1. arr \in Seq(Word) /\ 0 \in Int
      BY ArgsAssumption
    <2>2. signed \in Seq(Int64) /\ Askable(Len(signed))
      BY <2>1, AskedAssumption, SignedArray
    <2>3. Create(r)
      BY <1>2, <1>5 DEF s2r_from_array_signed_auto, Create
    <2> HIDE DEF signed
    <2>4. r.pool \in PoolType /\ (r.ret => InUse(r.pool))
      BY <2>1, <2>2, FromArraySignedAutoInUse
    <2>5. (r.ret => Honest(r.pool)) /\ (~r.ret => r.pool.heap = 0)
      BY <2>2, FromArraySignedAutoHonest
    <2> HIDE DEF r
    <2> QED
      BY <2>3, <2>4, <2>5, CreateCareful
  <1>6. ASSUME NEW size \in Sizes, NEW arr \in Arrays, s2r_map_open(size, arr)
        PROVE  CarefulInv'
    <2> DEFINE q == Mapped(0, size, arr)
    <2>1. arr \in Seq(Word) /\ 0 \in Int
      BY ArgsAssumption
    <2>2. /\ pool' = q /\ owner' = "map"
          /\ \A i \in DOMAIN arr : arr[i] < Pow(Abs(size))
          /\ Len(arr) * Bytes(size) <= Memory
      BY <1>2, <1>6 DEF s2r_map_open
    <2>3. InUse(q)
      BY <2>1, <2>2, MappedInUse
    <2>4. Honest(q) /\ "EXTERNAL" \in q.flags
      BY <2>3, MappedHonest
    <2> HIDE DEF q
    <2> QED
      BY <2>2, <2>3, <2>4 DEF CarefulInv, Inv, TypeOK, BufferSound, InUse, Live, Borrowed
  <1>7. CASE s2r_pool_free
    <2>1. Honest(pool) /\ pool' = PoolFree(pool) /\ owner' = "none"
      BY <1>7, CarefulLive DEF s2r_pool_free, Live
    <2>2. PoolFree(pool) \in PoolType /\ PoolFree(pool).heap = 0
      BY <1>1, <2>1, FreedHeap, PoolFreeType
    <2> QED
      BY <2>1, <2>2 DEF CarefulInv, Inv, TypeOK, BufferSound, Live
  <1>8. CASE s2r_map_close
    <2>1. Honest(pool) /\ "EXTERNAL" \in pool.flags /\ pool' = Zeroed(pool.heap) /\ owner' = "none"
      BY <1>8, CarefulLive DEF s2r_map_close, Live
    <2>2. pool.heap = 0
      BY <2>1 DEF Honest, Placed
    <2>3. Zeroed(0) \in PoolType /\ Zeroed(0).heap = 0
      BY ZeroedType DEF Zeroed
    <2> QED
      BY <2>1, <2>2, <2>3 DEF CarefulInv, Inv, TypeOK, BufferSound, Live
  <1>9. CASE s2r_copy(ok)
    <2> DEFINE r == Copy(0, pool, ok)
    <2>1. /\ Honest(pool) /\ InUse(pool) /\ "SUMMARY" \notin pool.flags
          /\ "EXTERNAL" \notin pool.flags /\ owner # "map"
      BY <1>9, CarefulLive DEF s2r_copy, Summed, Borrowed
    <2>2. Released.heap = 0
      BY <1>1, <2>1, FreedHeap DEF Released
    <2>3. \/ r.ret /\ pool' = r.pool /\ owner' = "pool"
          \/ UNCHANGED vars
      BY <1>9, <2>2 DEF s2r_copy
    <2>4. r.ret => InUse(r.pool) /\ Honest(r.pool)
      <3>1. 0 \in Int
        OBVIOUS
      <3> QED
        BY <2>1, <3>1, CopyInUse, CopyHonest
    <2> HIDE DEF r
    <2>5. CASE r.ret /\ pool' = r.pool /\ owner' = "pool"
      BY <2>4, <2>5 DEF CarefulInv, Inv, TypeOK, BufferSound, Live, InUse
    <2>6. CASE UNCHANGED vars
      BY <2>6 DEF CarefulInv, Inv, TypeOK, BufferSound, Live, Borrowed, vars
    <2> QED
      BY <2>3, <2>5, <2>6
  <1> QED
    BY <1>3, <1>4, <1>5, <1>6, <1>7, <1>8, <1>9 DEF Lifecycle

LEMMA ResizesCareful ==
  ASSUME Careful, CarefulInv, NEW ok \in BOOLEAN, Resizes(ok)
  PROVE  CarefulInv'
  <1>1. ASSUME Live, NEW q, Become(q), InUse(q),
               q = pool \/ ("READONLY" \notin pool.flags /\ Regrown(pool, q))
        PROVE  CarefulInv'
    <2>1. Honest(pool)
      BY <1>1, CarefulLive
    <2>2. q = pool => Onward(pool, q)
      BY <2>1 DEF Onward
    <2>3. "READONLY" \notin pool.flags /\ Regrown(pool, q) => Onward(pool, q)
      BY <1>1, <2>1, RegrownOnward
    <2>4. Onward(pool, q)
      BY <1>1, <2>2, <2>3
    <2> QED
      BY <1>1, <2>4, OnwardInv
  <1>2. ASSUME NEW cap \in CapArgs, s2r_reserve(cap, ok)  PROVE CarefulInv'
    <2>1. cap \in Nat /\ Askable(cap) /\ Live /\ InUse(pool)
      BY <1>2, ArgsAssumption, AskedAssumption, CarefulLive DEF s2r_reserve
    <2> DEFINE q == Reserve(pool, cap, ok).pool
    <2>2. Become(q)
      BY <1>2 DEF s2r_reserve
    <2>3. InUse(q) /\ (q = pool \/ ("READONLY" \notin pool.flags /\ Regrown(pool, q)))
      BY <2>1, ReserveInUse, ReserveEffect
    <2> HIDE DEF q
    <2> QED
      BY <1>1, <2>1, <2>2, <2>3
  <1>3. CASE s2r_shrink_to_fit(ok)
    <2>1. Live /\ InUse(pool)
      BY <1>3, CarefulLive DEF s2r_shrink_to_fit
    <2> DEFINE q == ShrinkToFit(pool, ok).pool
    <2>2. Become(q)
      BY <1>3 DEF s2r_shrink_to_fit
    <2>3. InUse(q) /\ (q = pool \/ ("READONLY" \notin pool.flags /\ Regrown(pool, q)))
      BY <2>1, ShrinkInUse, ShrinkEffect
    <2> HIDE DEF q
    <2> QED
      BY <1>1, <2>1, <2>2, <2>3
  <1> QED
    BY <1>2, <1>3 DEF Resizes

\* One appending call each: the guard gives what the lemma of its function asks.
LEMMA PushCareful ==
  ASSUME Careful, CarefulInv, NEW v \in Word, NEW ok \in BOOLEAN, s2r_push(v, ok)
  PROVE  CarefulInv'
  <1> DEFINE r == Push(pool, v, ok)
  <1>1. Live /\ Honest(pool) /\ Become(r.pool)
    BY CarefulLive DEF s2r_push
  <1>2. /\ pool.flags \cap FactFlags # {} => Takes(pool, v)
        /\ "SUMMARY" \in pool.flags => r.ret
    BY RepresentsTakes DEF s2r_push, CarefulPush, Facts, Summed
  <1>r. r = Push(pool, v, ok)
    OBVIOUS
  <1> HIDE DEF r
  <1>3. pool.flags \cap FactFlags # {} => Holds(pool.size, Meaning(pool, v))
    BY <1>1, <1>2, TakesHolds
  <1>4. Onward(pool, r.pool)
    BY <1>1, <1>2, <1>3, <1>r, PushOnward
  <1> QED
    BY <1>1, <1>4, OnwardInv

LEMMA PushManyCareful ==
  ASSUME Careful, CarefulInv, NEW a \in Word, NEW b \in Word, NEW ok \in BOOLEAN,
         s2r_push_many(a, b, ok)
  PROVE  CarefulInv'
  <1> DEFINE r == PushMany(pool, a, b, ok)
  <1>1. Live /\ Honest(pool) /\ Become(r.pool)
    BY CarefulLive DEF s2r_push_many
  <1>2. pool.flags \cap FactFlags # {} => Takes(pool, a) /\ Takes(pool, b)
    BY RepresentsTakes DEF s2r_push_many, Facts
  <1>r. r = PushMany(pool, a, b, ok)
    OBVIOUS
  <1> HIDE DEF r
  <1>3. Onward(pool, r.pool)
    BY <1>1, <1>2, <1>r, PushManyOnward
  <1> QED
    BY <1>1, <1>3, OnwardInv

LEMMA PushCheckedCareful ==
  ASSUME Careful, CarefulInv, NEW v \in Word, NEW ok \in BOOLEAN, s2r_push_checked(v, ok)
  PROVE  CarefulInv'
  <1> DEFINE r == PushChecked(pool, v, ok)
  <1>1. Live /\ Honest(pool) /\ Become(r.pool)
    BY CarefulLive DEF s2r_push_checked
  <1>2. /\ pool.flags \cap FactFlags # {} => Takes(pool, v)
        /\ "SUMMARY" \in pool.flags => r.ret # "OOM"
    BY RepresentsTakes DEF s2r_push_checked, CarefulPush, Facts, Summed
  <1>r. r = PushChecked(pool, v, ok)
    OBVIOUS
  <1> HIDE DEF r
  <1>3. Onward(pool, r.pool)
    BY <1>1, <1>2, <1>r, PushCheckedOnward
  <1> QED
    BY <1>1, <1>3, OnwardInv

LEMMA PushSignedCheckedCareful ==
  ASSUME Careful, CarefulInv, NEW v \in Word, NEW ok \in BOOLEAN, s2r_push_signed_checked(v, ok)
  PROVE  CarefulInv'
  <1> DEFINE r == PushSignedChecked(pool, I64(v), ok)
  <1>1. Live /\ Honest(pool) /\ Become(r.pool) /\ I64(v) \in Int64
    BY CarefulLive, Conversions DEF s2r_push_signed_checked
  <1>2. "SUMMARY" \in pool.flags => r.ret # "OOM"
    BY DEF s2r_push_signed_checked, Summed
  <1>r. r = PushSignedChecked(pool, I64(v), ok)
    OBVIOUS
  <1> HIDE DEF r
  <1>3. Onward(pool, r.pool)
    BY <1>1, <1>2, <1>r, PushSignedCheckedOnward
  <1> QED
    BY <1>1, <1>3, OnwardInv

LEMMA PushSaturateCareful ==
  ASSUME Careful, CarefulInv, NEW v \in Word, NEW ok \in BOOLEAN, s2r_push_saturate(v, ok)
  PROVE  CarefulInv'
  <1> DEFINE r == PushSaturate(pool, v, ok)
  <1>1. Live /\ Honest(pool) /\ Become(r.pool)
    BY CarefulLive DEF s2r_push_saturate
  <1>2. /\ pool.flags \cap FactFlags # {} => Takes(pool, Saturated(pool, v))
        /\ "SUMMARY" \in pool.flags => r.ret
    BY RepresentsTakes DEF s2r_push_saturate, CarefulPush, Facts, Summed
  <1>r. r = PushSaturate(pool, v, ok)
    OBVIOUS
  <1> HIDE DEF r
  <1>3. Onward(pool, r.pool)
    BY <1>1, <1>2, <1>r, PushSaturateOnward
  <1> QED
    BY <1>1, <1>3, OnwardInv

LEMMA PushAdaptiveCareful ==
  ASSUME Careful, CarefulInv, NEW v \in Word, NEW ok \in BOOLEAN, NEW ok2 \in BOOLEAN,
         s2r_push_adaptive(v, ok, ok2)
  PROVE  CarefulInv'
  <1> DEFINE r == PushAdaptive(pool, v, ok, ok2)
  <1>1. Live /\ Honest(pool) /\ Become(r.pool)
    BY CarefulLive DEF s2r_push_adaptive
  <1>2. "SUMMARY" \in r.pool.flags => r.ret # "OOM"
    BY DEF s2r_push_adaptive
  <1>r. r = PushAdaptive(pool, v, ok, ok2)
    OBVIOUS
  <1> HIDE DEF r
  <1>3. Onward(pool, r.pool)
    BY <1>1, <1>2, <1>r, PushAdaptiveOnward
  <1> QED
    BY <1>1, <1>3, OnwardInv

LEMMA PushSignedAdaptiveCareful ==
  ASSUME Careful, CarefulInv, NEW v \in Word, NEW ok \in BOOLEAN, NEW ok2 \in BOOLEAN,
         s2r_push_signed_adaptive(v, ok, ok2)
  PROVE  CarefulInv'
  <1> DEFINE r == PushSignedAdaptive(pool, I64(v), ok, ok2)
  <1>1. Live /\ Honest(pool) /\ Become(r.pool) /\ I64(v) \in Int64
    BY CarefulLive, Conversions DEF s2r_push_signed_adaptive
  <1>2. "SUMMARY" \in r.pool.flags => r.ret # "OOM"
    BY DEF s2r_push_signed_adaptive
  <1>r. r = PushSignedAdaptive(pool, I64(v), ok, ok2)
    OBVIOUS
  <1> HIDE DEF r
  <1>3. Onward(pool, r.pool)
    BY <1>1, <1>2, <1>r, PushSignedAdaptiveOnward
  <1> QED
    BY <1>1, <1>3, OnwardInv

LEMMA AppendsCareful ==
  ASSUME Careful, CarefulInv, NEW ok \in BOOLEAN, Appends(ok)
  PROVE  CarefulInv'
  <1>1. \A v \in Args : v \in Word
    BY ArgsAssumption
  <1>2. CASE \E v \in Args : \/ s2r_push(v, ok)
                             \/ s2r_push_checked(v, ok)
                             \/ s2r_push_signed_checked(v, ok)
                             \/ s2r_push_saturate(v, ok)
    BY <1>1, <1>2, PushCareful, PushCheckedCareful, PushSignedCheckedCareful, PushSaturateCareful
  <1>3. CASE \E a, b \in Args : s2r_push_many(a, b, ok)
    BY <1>1, <1>3, PushManyCareful
  <1>4. CASE \E v \in Args, ok2 \in BOOLEAN : \/ s2r_push_adaptive(v, ok, ok2)
                                              \/ s2r_push_signed_adaptive(v, ok, ok2)
    BY <1>1, <1>4, PushAdaptiveCareful, PushSignedAdaptiveCareful
  <1> QED
    BY <1>2, <1>3, <1>4 DEF Appends

LEMMA ClassChangesCareful ==
  ASSUME Careful, CarefulInv, NEW ok \in BOOLEAN, ClassChanges(ok)
  PROVE  CarefulInv'
  <1>1. ASSUME NEW size \in Sizes, s2r_promote(size, ok)  PROVE CarefulInv'
    <2>1. Live /\ Honest(pool) /\ "EXTERNAL" \notin pool.flags /\ Become(Promote(pool, size, ok).pool)
      BY <1>1, CarefulLive DEF s2r_promote, Borrowed
    <2> QED
      BY <2>1, PromoteOnward, OnwardInv
  <1>2. ASSUME NEW size \in Sizes, s2r_demote(size, ok)  PROVE CarefulInv'
    <2>1. /\ Live /\ Honest(pool) /\ "EXTERNAL" \notin pool.flags /\ ~IsSigned(pool)
          /\ Become(Demote(pool, size, ok).pool)
      BY <1>2, CarefulLive DEF s2r_demote, Borrowed
    <2> QED
      BY <2>1, DemoteOnward, OnwardInv
  <1>3. CASE s2r_fit_class(ok)
    <2>1. /\ Live /\ Honest(pool) /\ InUse(pool) /\ "EXTERNAL" \notin pool.flags
          /\ Become(FitClass(pool, ok).pool)
      BY <1>3, CarefulLive DEF s2r_fit_class, Borrowed
    <2>2. Onward(pool, FitClass(pool, ok).pool)
      BY <2>1, FitClassInUse, FitClassEffect, FittedOnward
    <2> QED
      BY <2>1, <2>2, OnwardInv
  <1>4. CASE s2r_fit_class_signedness(ok)
    <2>1. /\ Live /\ Honest(pool) /\ InUse(pool) /\ "EXTERNAL" \notin pool.flags
          /\ Become(FitClassSignedness(pool, ok).pool)
      BY <1>4, CarefulLive DEF s2r_fit_class_signedness, Borrowed
    <2>2. Onward(pool, FitClassSignedness(pool, ok).pool)
      BY <2>1, FitClassSignednessInUse, FitClassSignednessEffect, FittedOnward
    <2> QED
      BY <2>1, <2>2, OnwardInv
  <1> QED
    BY <1>1, <1>2, <1>3, <1>4 DEF ClassChanges

\* A write that drops the facts, or does nothing.
LEMMA DroppedCareful ==
  ASSUME CarefulInv, Live, NEW q, InUse(q), q = pool \/ \E k : Dropped(pool, q, k), Become(q)
  PROVE  CarefulInv'
  <1>1. Honest(pool)
    BY CarefulLive
  <1>2. Onward(pool, q)
    BY <1>1, DroppedOnward DEF Onward
  <1> QED
    BY <1>2, OnwardInv

LEMMA WritesCareful ==
  ASSUME Careful, CarefulInv, Writes
  PROVE  CarefulInv'
  <1>1. \A v \in Args : v \in Word /\ v \in Int /\ I64(v) \in Int
    BY ArgsAssumption, Conversions DEF Int64
  <1>2. ASSUME NEW i \in DOMAIN pool.data, NEW v \in Args, s2r_set(i, v)  PROVE CarefulInv'
    <2>1. Live /\ InUse(pool) /\ Become(Set(pool, i, v))
      BY <1>2, CarefulLive DEF s2r_set, Assignable
    <2> QED
      BY <1>1, <2>1, SetInUse, SetEffect, DroppedCareful
  <1>3. ASSUME NEW i \in DOMAIN pool.data, NEW v \in Args, s2r_set_signed(i, v)  PROVE CarefulInv'
    <2>1. Live /\ InUse(pool) /\ Become(SetSigned(pool, i, I64(v)))
      BY <1>3, CarefulLive DEF s2r_set_signed, Assignable
    <2> QED
      BY <1>1, <2>1, SetSignedInUse, SetSignedEffect, DroppedCareful
  <1>4. CASE s2r_clear
    <2>1. Live /\ InUse(pool) /\ Become(Clear(pool))
      BY <1>4, CarefulLive DEF s2r_clear
    <2> QED
      BY <2>1, ClearInUse, ClearEffect, DroppedCareful
  <1>5. ASSUME NEW s \in Args, s2r_add_scalar(s)  PROVE CarefulInv'
    <2>1. Live /\ InUse(pool) /\ Become(AddScalar(pool, s))
      BY <1>5, CarefulLive DEF s2r_add_scalar, Assignable
    <2> QED
      BY <1>1, <2>1, AddScalarInUse, AddScalarEffect, DroppedCareful
  <1>6. ASSUME NEW s \in Args, s2r_mul_scalar(s)  PROVE CarefulInv'
    <2>1. Live /\ InUse(pool) /\ Become(MulScalar(pool, s))
      BY <1>6, CarefulLive DEF s2r_mul_scalar, Assignable
    <2> QED
      BY <1>1, <2>1, MulScalarInUse, MulScalarEffect, DroppedCareful
  <1>7. ASSUME NEW f \in Transforms, s2r_transform(f)  PROVE CarefulInv'
    <2>1. Live /\ InUse(pool) /\ Become(Transform(pool, f)) /\ f \in [Word -> Word]
      BY <1>7, ArgsAssumption, CarefulLive DEF s2r_transform, Assignable
    <2> QED
      BY <2>1, TransformInUse, TransformEffect, DroppedCareful
  <1> QED
    BY <1>2, <1>3, <1>4, <1>5, <1>6, <1>7 DEF Writes

LEMMA BareWritesCareful ==
  ASSUME Careful, CarefulInv, BareWrites
  PROVE  CarefulInv'
  <1>1. Live /\ pool.flags \cap FactFlags = {}
    BY BareWrite DEF Unrecorded, Assignable, Facts
  <1>2. PICK f \in [Word -> Int] : Become(Rewrite(pool, f))
    BY BareWrite
  <1>3. Honest(pool) /\ InUse(pool)
    BY <1>1, CarefulLive
  <1>4. InUse(Rewrite(pool, f)) /\ Written(pool, Rewrite(pool, f))
    BY <1>3, RewriteInUse, RewriteEffect
  <1>5. Onward(pool, Rewrite(pool, f))
    BY <1>1, <1>3, <1>4, WrittenOnward
  <1> QED
    BY <1>1, <1>2, <1>5, OnwardInv

LEMMA RemovalsCareful ==
  ASSUME Careful, CarefulInv, Removals
  PROVE  CarefulInv'
  <1>1. ASSUME NEW i \in DOMAIN pool.data, s2r_remove_swap(i)  PROVE CarefulInv'
    <2>1. /\ Live /\ Honest(pool) /\ Become(RemoveSwap(pool, i))
          /\ "SUMMARY" \in pool.flags => i # Count(pool)
      BY <1>1, CarefulLive DEF s2r_remove_swap, Summed
    <2> QED
      BY <2>1, RemoveSwapOnward, OnwardInv
  <1>2. ASSUME NEW ok \in BOOLEAN, s2r_unique_sorted(ok)  PROVE CarefulInv'
    <2>1. /\ Live /\ Honest(pool)
          /\ "SUMMARY" \in pool.flags /\ Count(pool) > 1 => RunStarts(pool) # {1}
      BY <1>2, CarefulLive DEF s2r_unique_sorted, Summed
    <2>2. PICK q \in UniqueSorted(pool, ok) : Become(q)
      BY <1>2 DEF s2r_unique_sorted
    <2>3. Onward(pool, q)
      BY <2>1, UniqueSortedOnward
    <2> QED
      BY <2>1, <2>2, <2>3, OnwardInv
  <1> QED
    BY <1>1, <1>2 DEF Removals

LEMMA FactCallsCareful ==
  ASSUME Careful, CarefulInv, FactCalls
  PROVE  CarefulInv'
  <1>1. Live /\ Honest(pool)
    BY CarefulLive DEF FactCalls, s2r_summarize, s2r_summarize_empty, s2r_mark_sorted, s2r_sort
  <1>2. CASE s2r_summarize
    <2>1. PICK q \in Summarize(pool) : Become(q)
      BY <1>2 DEF s2r_summarize
    <2> QED
      BY <1>1, <2>1, SummarizeOnward, OnwardInv
  <1>3. CASE s2r_summarize_empty
    BY <1>1, <1>3, SummarizeEmptyOnward, OnwardInv DEF s2r_summarize_empty
  <1>4. CASE s2r_mark_sorted
    BY <1>1, <1>4, MarkSortedOnward, OnwardInv DEF s2r_mark_sorted
  <1>5. CASE s2r_sort
    <2>1. PICK q \in Sort(pool) : Become(q)
      BY <1>5 DEF s2r_sort
    <2> QED
      BY <1>1, <2>1, SortOnward, OnwardInv
  <1> QED
    BY <1>2, <1>3, <1>4, <1>5 DEF FactCalls

LEMMA CarefulInvariance == Careful => (Spec => []CarefulInv)
  <1> SUFFICES ASSUME Careful PROVE Spec => []CarefulInv
    OBVIOUS
  <1>1. Init => CarefulInv
    <2>1. Init => Inv
      BY ZeroedType DEF Init, Inv, TypeOK, BufferSound, Live
    <2>2. Init => pool.heap = 0 /\ owner = "none"
      BY DEF Init, Zeroed
    <2> QED
      BY <2>1, <2>2 DEF CarefulInv, Live
  <1>2. CarefulInv /\ [Next]_vars => CarefulInv'
    <2> SUFFICES ASSUME CarefulInv, [Next]_vars  PROVE CarefulInv'
      OBVIOUS
    <2>1. CASE UNCHANGED vars
      BY <2>1 DEF vars, CarefulInv, Inv, TypeOK, BufferSound, Live, Borrowed
    <2>2. CASE Next
      BY <2>2, LifecycleCareful, ResizesCareful, AppendsCareful, ClassChangesCareful, WritesCareful,
         BareWritesCareful, RemovalsCareful, FactCallsCareful DEF Next
    <2> QED
      BY <2>1, <2>2
  <1> QED
    BY <1>1, <1>2, PTL DEF Spec

\* A careful caller's pool never loses or frees twice a block: it owns one or
\* none, is marked EXTERNAL exactly while its data lie in a mapping, and leaves
\* nothing allocated when it is released (s2r_pool_free, s2r_map_close and every
\* function that replaces the block).
THEOREM BlockReleasedOnce == Careful => (Spec => []NoLeak)
  <1> SUFFICES ASSUME Careful PROVE Spec => []NoLeak
    OBVIOUS
  <1>1. CarefulInv => NoLeak
    <2> SUFFICES ASSUME CarefulInv PROVE NoLeak
      OBVIOUS
    <2>1. CASE Live
      BY <2>1 DEF CarefulInv, Honest, Placed, NoLeak, Borrowed
    <2>2. CASE ~Live
      BY <2>2 DEF CarefulInv, NoLeak
    <2> QED
      BY <2>1, <2>2
  <1> QED
    BY <1>1, CarefulInvariance, PTL

\* The sign of `size` and the SIGNED flag of a careful caller's pool agree
\* through every class change (s2r_promote, s2r__reclass, the adaptive pushes).
THEOREM SignsAgree == Careful => (Spec => []SignAgrees)
  <1> SUFFICES ASSUME Careful PROVE Spec => []SignAgrees
    OBVIOUS
  <1>1. CarefulInv => SignAgrees
    BY DEF CarefulInv, Honest, Agrees, SignAgrees
  <1> QED
    BY <1>1, CarefulInvariance, PTL

\* A careful caller's pool that carries the SORTED flag is in order, whatever
\* was appended, removed, sorted or re-classed since it was set.
THEOREM OrderIsTrue == Careful => (Spec => []OrderTrue)
  <1> SUFFICES ASSUME Careful PROVE Spec => []OrderTrue
    OBVIOUS
  <1>1. CarefulInv => OrderTrue
    BY DEF CarefulInv, Honest, OrderKnown, OrderTrue
  <1> QED
    BY <1>1, CarefulInvariance, PTL

\* A careful caller's pool that carries the SUMMARY flag has its minimum, its
\* maximum and its sum (in uint64_t) in smin, smax and ssum, kept up to date by
\* s2r_push and by nothing else.
THEOREM SummaryIsTrue == Careful => (Spec => []SummaryTrue)
  <1> SUFFICES ASSUME Careful PROVE Spec => []SummaryTrue
    OBVIOUS
  <1>1. CarefulInv => SummaryTrue
    BY DEF CarefulInv, Honest, Summarised, SummaryTrue, Summed
  <1> QED
    BY <1>1, CarefulInvariance, PTL

-----------------------------------------------------------------------------
(* Class changes, by any caller.                                            *)

\* If the class changed and nothing was removed, the elements read as they did.
Faithful(p, q) ==
  q.size # p.size /\ Count(p) > 0 /\ Count(q) >= Count(p) =>
    \A i \in DOMAIN p.data : Value(q, i) = Value(p, i)

LEMMA RefittedFaithful ==
  ASSUME NEW p, NEW q, q = p \/ Refitted(p, q)
  PROVE  Faithful(p, q)
  BY SameValues DEF Faithful, Refitted

\* A push leaves the class and what the elements before it are read as.
LEMMA PushKeeps ==
  ASSUME NEW p, InUse(p), NEW v \in Word, NEW ok \in BOOLEAN
  PROVE  LET q == Push(p, v, ok).pool IN
         q.size = p.size /\ \A i \in DOMAIN p.data : Value(q, i) = Value(p, i)
  <1> DEFINE r == Push(p, v, ok)
             q == r.pool
  <1>1. \/ q = p
        \/ q = PushFacts(p, v)
        \/ Pushed(p, v, q)
    BY PushEffect
  <1>2. /\ PushFacts(p, v).data = p.data /\ PushFacts(p, v).size = p.size
        /\ PushFacts(p, v).flags = IF KeepsOrder(p, v) THEN p.flags ELSE p.flags \ {"SORTED"}
    BY PushFactsFields DEF SameElements
  <1>3. p.data \in Seq(Word) /\ DOMAIN p.data = 1 .. Len(p.data)
    BY Fields DEF InUse
  <1> HIDE DEF q
  <1>4. /\ q.size = p.size
        /\ "SIGNED" \in q.flags <=> "SIGNED" \in p.flags
        /\ \A i \in DOMAIN p.data : q.data[i] = p.data[i]
    <2>1. CASE q = p
      BY <2>1
    <2>2. CASE q = PushFacts(p, v)
      BY <1>2, <2>2
    <2>3. CASE Pushed(p, v, q)
      <3>1. /\ q.data = Append(p.data, Raw(Abs(p.size), v)) /\ q.size = p.size
            /\ "SIGNED" \in q.flags <=> "SIGNED" \in PushFacts(p, v).flags
        BY <2>3 DEF Pushed
      <3>2. \A i \in DOMAIN p.data : q.data[i] = p.data[i]
        BY <1>3, <3>1
      <3> QED
        BY <1>2, <3>1, <3>2
    <2> QED
      BY <1>1, <2>1, <2>2, <2>3
  <1>5. IsSigned(q) = IsSigned(p)
    BY <1>4 DEF IsSigned
  <1>6. \A i \in DOMAIN p.data : Value(q, i) = Value(p, i)
    BY <1>4, <1>5 DEF Value, GetSigned, Get
  <1> QED
    BY <1>4, <1>6 DEF q

\* A widening followed by a push.
LEMMA WidenPushFaithful ==
  ASSUME NEW p, InUse(p), NEW size \in Sizes, NEW v \in Word, NEW ok1 \in BOOLEAN,
         NEW ok2 \in BOOLEAN, NEW w, w = Result(p, TRUE) \/ w = Widen(p, size, ok1),
         NEW q, q = p \/ q = w.pool \/ q = Push(w.pool, v, ok2).pool
  PROVE  Faithful(p, q)
  <1>1. SUFFICES ASSUME Count(p) # 0  PROVE Faithful(p, q)
    BY DEF Faithful
  <1> DEFINE m == w.pool
  <1>2. InUse(m)
    BY WidenInUse DEF Result
  <1>3. m = p \/ Refitted(p, m)
    BY <1>1, WidenEffect, PromoteEffect DEF Result
  <1> HIDE DEF m
  <1>4. DOMAIN m.data = DOMAIN p.data /\ \A i \in DOMAIN p.data : Value(m, i) = Value(p, i)
    BY <1>3, SameValues DEF Refitted
  <1>5. \A i \in DOMAIN m.data : Value(Push(m, v, ok2).pool, i) = Value(m, i)
    BY <1>2, PushKeeps
  <1> QED
    BY <1>4, <1>5 DEF Faithful, m

\* An increasing map of 1 .. n into itself moves nothing.
LEMMA IncreasingIdentity ==
  ASSUME NEW n \in Nat, NEW f \in [1 .. n -> 1 .. n],
         \A a, b \in 1 .. n : a < b => f[a] < f[b]
  PROVE  \A i \in 1 .. n : f[i] = i
  <1> DEFINE S == {m \in 0 .. n : m > 0 => f[m] >= m}
             T == {m \in 0 .. n : m < n => f[n - m] <= n - m}
  <1>1. S = 0 .. n
    <2>1. 0 \in S
      OBVIOUS
    <2>2. ASSUME NEW m \in 1 .. n, m - 1 \in S  PROVE m \in S
      <3>1. CASE m = 1
        BY <3>1
      <3>2. CASE m # 1
        <4> DEFINE l == m - 1
        <4>1. l \in 1 .. n /\ l < m /\ m = l + 1
          BY <3>2
        <4>2. f[l] >= l
          BY <2>2, <4>1
        <4> HIDE DEF l
        <4>3. f[l] < f[m] /\ f[l] \in Nat /\ f[m] \in Nat /\ l \in Nat
          BY <4>1
        <4>4. f[m] >= m
          BY <4>1, <4>2, <4>3
        <4> QED
          BY <4>4
      <3> QED
        BY <3>1, <3>2
    <2> HIDE DEF S
    <2>3. S \in SUBSET (0 .. n)
      BY DEF S
    <2> QED
      BY <2>1, <2>2, <2>3, UpTo
  <1>2. T = 0 .. n
    <2>1. 0 \in T
      <3>1. n - 0 = n
        OBVIOUS
      <3>2. 0 < n => n \in 1 .. n
        OBVIOUS
      <3>3. 0 < n => f[n] <= n
        BY <3>2
      <3> QED
        BY <3>1, <3>3
    <2>2. ASSUME NEW m \in 1 .. n, m - 1 \in T  PROVE m \in T
      <3> SUFFICES ASSUME m < n  PROVE f[n - m] <= n - m
        OBVIOUS
      <3> DEFINE k == n - m
                 l == n - (m - 1)
      <3>1. k \in 1 .. n /\ l \in 1 .. n /\ l = k + 1 /\ m - 1 < n
        OBVIOUS
      <3>2. f[l] <= l
        BY <2>2, <3>1
      <3> HIDE DEF k, l
      <3>3. f[k] < f[l] /\ f[k] \in Nat /\ f[l] \in Nat /\ k \in Nat
        BY <3>1
      <3>4. f[k] <= k
        BY <3>1, <3>2, <3>3
      <3> QED
        BY <3>4 DEF k
    <2> HIDE DEF T
    <2>3. T \in SUBSET (0 .. n)
      BY DEF T
    <2> QED
      BY <2>1, <2>2, <2>3, UpTo
  <1> SUFFICES ASSUME NEW i \in 1 .. n  PROVE f[i] = i
    OBVIOUS
  <1>3. f[i] >= i
    BY <1>1
  <1>4. f[i] <= i
    <2> DEFINE m == n - i
    <2>1. m \in 0 .. n /\ m < n /\ n - m = i
      OBVIOUS
    <2> HIDE DEF m
    <2>2. m \in T
      BY <1>2, <2>1
    <2> QED
      BY <2>1, <2>2
  <1>5. f[i] \in Nat
    OBVIOUS
  <1> HIDE DEF S, T
  <1> QED
    BY <1>3, <1>4, <1>5

LEMMA UniqueSortedFaithful ==
  ASSUME NEW p, InUse(p), NEW ok \in BOOLEAN, NEW q \in UniqueSorted(p, ok)
  PROVE  Faithful(p, q)
  <1> DEFINE n == Count(p)
  <1>1. n \in Nat /\ DOMAIN p.data = 1 .. n /\ p.data = [i \in 1 .. n |-> p.data[i]]
    BY Fields DEF InUse
  <1>2. CASE q = p
    BY <1>2, RefittedFaithful
  <1>3. CASE \E d \in Compactions(p) : InUse(Compacted(p, d)) /\ Fitted(Compacted(p, d), q)
    <2> SUFFICES ASSUME q.size # p.size, Count(q) >= n
                 PROVE  \A i \in DOMAIN p.data : Value(q, i) = Value(p, i)
      BY DEF Faithful
    <2>1. PICK d \in Compactions(p) : InUse(Compacted(p, d)) /\ Fitted(Compacted(p, d), q)
      BY <1>3
    <2> DEFINE s == Compacted(p, d)
    <2>2. /\ s.data = d
          /\ \E m \in 1 .. n : \E f \in Choices(p, m) :
               m \in Nat /\ Len(d) = m /\ d = [j \in 1 .. m |-> p.data[f[j]]]
          /\ \/ Len(d) = 1 /\ Written(p, s)
             \/ Len(d) # 1 /\ Dropped(p, s, Len(d) - 1)
      BY CompactedEffect
    <2>3. InUse(s) /\ Fitted(s, q)
      BY <2>1
    <2> HIDE DEF s, n
    <2>4. s.size = p.size /\ ("SIGNED" \in s.flags <=> "SIGNED" \in p.flags)
      BY <2>2 DEF Written, Dropped, FactFlags
    <2>5. Refitted(s, q)
      BY <2>3, <2>4 DEF Fitted
    <2>6. DOMAIN q.data = DOMAIN s.data /\ Count(q) = Count(s)
          /\ \A i \in DOMAIN s.data : Value(q, i) = Value(s, i)
      BY <2>5, SameValues DEF Refitted
    <2>7. PICK m \in 1 .. n : \E f \in Choices(p, m) :
               m \in Nat /\ Len(d) = m /\ d = [j \in 1 .. m |-> p.data[f[j]]]
      BY <2>2
    <2>8. PICK f \in Choices(p, m) :
               m \in Nat /\ Len(d) = m /\ d = [j \in 1 .. m |-> p.data[f[j]]]
      BY <2>7
    <2>9. m = n
      BY <1>1, <2>2, <2>6, <2>8 DEF Count
    <2>10. f \in [1 .. n -> 1 .. n] /\ \A a, b \in 1 .. n : a < b => f[a] < f[b]
      BY <1>1, <2>8, <2>9 DEF Choices, RunStarts
    <2>11. \A i \in 1 .. n : f[i] = i
      BY <1>1, <2>10, IncreasingIdentity
    <2>12. DOMAIN s.data = 1 .. n /\ \A i \in 1 .. n : s.data[i] = p.data[i]
      BY <2>2, <2>8, <2>9, <2>11
    <2>13. \A i \in 1 .. n : Value(s, i) = Value(p, i)
      <3>1. IsSigned(s) = IsSigned(p)
        BY <2>4 DEF IsSigned
      <3> QED
        BY <2>4, <2>12, <3>1 DEF Value, GetSigned, Get
    <2> QED
      BY <1>1, <2>6, <2>12, <2>13
  <1> QED
    BY <1>2, <1>3, UniqueSortedEffect

\* A call that keeps the class keeps the property whatever else it does.
LEMMA SameClass ==
  ASSUME NEW p, NEW q, q.size = p.size
  PROVE  Faithful(p, q)
  BY DEF Faithful

\* A reservation keeps the class.
LEMMA ReserveSize ==
  ASSUME NEW p, InUse(p), NEW cap \in Nat, NEW ok \in BOOLEAN
  PROVE  Reserve(p, cap, ok).pool.size = p.size
  BY ReserveEffect DEF Regrown, SameElements

LEMMA PushManySize ==
  ASSUME NEW p, InUse(p), NEW a \in Word, NEW b \in Word, NEW ok \in BOOLEAN
  PROVE  PushMany(p, a, b, ok).pool.size = p.size
  <1> DEFINE room == Reserve(p, Count(p) + 2, ok)
             m    == room.pool
             f    == Push(m, a, TRUE).pool
  <1>1. Count(p) + 2 \in Nat /\ TRUE \in BOOLEAN
    BY Fields DEF InUse
  <1>2. InUse(m) /\ m.size = p.size
    BY <1>1, CountAskable, ReserveInUse, ReserveSize
  <1>3. PushMany(p, a, b, ok).pool = IF room.ret THEN Push(f, b, TRUE).pool ELSE m
    BY DEF PushMany
  <1> HIDE DEF room, m
  <1>4. InUse(f) /\ f.size = m.size
    BY <1>1, <1>2, PushInUse, PushKeeps
  <1> HIDE DEF f
  <1>5. Push(f, b, TRUE).pool.size = f.size
    BY <1>1, <1>4, PushKeeps
  <1> QED
    BY <1>2, <1>3, <1>4, <1>5

\* The adaptive pushes: a widening or none, then the push of v or none.
Widens(p, v, ok1, ok2, q) ==
  \E size \in Sizes : \E w \in {Result(p, TRUE), Widen(p, size, ok1)} :
    q = p \/ q = w.pool \/ q = Push(w.pool, v, ok2).pool

LEMMA PushAdaptiveShape ==
  ASSUME NEW p, InUse(p), NEW v \in Word, NEW ok1 \in BOOLEAN, NEW ok2 \in BOOLEAN, NEW r,
         r = PushAdaptive(p, v, ok1, ok2)
  PROVE  Widens(p, v, ok1, ok2, r.pool)
  <1> DEFINE c == Classify({v})
             w == IF v > MaxValue(p.size) THEN Widen(p, c, ok1) ELSE Result(p, TRUE)
  <1>1. c \in Sizes
    <2>1. UFits(K, {v})
      BY Conversions DEF UFits, Word, Pow
    <2>2. c \in Classes
      BY <2>1, Conversions, ClassifyFits
    <2> QED
      BY <2>2, ClassAssumption DEF Classes, Sizes
  <1>2. w = Result(p, TRUE) \/ w = Widen(p, c, ok1)
    OBVIOUS
  <1>3. r.pool = p \/ r.pool = w.pool \/ r.pool = Push(w.pool, v, ok2).pool
    BY CodedPool DEF PushAdaptive, Result
  <1> HIDE DEF c, w
  <1> QED
    BY <1>1, <1>2, <1>3 DEF Widens

LEMMA PushAdaptiveFaithful ==
  ASSUME NEW p, InUse(p), NEW v \in Word, NEW ok1 \in BOOLEAN, NEW ok2 \in BOOLEAN, NEW r,
         r = PushAdaptive(p, v, ok1, ok2)
  PROVE  Faithful(p, r.pool)
  <1>1. Widens(p, v, ok1, ok2, r.pool) /\ v \in Word
    BY PushAdaptiveShape
  <1> QED
    BY ZenonT(60), <1>1, WidenPushFaithful DEF Widens

LEMMA PushSignedAdaptiveShape ==
  ASSUME NEW p, InUse(p), NEW v \in Int64, NEW ok1 \in BOOLEAN, NEW ok2 \in BOOLEAN, NEW r,
         r = PushSignedAdaptive(p, v, ok1, ok2)
  PROVE  Widens(p, U64(v), ok1, ok2, r.pool)
  <1> DEFINE need == ClassifySigned({v})
             w == IF \/ InRange(p, v)
                     \/ Count(p) # 0 /\ Abs(need) <= Abs(p.size)
                  THEN Result(p, TRUE) ELSE Widen(p, need, ok1)
  <1>1. need \in Sizes
    <2>1. SFits(K, {v})
      BY Conversions DEF SFits, Int64
    <2>2. -need \in Classes /\ need \in Int
      BY <2>1, Conversions, ClassifySignedFits
    <2> HIDE DEF need
    <2> QED
      BY <2>2, ClassAssumption DEF Classes, Sizes
  <1>2. w = Result(p, TRUE) \/ w = Widen(p, need, ok1)
    OBVIOUS
  <1>3. r.pool = p \/ r.pool = w.pool \/ r.pool = Push(w.pool, U64(v), ok2).pool
    BY CodedPool DEF PushSignedAdaptive, Result
  <1> HIDE DEF need, w
  <1> QED
    BY <1>1, <1>2, <1>3 DEF Widens

LEMMA PushSignedAdaptiveFaithful ==
  ASSUME NEW p, InUse(p), NEW v \in Int64, NEW ok1 \in BOOLEAN, NEW ok2 \in BOOLEAN, NEW r,
         r = PushSignedAdaptive(p, v, ok1, ok2)
  PROVE  Faithful(p, r.pool)
  <1>1. Widens(p, U64(v), ok1, ok2, r.pool) /\ U64(v) \in Word
    BY PushSignedAdaptiveShape, Conversions DEF Int64
  <1> QED
    BY ZenonT(60), <1>1, WidenPushFaithful DEF Widens

\* The calls of each kind, from any pool in use.
LEMMA LifecycleFaithful ==
  ASSUME Inv, NEW ok \in BOOLEAN, Lifecycle(ok), Live, owner' # "none"
  PROVE  Faithful(pool, pool')
  <1>1. s2r_copy(ok)
    BY DEF Lifecycle, s2r_pool_init, s2r_from_array_auto, s2r_from_array_signed_auto, s2r_map_open,
           s2r_pool_free, s2r_map_close, Create, Live
  <1> DEFINE r == Copy(Released.heap, pool, ok)
  <1>2. Released.heap \in Int
    BY PoolFreeType, ZeroedType, Fields DEF Released, Inv, TypeOK
  <1>3. r.ret => r.pool.size = pool.size
    BY <1>2, LiveInUse, CopyEffect
  <1>4. (pool' = r.pool /\ r.ret) \/ pool' = pool
    BY <1>1 DEF s2r_copy, vars
  <1> HIDE DEF r
  <1> QED
    BY <1>3, <1>4, SameClass

LEMMA ResizesFaithful ==
  ASSUME Inv, NEW ok \in BOOLEAN, Resizes(ok)
  PROVE  Faithful(pool, pool')
  <1>1. ASSUME NEW cap \in CapArgs, s2r_reserve(cap, ok)  PROVE Faithful(pool, pool')
    BY <1>1, ArgsAssumption, LiveInUse, ReserveSize, SameClass DEF s2r_reserve, Become
  <1>2. CASE s2r_shrink_to_fit(ok)
    <2>1. InUse(pool) /\ pool' = ShrinkToFit(pool, ok).pool
      BY <1>2, LiveInUse DEF s2r_shrink_to_fit, Become
    <2>2. ShrinkToFit(pool, ok).pool.size = pool.size
      BY <2>1, ShrinkEffect DEF Regrown, SameElements
    <2> QED
      BY <2>1, <2>2, SameClass
  <1> QED
    BY <1>1, <1>2 DEF Resizes

LEMMA AppendsFaithful ==
  ASSUME Inv, NEW ok \in BOOLEAN, Appends(ok)
  PROVE  Faithful(pool, pool')
  <1>1. \A v \in Args : v \in Word /\ I64(v) \in Int64 /\ U64(I64(v)) \in Word
    BY ArgsAssumption, Conversions DEF Int64
  <1>2. \A v \in Word : InUse(pool) => Push(pool, v, ok).pool.size = pool.size
    BY PushKeeps
  <1>3. ASSUME NEW v \in Args, s2r_push(v, ok)  PROVE Faithful(pool, pool')
    BY <1>1, <1>2, <1>3, LiveInUse, SameClass DEF s2r_push, Become
  <1>4. ASSUME NEW v \in Args, s2r_push_checked(v, ok)  PROVE Faithful(pool, pool')
    <2>1. pool' = pool \/ pool' = Push(pool, v, ok).pool
      BY <1>4, CodedPool DEF s2r_push_checked, Become, PushChecked, Result
    <2> QED
      BY <1>1, <1>2, <1>4, <2>1, LiveInUse, SameClass DEF s2r_push_checked
  <1>5. ASSUME NEW v \in Args, s2r_push_signed_checked(v, ok)  PROVE Faithful(pool, pool')
    <2>1. pool' = pool \/ pool' = Push(pool, U64(I64(v)), ok).pool
      BY <1>5, CodedPool DEF s2r_push_signed_checked, Become, PushSignedChecked, Result
    <2> QED
      BY <1>1, <1>2, <1>5, <2>1, LiveInUse, SameClass DEF s2r_push_signed_checked
  <1>6. ASSUME NEW v \in Args, s2r_push_saturate(v, ok)  PROVE Faithful(pool, pool')
    <2>1. InUse(pool) /\ pool' = Push(pool, Saturated(pool, v), ok).pool /\ pool.size \in Sizes
      BY <1>6, LiveInUse DEF s2r_push_saturate, Become, PushSaturate
    <2>2. Saturated(pool, v) \in Word
      BY <1>1, <2>1, MaxValueRange DEF Saturated
    <2> QED
      BY <1>2, <2>1, <2>2, SameClass
  <1>7. ASSUME NEW a \in Args, NEW b \in Args, s2r_push_many(a, b, ok)
        PROVE  Faithful(pool, pool')
    BY <1>1, <1>7, LiveInUse, PushManySize, SameClass DEF s2r_push_many, Become
  <1>8. ASSUME NEW v \in Args, NEW ok2 \in BOOLEAN, s2r_push_adaptive(v, ok, ok2)
        PROVE  Faithful(pool, pool')
    BY <1>1, <1>8, LiveInUse, PushAdaptiveFaithful DEF s2r_push_adaptive, Become
  <1>9. ASSUME NEW v \in Args, NEW ok2 \in BOOLEAN, s2r_push_signed_adaptive(v, ok, ok2)
        PROVE  Faithful(pool, pool')
    BY <1>1, <1>9, LiveInUse, PushSignedAdaptiveFaithful DEF s2r_push_signed_adaptive, Become
  <1> QED
    BY <1>3, <1>4, <1>5, <1>6, <1>7, <1>8, <1>9 DEF Appends

LEMMA ClassChangesFaithful ==
  ASSUME Inv, NEW ok \in BOOLEAN, ClassChanges(ok)
  PROVE  Faithful(pool, pool')
  <1>1. ASSUME NEW size \in Sizes, s2r_promote(size, ok)  PROVE Faithful(pool, pool')
    BY <1>1, LiveInUse, PromoteEffect, RefittedFaithful DEF s2r_promote, Become
  <1>2. ASSUME NEW size \in Sizes, s2r_demote(size, ok)  PROVE Faithful(pool, pool')
    BY <1>2, LiveInUse, DemoteEffect, RefittedFaithful DEF s2r_demote, Become
  <1>3. CASE s2r_fit_class(ok)
    BY <1>3, LiveInUse, FitClassEffect, RefittedFaithful DEF s2r_fit_class, Become, Fitted
  <1>4. CASE s2r_fit_class_signedness(ok)
    BY <1>4, LiveInUse, FitClassSignednessEffect, RefittedFaithful
       DEF s2r_fit_class_signedness, Become, Fitted
  <1> QED
    BY <1>1, <1>2, <1>3, <1>4 DEF ClassChanges

LEMMA WritesFaithful ==
  ASSUME Inv, Writes
  PROVE  Faithful(pool, pool')
  <1>1. \A v \in Args : v \in Word /\ v \in Int /\ I64(v) \in Int
    BY ArgsAssumption, Conversions DEF Int64
  <1>2. ASSUME NEW i \in DOMAIN pool.data, NEW v \in Args, s2r_set(i, v)
        PROVE  Faithful(pool, pool')
    <2>1. InUse(pool) /\ pool' = Set(pool, i, v)
      BY <1>2, LiveInUse DEF s2r_set, Assignable, Become
    <2>2. Set(pool, i, v).size = pool.size
      BY <1>1, <2>1, SetEffect DEF Dropped
    <2> QED
      BY <2>1, <2>2, SameClass
  <1>3. ASSUME NEW i \in DOMAIN pool.data, NEW v \in Args, s2r_set_signed(i, v)
        PROVE  Faithful(pool, pool')
    <2>1. InUse(pool) /\ pool' = SetSigned(pool, i, I64(v))
      BY <1>3, LiveInUse DEF s2r_set_signed, Assignable, Become
    <2>2. SetSigned(pool, i, I64(v)).size = pool.size
      BY <1>1, <2>1, SetSignedEffect DEF Dropped
    <2> QED
      BY <2>1, <2>2, SameClass
  <1>4. CASE s2r_clear
    BY <1>4, LiveInUse, ClearEffect, SameClass DEF s2r_clear, Become, Dropped
  <1>5. ASSUME NEW s \in Args, s2r_add_scalar(s)  PROVE Faithful(pool, pool')
    BY <1>5, LiveInUse, AddScalarEffect, SameClass DEF s2r_add_scalar, Assignable, Become, Dropped
  <1>6. ASSUME NEW s \in Args, s2r_mul_scalar(s)  PROVE Faithful(pool, pool')
    BY <1>6, LiveInUse, MulScalarEffect, SameClass DEF s2r_mul_scalar, Assignable, Become, Dropped
  <1>7. ASSUME NEW f \in Transforms, s2r_transform(f)  PROVE Faithful(pool, pool')
    BY <1>7, LiveInUse, TransformEffect, SameClass DEF s2r_transform, Assignable, Become, Dropped
  <1> QED
    BY <1>2, <1>3, <1>4, <1>5, <1>6, <1>7 DEF Writes

LEMMA BareWritesFaithful ==
  ASSUME Inv, BareWrites
  PROVE  Faithful(pool, pool')
  <1>1. Live
    BY BareWrite DEF Unrecorded, Assignable
  <1>2. PICK f \in [Word -> Int] : Become(Rewrite(pool, f))
    BY BareWrite
  <1> QED
    <2>1. InUse(pool) /\ pool' = Rewrite(pool, f)
      BY <1>1, <1>2, LiveInUse DEF Become
    <2>2. Rewrite(pool, f).size = pool.size
      BY <2>1, RewriteEffect DEF Written
    <2> QED
      BY <2>1, <2>2, SameClass

LEMMA RemovalsFaithful ==
  ASSUME Inv, Removals
  PROVE  Faithful(pool, pool')
  <1>1. ASSUME NEW i \in DOMAIN pool.data, s2r_remove_swap(i)  PROVE Faithful(pool, pool')
    BY <1>1, LiveInUse, RemoveSwapEffect, SameClass DEF s2r_remove_swap, Become, Dropped, Written
  <1>2. ASSUME NEW ok \in BOOLEAN, s2r_unique_sorted(ok)  PROVE Faithful(pool, pool')
    BY <1>2, LiveInUse, UniqueSortedFaithful DEF s2r_unique_sorted, Become
  <1> QED
    BY <1>1, <1>2 DEF Removals

LEMMA FactCallsFaithful ==
  ASSUME Inv, FactCalls
  PROVE  Faithful(pool, pool')
  <1>1. CASE s2r_summarize
    <2>1. PICK q \in Summarize(pool) : pool' = q
      BY <1>1 DEF s2r_summarize, Become
    <2>2. InUse(pool)
      BY <1>1, LiveInUse DEF s2r_summarize
    <2>3. \A mn, mx, sm : Recorded(pool, mn, mx, sm).size = pool.size
      BY <2>2, RecordedEffect DEF Flagged, SameElements
    <2>4. q = pool \/ \E mn, mx, sm : q = Recorded(pool, mn, mx, sm)
      BY DEF Summarize
    <2> QED
      BY <2>1, <2>3, <2>4, SameClass
  <1>2. CASE s2r_summarize_empty
    <2>1. InUse(pool) /\ pool' = SummarizeEmpty(pool)
      BY <1>2, LiveInUse DEF s2r_summarize_empty, Become
    <2>2. Recorded(pool, 0, 0, 0).size = pool.size
      BY <2>1, RecordedEffect DEF Flagged, SameElements
    <2> QED
      BY <2>1, <2>2, SameClass DEF SummarizeEmpty
  <1>3. CASE s2r_mark_sorted
    BY <1>3, LiveInUse, MarkSortedEffect, SameClass
       DEF s2r_mark_sorted, Become, Flagged, SameElements
  <1>4. CASE s2r_sort
    BY <1>4, LiveInUse, SortEffect, SameClass DEF s2r_sort, Become
  <1> QED
    BY <1>1, <1>2, <1>3, <1>4 DEF FactCalls

\* Whatever is called, careful or not: a call that leaves the pool in another
\* class, without removing anything, leaves every element reading as the value
\* it was (s2r_promote, s2r_demote, s2r__reclass, the adaptive pushes,
\* s2r_unique_sorted).
THEOREM ValuesSurviveClassChange == Spec => ClassChangeKeepsValues
  <1> DEFINE Kept == (Live /\ Live' /\ pool'.size # pool.size
                      /\ Count(pool) > 0 /\ Count(pool') >= Count(pool))
                     => \A i \in DOMAIN pool.data : Value(pool', i) = Value(pool, i)
  <1>1. Inv /\ [Next]_vars => [Kept]_vars
    <2> SUFFICES ASSUME Inv, Next, Live, owner' # "none"  PROVE Faithful(pool, pool')
      BY DEF Faithful, Live
    <2> QED
      BY LifecycleFaithful, ResizesFaithful, AppendsFaithful, ClassChangesFaithful, WritesFaithful,
         BareWritesFaithful, RemovalsFaithful, FactCallsFaithful DEF Next
  <1> QED
    BY <1>1, Invariance, PTL DEF Spec, ClassChangeKeepsValues


-----------------------------------------------------------------------------
(* What a call does to an index held over the pool.                         *)

\* How many elements read as less than x.
Below(p, x) == Cardinality({i \in DOMAIN p.data : Value(p, i) < x})

\* Neither the epoch moved nor any count; or the epoch moved, and not round to
\* where it was.
Still(p, q)    == q.epoch = p.epoch /\ \A x : Below(q, x) = Below(p, x)
Advanced(p, q) == \E k \in 1 .. EpochMod - 1 : q.epoch = Bump(p.epoch, k)
Noticed(p, q)  == Still(p, q) \/ Advanced(p, q)

LEMMA StillSelf ==
  ASSUME NEW p
  PROVE  Still(p, p)
  BY DEF Still

LEMMA SameCounts ==
  ASSUME NEW p, NEW q, q.epoch = p.epoch, Values(q) = Values(p)
  PROVE  Still(p, q)
  <1>1. DOMAIN q.data = DOMAIN p.data /\ \A i \in DOMAIN p.data : Value(q, i) = Value(p, i)
    BY SameValues
  <1>2. ASSUME NEW x
        PROVE  {i \in DOMAIN q.data : Value(q, i) < x} = {i \in DOMAIN p.data : Value(p, i) < x}
    BY <1>1
  <1> QED
    BY <1>2 DEF Still, Below

LEMMA StillThen ==
  ASSUME NEW p, NEW m, NEW q, Still(p, m), Noticed(m, q)
  PROVE  Noticed(p, q)
  BY DEF Noticed, Still, Advanced

LEMMA DroppedNoticed ==
  ASSUME NEW p, NEW q, NEW k \in 1 .. EpochMod - 1, Dropped(p, q, k)
  PROVE  Noticed(p, q)
  BY DEF Dropped, Noticed, Advanced

LEMMA RegrownNoticed ==
  ASSUME NEW p, NEW q, q = p \/ Regrown(p, q)
  PROVE  Still(p, q)
  <1>1. CASE q = p
    BY <1>1, StillSelf
  <1>2. CASE Regrown(p, q)
    <2>1. SameElements(p, q) /\ q.epoch = p.epoch /\ q.flags = p.flags \ {"EXTERNAL"}
      BY <1>2 DEF Regrown, SameRecord
    <2>2. IsSigned(q) = IsSigned(p)
      BY <2>1 DEF IsSigned, SameElements
    <2> QED
      BY <2>1, <2>2, SameReading, SameCounts
  <1> QED
    BY <1>1, <1>2

LEMMA RefittedStill ==
  ASSUME NEW p, NEW q, q = p \/ Refitted(p, q)
  PROVE  Still(p, q)
  BY StillSelf, SameCounts DEF Refitted, SameRecord

\* Pushes: the facts are brought up to date, and the epoch moved, before anything
\* is stored.
LEMMA PushEpoch ==
  ASSUME NEW p, InUse(p), NEW v \in Word, NEW ok \in BOOLEAN, NEW q, q = Push(p, v, ok).pool
  PROVE  InUse(q) /\ (q = p \/ q.epoch = Bump(p.epoch, 1))
  <1>1. \/ q = p
        \/ q = PushFacts(p, v)
        \/ Pushed(p, v, q)
    BY PushEffect
  <1>2. PushFacts(p, v).epoch = Bump(p.epoch, 1)
    BY PushFactsFields
  <1>3. Pushed(p, v, q) => q.epoch = PushFacts(p, v).epoch
    BY DEF Pushed, SameRecord
  <1> QED
    BY <1>1, <1>2, <1>3, PushInUse

LEMMA PushNoticed ==
  ASSUME EpochMod > 2, NEW p, InUse(p), NEW v \in Word, NEW ok \in BOOLEAN, NEW q,
         q = p \/ q = Push(p, v, ok).pool
  PROVE  Noticed(p, q)
  <1>1. 1 \in 1 .. EpochMod - 1
    BY MemoryAssumption
  <1> QED
    BY <1>1, PushEpoch, StillSelf DEF Noticed, Advanced

LEMMA PushManyNoticed ==
  ASSUME EpochMod > 2, NEW p, InUse(p), NEW a \in Word, NEW b \in Word, NEW ok \in BOOLEAN
  PROVE  Noticed(p, PushMany(p, a, b, ok).pool)
  <1> DEFINE room == Reserve(p, Count(p) + 2, ok)
             m    == room.pool
             f    == Push(m, a, TRUE).pool
             g    == Push(f, b, TRUE).pool
  <1>1. Count(p) + 2 \in Nat /\ TRUE \in BOOLEAN
    BY Fields DEF InUse
  <1>2. InUse(m) /\ Still(p, m)
    BY <1>1, CountAskable, ReserveInUse, ReserveEffect, RegrownNoticed
  <1>3. PushMany(p, a, b, ok).pool = IF room.ret THEN g ELSE m
    BY DEF PushMany
  <1> HIDE DEF room, m
  <1>4. InUse(f) /\ (f = m \/ f.epoch = Bump(m.epoch, 1))
    BY <1>1, <1>2, PushEpoch
  <1> HIDE DEF f
  <1>5. g = f \/ g.epoch = Bump(f.epoch, 1)
    BY <1>1, <1>4, PushEpoch
  <1> HIDE DEF g
  <1>6. Bump(Bump(m.epoch, 1), 1) = Bump(m.epoch, 2)
    <2>1. m.epoch \in Int /\ 1 \in Nat /\ 1 + 1 = 2
      BY <1>2, Fields DEF InUse
    <2> QED
      BY <2>1, BumpTwice
  <1>7. g = m \/ g.epoch = Bump(m.epoch, 1) \/ g.epoch = Bump(m.epoch, 2)
    BY <1>4, <1>5, <1>6
  <1>8. 1 \in 1 .. EpochMod - 1 /\ 2 \in 1 .. EpochMod - 1
    BY MemoryAssumption
  <1>9. Noticed(m, g) /\ Noticed(m, m)
    BY <1>7, <1>8, StillSelf DEF Noticed, Advanced
  <1> QED
    BY <1>2, <1>3, <1>9, StillThen

LEMMA WidenStill ==
  ASSUME NEW p, InUse(p), NEW size \in Sizes, NEW ok \in BOOLEAN, NEW w, w = Widen(p, size, ok)
  PROVE  Still(p, w.pool)
  <1>1. CASE w = Promote(p, size, ok)
    BY <1>1, PromoteEffect, RefittedStill
  <1>2. CASE Count(p) = 0 /\ SameRecord(p, w.pool) /\ w.pool.data = p.data
    <2>1. DOMAIN p.data = {} /\ DOMAIN w.pool.data = {}
      BY <1>2, Fields DEF InUse
    <2>2. Values(w.pool) = Values(p)
      BY <2>1 DEF Values
    <2> QED
      BY <1>2, <2>2, SameCounts DEF SameRecord
  <1> QED
    BY <1>1, <1>2, WidenEffect

LEMMA WidensNoticed ==
  ASSUME EpochMod > 2, NEW p, InUse(p), NEW v \in Word, NEW ok1 \in BOOLEAN, NEW ok2 \in BOOLEAN,
         NEW q, Widens(p, v, ok1, ok2, q)
  PROVE  Noticed(p, q)
  <1>1. PICK size \in Sizes : \E w \in {Result(p, TRUE), Widen(p, size, ok1)} :
               q = p \/ q = w.pool \/ q = Push(w.pool, v, ok2).pool
    BY DEF Widens
  <1>2. PICK w \in {Result(p, TRUE), Widen(p, size, ok1)} :
               q = p \/ q = w.pool \/ q = Push(w.pool, v, ok2).pool
    BY <1>1
  <1> DEFINE m == w.pool
  <1>3. InUse(m) /\ Still(p, m)
    BY WidenInUse, WidenStill, StillSelf DEF Result
  <1>4. q = p \/ q = m \/ q = Push(m, v, ok2).pool
    BY <1>2
  <1> HIDE DEF m
  <1>5. q = p \/ Noticed(m, q)
    BY <1>3, <1>4, PushNoticed
  <1> QED
    BY <1>3, <1>5, StillThen, StillSelf DEF Noticed

\* Sorting counts as before.
LEMMA SortNoticed ==
  ASSUME NEW p, InUse(p), NEW q \in Sort(p)
  PROVE  Still(p, q)
  <1> DEFINE n == Count(p)
  <1>1. n \in Nat /\ DOMAIN p.data = 1 .. n
    BY Fields DEF InUse
  <1>2. CASE q = p
    BY <1>2, StillSelf
  <1>3. CASE /\ SameRecord(p, q) /\ q.size = p.size /\ q.flags = p.flags \cup {"SORTED"}
             /\ \E f \in Rearrangements(n) : q.data = [i \in 1 .. n |-> p.data[f[i]]]
    <2>1. PICK f \in Rearrangements(n) : q.data = [i \in 1 .. n |-> p.data[f[i]]]
      BY <1>3
    <2>2. f \in [1 .. n -> 1 .. n]
      BY DEF Rearrangements
    <2>3. IsSigned(q) = IsSigned(p) /\ q.epoch = p.epoch
      BY <1>3 DEF IsSigned, SameRecord
    <2>4. DOMAIN q.data = 1 .. n /\ \A i \in 1 .. n : Value(q, i) = Value(p, f[i])
      BY <1>3, <2>1, <2>3 DEF Value, Get, GetSigned
    <2>5. ASSUME NEW x  PROVE Below(q, x) = Below(p, x)
      <3> DEFINE S == {i \in 1 .. n : Value(p, i) < x}
      <3>1. {i \in DOMAIN q.data : Value(q, i) < x} = {i \in 1 .. n : f[i] \in S}
        BY <2>2, <2>4
      <3>2. Below(q, x) = Cardinality({i \in 1 .. n : f[i] \in S})
        BY <3>1 DEF Below
      <3>3. Below(p, x) = Cardinality(S) /\ S \in SUBSET (1 .. n)
        BY <1>1 DEF Below
      <3> HIDE DEF S
      <3> QED
        BY <1>1, <3>2, <3>3, PermutedCount
    <2> QED
      BY <2>3, <2>5 DEF Still
  <1> QED
    BY <1>2, <1>3, SortEffect

LEMMA MarkSortedNoticed ==
  ASSUME NEW p, InUse(p)
  PROVE  Still(p, MarkSorted(p))
  <1> DEFINE q == MarkSorted(p)
  <1>1. q = p \/ (Flagged(p, q, "SORTED") /\ SameRecord(p, q))
    BY MarkSortedEffect
  <1> HIDE DEF q
  <1>2. ASSUME Flagged(p, q, "SORTED"), SameRecord(p, q)
        PROVE  Still(p, q)
    <2>1. q.data = p.data /\ q.size = p.size /\ q.flags = p.flags \cup {"SORTED"} /\ q.epoch = p.epoch
      BY <1>2 DEF Flagged, SameRecord, SameElements
    <2>2. IsSigned(q) = IsSigned(p)
      BY <2>1 DEF IsSigned
    <2>3. SameElements(p, q)
      BY <2>1 DEF SameElements
    <2>4. Values(q) = Values(p)
      BY <2>2, <2>3, SameReading
    <2>5. q.epoch = p.epoch
      BY <2>1
    <2> QED
      BY <2>4, <2>5, SameCounts
  <1>3. Still(p, q)
    BY <1>1, <1>2, StillSelf
  <1> QED
    BY <1>3 DEF q

\* Removing an element that is not the last writes another in its place.
LEMMA RemovalNoticed ==
  ASSUME EpochMod > 2, NEW p, InUse(p), NEW i \in DOMAIN p.data, i # Count(p)
  PROVE  Noticed(p, RemoveSwap(p, i))
  <1> DEFINE q == RemoveSwap(p, i)
  <1>1. \E k \in 1 .. 2 : Dropped(p, q, k)
    BY RemoveSwapEffect
  <1>2. 1 .. 2 \subseteq 1 .. EpochMod - 1
    BY MemoryAssumption
  <1> HIDE DEF q
  <1> QED
    BY <1>1, <1>2, DroppedNoticed DEF q

\* Cutting duplicates out writes every kept element but the first.
LEMMA UniqueNoticed ==
  ASSUME NEW p, InUse(p), Count(p) < EpochMod, NEW ok \in BOOLEAN, NEW q \in UniqueSorted(p, ok),
         Count(p) > 1 => RunStarts(p) # {1}
  PROVE  Noticed(p, q)
  <1>1. CASE q = p
    BY <1>1, StillSelf DEF Noticed
  <1>2. CASE /\ Count(p) > 1
             /\ \E d \in Compactions(p) : InUse(Compacted(p, d)) /\ Fitted(Compacted(p, d), q)
    <2>1. PICK d \in Compactions(p) : Fitted(Compacted(p, d), q)
      BY <1>2
    <2> DEFINE c == Compacted(p, d)
    <2>2. PICK m \in 1 .. Count(p) : \E f \in Choices(p, m) : m \in Nat /\ Len(d) = m
      BY CompactedEffect
    <2>3. PICK f \in Choices(p, m) : m \in Nat /\ Len(d) = m
      BY <2>2
    <2>4. Len(d) # 1
      <3>1. SUFFICES ASSUME m = 1  PROVE RunStarts(p) = {1}
        BY <1>2, <2>3
      <3>2. RunStarts(p) = {f[a] : a \in 1 .. m}
        BY DEF Choices
      <3>3. RunStarts(p) = {f[1]}
        BY <3>1, <3>2
      <3>4. 1 \in RunStarts(p)
        <4>1. 1 \in DOMAIN p.data
          BY <1>2, Fields DEF InUse
        <4> QED
          BY <4>1 DEF RunStarts
      <3> QED
        BY <3>3, <3>4
    <2>5. Dropped(p, c, m - 1)
      BY <2>3, <2>4, CompactedEffect
    <2>6. m - 1 \in 1 .. EpochMod - 1
      BY <2>3, <2>4, Fields, MemoryAssumption DEF InUse
    <2> HIDE DEF c
    <2>7. Noticed(p, c) /\ Advanced(p, c)
      BY <2>5, <2>6 DEF Dropped, Noticed, Advanced
    <2>8. q.epoch = c.epoch
      BY <2>1 DEF Fitted, Refitted, SameRecord, c
    <2> QED
      BY <2>7, <2>8 DEF Noticed, Advanced
  <1> QED
    BY <1>1, <1>2, UniqueSortedEffect

-----------------------------------------------------------------------------
(* The calls made while an index is held.                                   *)

LEMMA AppendsNoticed ==
  ASSUME EpochMod > 2, Inv, NEW ok \in BOOLEAN, Appends(ok)
  PROVE  Noticed(pool, pool')
  <1>0. Live
    BY DEF Appends, s2r_push, s2r_push_checked, s2r_push_signed_checked, s2r_push_saturate,
         s2r_push_many, s2r_push_adaptive, s2r_push_signed_adaptive
  <1>1. InUse(pool) /\ pool.size \in Sizes
    BY <1>0, LiveInUse
  <1>2. ASSUME NEW v \in Args
        PROVE  v \in Word /\ I64(v) \in Int64 /\ U64(I64(v)) \in Word
    <2>1. v \in Word /\ I64(v) \in Int64
      BY ArgsAssumption, Conversions
    <2> QED
      BY <2>1, Conversions DEF Int64
  <1>3. ASSUME NEW v \in Args, s2r_push(v, ok)  PROVE Noticed(pool, pool')
    BY <1>1, <1>2, <1>3, PushNoticed DEF s2r_push, Become
  <1>4. ASSUME NEW v \in Args, s2r_push_checked(v, ok)  PROVE Noticed(pool, pool')
    <2>1. pool' = pool \/ pool' = Push(pool, v, ok).pool
      BY <1>4, CodedPool DEF s2r_push_checked, Become, PushChecked, Result
    <2> QED
      BY <1>1, <1>2, <2>1, PushNoticed
  <1>5. ASSUME NEW v \in Args, s2r_push_signed_checked(v, ok)  PROVE Noticed(pool, pool')
    <2>1. pool' = pool \/ pool' = Push(pool, U64(I64(v)), ok).pool
      BY <1>5, CodedPool DEF s2r_push_signed_checked, Become, PushSignedChecked, Result
    <2> QED
      BY <1>1, <1>2, <2>1, PushNoticed
  <1>6. ASSUME NEW v \in Args, s2r_push_saturate(v, ok)  PROVE Noticed(pool, pool')
    <2>1. pool' = Push(pool, Saturated(pool, v), ok).pool
      BY <1>6 DEF s2r_push_saturate, PushSaturate, Become
    <2>2. Saturated(pool, v) \in Word
      BY <1>1, <1>2, MaxValueRange DEF Saturated
    <2> QED
      BY <1>1, <2>1, <2>2, PushNoticed
  <1>7. ASSUME NEW a \in Args, NEW b \in Args, s2r_push_many(a, b, ok)  PROVE Noticed(pool, pool')
    BY <1>1, <1>2, <1>7, PushManyNoticed DEF s2r_push_many, Become
  <1>8. ASSUME NEW v \in Args, NEW ok2 \in BOOLEAN, s2r_push_adaptive(v, ok, ok2)
        PROVE  Noticed(pool, pool')
    <2> DEFINE r == PushAdaptive(pool, v, ok, ok2)
    <2>1. Widens(pool, v, ok, ok2, r.pool)
      BY <1>1, <1>2, PushAdaptiveShape
    <2>2. pool' = r.pool
      BY <1>8 DEF s2r_push_adaptive, Become
    <2> HIDE DEF r
    <2> QED
      BY <1>1, <1>2, <2>1, <2>2, WidensNoticed
  <1>9. ASSUME NEW v \in Args, NEW ok2 \in BOOLEAN, s2r_push_signed_adaptive(v, ok, ok2)
        PROVE  Noticed(pool, pool')
    <2> DEFINE r == PushSignedAdaptive(pool, I64(v), ok, ok2)
    <2>1. Widens(pool, U64(I64(v)), ok, ok2, r.pool)
      BY <1>1, <1>2, PushSignedAdaptiveShape
    <2>2. pool' = r.pool
      BY <1>9 DEF s2r_push_signed_adaptive, Become
    <2> HIDE DEF r
    <2> QED
      BY <1>1, <1>2, <2>1, <2>2, WidensNoticed
  <1> QED
    BY <1>3, <1>4, <1>5, <1>6, <1>7, <1>8, <1>9 DEF Appends

LEMMA ResizesNoticed ==
  ASSUME Inv, NEW ok \in BOOLEAN, Resizes(ok)
  PROVE  Noticed(pool, pool')
  <1>1. Live /\ InUse(pool)
    BY LiveInUse DEF Resizes, s2r_reserve, s2r_shrink_to_fit
  <1>2. pool' = pool \/ Regrown(pool, pool')
    BY <1>1, ReserveEffect, ShrinkEffect, ArgsAssumption
       DEF Resizes, s2r_reserve, s2r_shrink_to_fit, Become
  <1> QED
    BY <1>2, RegrownNoticed DEF Noticed

LEMMA ClassChangesNoticed ==
  ASSUME Inv, NEW ok \in BOOLEAN, ClassChanges(ok)
  PROVE  Noticed(pool, pool')
  <1>1. Live /\ InUse(pool)
    BY LiveInUse DEF ClassChanges, s2r_promote, s2r_demote, s2r_fit_class, s2r_fit_class_signedness
  <1>2. pool' = pool \/ Refitted(pool, pool')
    BY <1>1, PromoteEffect, DemoteEffect, FitClassEffect, FitClassSignednessEffect
       DEF ClassChanges, s2r_promote, s2r_demote, s2r_fit_class, s2r_fit_class_signedness,
           Become, Fitted
  <1> QED
    BY <1>2, RefittedStill DEF Noticed

LEMMA WritesNoticed ==
  ASSUME EpochMod > 2, Inv, Count(pool) < EpochMod, Writes
  PROVE  Noticed(pool, pool')
  <1>1. InUse(pool)
    BY LiveInUse DEF Writes, s2r_set, s2r_set_signed, s2r_clear, s2r_add_scalar, s2r_mul_scalar,
         s2r_transform, Assignable
  <1>2. /\ Count(pool) \in Nat /\ 1 \in 1 .. EpochMod - 1 /\ 1 .. 2 \subseteq 1 .. EpochMod - 1
        /\ Count(pool) # 0 => Count(pool) \in 1 .. EpochMod - 1
    BY <1>1, Fields, MemoryAssumption DEF InUse
  <1>3. \/ pool' = pool
        \/ \E k \in 1 .. EpochMod - 1 : Dropped(pool, pool', k)
    <2>1. ASSUME NEW i \in DOMAIN pool.data, NEW v \in Args, s2r_set(i, v) \/ s2r_set_signed(i, v)
          PROVE  \E k \in 1 .. EpochMod - 1 : Dropped(pool, pool', k)
      <3>1. v \in Int /\ I64(v) \in Int
        BY ArgsAssumption, Conversions DEF Int64
      <3>2. Dropped(pool, Set(pool, i, v), 1)
            /\ \E k \in 1 .. 2 : Dropped(pool, SetSigned(pool, i, I64(v)), k)
        BY <1>1, <3>1, SetEffect, SetSignedEffect
      <3> QED
        BY <1>2, <2>1, <3>2 DEF s2r_set, s2r_set_signed, Become
    <2>2. ASSUME s2r_clear  PROVE \E k \in 1 .. EpochMod - 1 : Dropped(pool, pool', k)
      BY <1>1, <1>2, <2>2, ClearEffect DEF s2r_clear, Become
    <2>3. ASSUME NEW s \in Args, s2r_add_scalar(s) \/ s2r_mul_scalar(s)
          PROVE  pool' = pool \/ \E k \in 1 .. EpochMod - 1 : Dropped(pool, pool', k)
      BY <1>1, <1>2, <2>3, AddScalarEffect, MulScalarEffect DEF s2r_add_scalar, s2r_mul_scalar, Become
    <2>4. ASSUME NEW f \in Transforms, s2r_transform(f)
          PROVE  pool' = pool \/ \E k \in 1 .. EpochMod - 1 : Dropped(pool, pool', k)
      BY <1>1, <1>2, <2>4, TransformEffect DEF s2r_transform, Become
    <2> QED
      BY <2>1, <2>2, <2>3, <2>4 DEF Writes
  <1> QED
    BY <1>3, DroppedNoticed, StillSelf DEF Noticed

\* Whatever a careful caller does while it holds an index.
LEMMA CallNoticed ==
  ASSUME Careful, EpochMod > 2, Inv, Count(pool) < EpochMod, Held, Call
  PROVE  Noticed(pool, pool')
  <1>1. ASSUME NEW i \in DOMAIN pool.data, i # Count(pool), s2r_remove_swap(i)
        PROVE  Noticed(pool, pool')
    <2>1. InUse(pool) /\ pool' = RemoveSwap(pool, i)
      BY <1>1, LiveInUse DEF s2r_remove_swap, Become
    <2> QED
      BY <1>1, <2>1, RemovalNoticed
  <1>2. ASSUME NEW ok \in BOOLEAN, Count(pool) > 1 => RunStarts(pool) # {1}, s2r_unique_sorted(ok)
        PROVE  Noticed(pool, pool')
    <2>1. InUse(pool) /\ pool' \in UniqueSorted(pool, ok)
      BY <1>2, LiveInUse DEF s2r_unique_sorted, Become
    <2> QED
      BY <1>2, <2>1, UniqueNoticed
  <1>3. ASSUME s2r_sort \/ s2r_mark_sorted  PROVE Noticed(pool, pool')
    <2>1. InUse(pool) /\ (pool' \in Sort(pool) \/ pool' = MarkSorted(pool))
      BY <1>3, LiveInUse DEF s2r_sort, s2r_mark_sorted, Become
    <2> QED
      BY <2>1, SortNoticed, MarkSortedNoticed DEF Noticed
  <1> QED
    BY <1>1, <1>2, <1>3, AppendsNoticed, ResizesNoticed, ClassChangesNoticed, WritesNoticed DEF Call

-----------------------------------------------------------------------------
(* The epoch on its circle.                                                 *)

\* Fewer steps than there are epochs lead somewhere else.
LEMMA BumpMoves ==
  ASSUME NEW e \in 0 .. EpochMod - 1, NEW k \in 1 .. EpochMod - 1
  PROVE  Bump(e, k) # e
  <1> DEFINE n == EpochMod
  <1>1. n \in Nat \ {0} /\ e \in 0 .. n - 1 /\ k \in 1 .. n - 1
    BY MemoryAssumption
  <1>2. Bump(e, k) = (e + k) % n
    BY DEF Bump
  <1> HIDE DEF n
  <1>3. CASE e + k < n
    <2>1. e + k = 0 * n + (e + k) /\ e + k \in 0 .. n - 1
      BY <1>1, <1>3
    <2>2. (e + k) % n = e + k
      BY <1>1, <2>1, ModUnique
    <2> QED
      BY <1>1, <1>2, <2>2
  <1>4. CASE e + k >= n
    <2>1. e + k = 1 * n + (e + k - n) /\ e + k - n \in 0 .. n - 1 /\ e + k \in Int
      BY <1>1, <1>4
    <2>2. (e + k) % n = e + k - n
      BY <1>1, <2>1, ModUnique
    <2> QED
      BY <1>1, <1>2, <2>2
  <1> QED
    BY <1>1, <1>3, <1>4

\* The age counts the way from one epoch to the next.
LEMMA AgeStep ==
  ASSUME NEW e \in Int, NEW a \in Nat, NEW x \in 0 .. EpochMod - 1, NEW y \in 0 .. EpochMod - 1,
         Bump(e, a) = x
  PROVE  LET d == (y - x) % EpochMod IN
         /\ d \in Nat /\ Bump(e, a + d) = y
         /\ d = 0 <=> y = x
  <1> DEFINE n == EpochMod
             d == (y - x) % n
             j == (e + a) \div n
  <1>1. n \in Nat \ {0} /\ x \in 0 .. n - 1 /\ y \in 0 .. n - 1 /\ e + a \in Int
    BY MemoryAssumption
  <1>2. Bump(e, a) = (e + a) % n /\ \A b : Bump(e, b) = (e + b) % n
    BY DEF Bump
  <1> HIDE DEF n
  <1>3. j \in Int /\ e + a = j * n + x
    BY <1>1, <1>2, DivMod
  <1> HIDE DEF j
  <1>4. CASE x <= y
    <2>1. y - x = 0 * n + (y - x) /\ y - x \in 0 .. n - 1 /\ y - x \in Int
      BY <1>1, <1>4
    <2>2. d = y - x
      BY <1>1, <2>1, ModUnique
    <2>3. e + (a + d) = j * n + y /\ e + (a + d) \in Int
      <3> DEFINE m == j * n
      <3>1. m \in Int /\ e + a = m + x
        BY <1>1, <1>3
      <3> HIDE DEF m, d
      <3>2. e + (a + d) = m + y /\ e + (a + d) \in Int
        BY <1>1, <2>2, <3>1
      <3> QED
        BY <3>2 DEF m
    <2> HIDE DEF d
    <2>4. (e + (a + d)) % n = y
      BY <1>1, <1>3, <2>3, ModUnique
    <2>5. d \in Nat /\ (d = 0 <=> y = x)
      BY <1>1, <1>4, <2>2
    <2> QED
      BY <1>2, <2>4, <2>5 DEF d, n
  <1>5. CASE y < x
    <2>1. y - x = (-1) * n + (y - x + n) /\ y - x + n \in 0 .. n - 1 /\ y - x \in Int /\ -1 \in Int
      BY <1>1, <1>5
    <2>2. d = y - x + n
      BY <1>1, <2>1, ModUnique
    <2>3. e + (a + d) = (j + 1) * n + y /\ e + (a + d) \in Int /\ j + 1 \in Int
      <3> DEFINE m == j * n
      <3>1. m \in Int /\ e + a = m + x /\ (j + 1) * n = m + n
        BY <1>1, <1>3
      <3> HIDE DEF m, d
      <3>2. e + (a + d) = (m + n) + y /\ e + (a + d) \in Int
        BY <1>1, <2>2, <3>1
      <3> QED
        BY <1>3, <3>1, <3>2
    <2> HIDE DEF d
    <2>4. (e + (a + d)) % n = y
      BY <1>1, <2>3, ModUnique
    <2>5. d \in Nat /\ d # 0
      BY <1>1, <1>5, <2>2
    <2> QED
      BY <1>2, <1>5, <2>4, <2>5 DEF d, n
  <1> QED
    BY <1>1, <1>4, <1>5

-----------------------------------------------------------------------------
(* The table.                                                               *)

Base(size) == IF size < 0 THEN -Half[-size] ELSE 0

\* The elements of a pool lie between its base and the top of its bins.
LEMMA WithinBins ==
  ASSUME NEW p, Honest(p), NEW i \in DOMAIN p.data
  PROVE  /\ Value(p, i) \in Int /\ Base(p.size) \in Int /\ Pow(Abs(p.size)) \in Nat
         /\ Base(p.size) <= Value(p, i) /\ Value(p, i) < Base(p.size) + Pow(Abs(p.size))
  <1>1. InUse(p) /\ Agrees(p) /\ p.size \in Sizes /\ p.size \in Int
    BY DEF Honest, InUse, Sound, Sizes, PoolType
  <1>2. Abs(p.size) \in Classes /\ Pow(Abs(p.size)) \in Nat /\ Half[Abs(p.size)] \in Nat
        /\ Pow(Abs(p.size)) = 2 * Half[Abs(p.size)]
    BY <1>1, SizeFacts, PowFacts DEF Pow
  <1>3. Value(p, i) \in Int /\ p.data[i] \in Nat /\ p.data[i] < Pow(Abs(p.size))
    BY <1>1, Reading, ValueRange
  <1>4. CASE p.size < 0
    <2>1. Base(p.size) = -Half[Abs(p.size)]
      BY <1>4 DEF Base, Abs
    <2>2. -Half[Abs(p.size)] <= Value(p, i) /\ Value(p, i) < Half[Abs(p.size)]
      BY <1>1, <1>4, Reading
    <2> QED
      BY <1>2, <1>3, <2>1, <2>2
  <1>5. CASE ~ p.size < 0
    <2>1. Base(p.size) = 0 /\ "SIGNED" \notin p.flags
      BY <1>1, <1>5 DEF Base, Agrees
    <2>2. Value(p, i) = p.data[i]
      BY <1>1, <1>5, <2>1, Reading
    <2> QED
      BY <1>2, <1>3, <2>1, <2>2
  <1> QED
    BY <1>4, <1>5

\* Elements from a to b: those below b + 1 that are not below a.
LEMMA CountDifference ==
  ASSUME NEW p, InUse(p), NEW a \in Int, NEW b \in Int, a <= b + 1
  PROVE  Below(p, b + 1) - Below(p, a) = CountIn(p, a, b)
  <1> DEFINE D == DOMAIN p.data
             S == {i \in D : Value(p, i) < b + 1}
             T == {i \in D : Value(p, i) < a}
  <1>1. IsFiniteSet(D)
    BY Fields, FS_Interval DEF InUse
  <1>2. \A i \in D : Value(p, i) \in Int
    BY ValueRange
  <1>3. IsFiniteSet(S) /\ IsFiniteSet(T)
    <2>1. S \in SUBSET D /\ T \in SUBSET D
      OBVIOUS
    <2> HIDE DEF S, T, D
    <2> QED
      BY <1>1, <2>1, FS_Subset
  <1>4. S \cap T = T /\ S \ T = {i \in D : a <= Value(p, i) /\ Value(p, i) <= b}
    BY <1>2
  <1>5. Below(p, b + 1) = Cardinality(S) /\ Below(p, a) = Cardinality(T)
        /\ CountIn(p, a, b) = Cardinality(S \ T)
    BY <1>4 DEF Below, CountIn
  <1> HIDE DEF S, T
  <1>6. Cardinality(S) \in Nat /\ Cardinality(T) \in Nat
    BY <1>3, FS_CardinalityType
  <1>7. Cardinality(S \ T) = Cardinality(S) - Cardinality(S \cap T)
    BY <1>3, FS_Difference
  <1> QED
    BY <1>4, <1>5, <1>6, <1>7

\* The table of an index that is true of p counts, for each bin, the elements below it.
Tabled(ix, p) == \A v \in 0 .. ix.nbins : ix.cum[v] = Below(p, ix.base + v)
Shaped(ix) == ix.size \in Sizes /\ ix.base = Base(ix.size) /\ ix.nbins = Pow(Abs(ix.size))

LEMMA BuiltTabled ==
  ASSUME NEW p, Honest(p)
  PROVE  /\ Shaped(Built(p)) /\ Tabled(Built(p), p)
         /\ Built(p).epoch = p.epoch /\ Built(p).size = p.size /\ Built(p) # NoIndex
  <1> DEFINE b == IF IsSigned(p) THEN MinSigned(p.size) ELSE 0
             n == Pow(Abs(p.size))
             ix == Built(p)
  <1>1. InUse(p) /\ Agrees(p) /\ p.size \in Sizes /\ p.size # 0 /\ p.size \in Int
    BY DEF Honest, InUse, Sound, Sizes, PoolType
  <1>2. ix.epoch = p.epoch /\ ix.size = p.size /\ ix.base = b /\ ix.nbins = n /\ ix.cum = Table(p, b, n)
    BY DEF Built
  <1>3. IsSigned(p) <=> p.size < 0
    BY <1>1 DEF IsSigned, Agrees
  <1>4. b = Base(p.size)
    BY <1>1, <1>3 DEF MinSigned, Base
  <1>5. b \in Int
    BY <1>1, <1>4, SizeFacts, PowFacts DEF Base, Abs
  <1>6. ASSUME NEW i \in DOMAIN p.data
        PROVE  Bin(p, b, i) = Value(p, i) - b /\ Value(p, i) \in Int
    <2>1. Value(p, i) \in Int
      BY <1>1, ValueRange
    <2>2. CASE IsSigned(p)
      <3>1. Value(p, i) = AsSigned(Abs(p.size), p.data[i])
        BY <1>1, <1>3, <2>2, Reading
      <3> QED
        BY <2>1, <2>2, <3>1 DEF Bin
    <2>3. CASE ~IsSigned(p)
      <3>1. Value(p, i) = p.data[i]
        BY <2>3 DEF Value, Get
      <3> QED
        BY <2>1, <2>3, <3>1 DEF Bin
    <2> QED
      BY <2>1, <2>2, <2>3
  <1> HIDE DEF b, n
  <1>7. ASSUME NEW v \in 0 .. n
        PROVE  Table(p, b, n)[v] = Below(p, b + v)
    <2>1. {i \in DOMAIN p.data : Bin(p, b, i) < v} = {i \in DOMAIN p.data : Value(p, i) < b + v}
      BY <1>5, <1>6
    <2>2. Table(p, b, n)[v] = Cardinality({i \in DOMAIN p.data : Bin(p, b, i) < v})
      BY DEF Table
    <2> QED
      BY <2>1, <2>2 DEF Below
  <1> HIDE DEF ix
  <1>8. Shaped(ix)
    BY <1>1, <1>2, <1>4 DEF Shaped, n
  <1>9. Tabled(ix, p)
    BY <1>2, <1>7 DEF Tabled
  <1>10. ix # NoIndex
    <2>1. NoIndex.size = 0
      BY DEF NoIndex
    <2> QED
      BY <1>1, <1>2, <2>1
  <1> QED
    BY <1>2, <1>8, <1>9, <1>10 DEF ix

-----------------------------------------------------------------------------
(* The invariant: an index held over a live pool was true of it `age` bumps  *)
(* ago, and with none since still is.                                      *)

Current ==
  /\ Shaped(index) /\ index.epoch \in 0 .. EpochMod - 1
  /\ Bump(index.epoch, age) = pool.epoch
  /\ age = 0 => Tabled(index, pool)
IndexInv == age \in Nat /\ (Held => Live /\ Current)

LEMMA StillTabled ==
  ASSUME NEW ix, NEW p, NEW q, Still(p, q), Tabled(ix, p)
  PROVE  Tabled(ix, q)
  BY DEF Still, Tabled

LEMMA BumpNone ==
  ASSUME NEW e \in 0 .. EpochMod - 1
  PROVE  Bump(e, 0) = e
  <1> DEFINE n == EpochMod
  <1>1. n \in Nat \ {0} /\ e \in 0 .. n - 1 /\ e \in Int /\ e + 0 = e
    BY MemoryAssumption
  <1>2. Bump(e, 0) = (e + 0) % n
    BY DEF Bump
  <1> HIDE DEF n
  <1>3. e = 0 * n + e
    BY <1>1
  <1>4. e % n = e
    BY <1>1, <1>3, ModUnique
  <1> QED
    BY <1>1, <1>2, <1>4

\* A call leaves the invariant of a held index.
LEMMA HeldStep ==
  ASSUME Careful, EpochMod > 2, Inv, Inv', Count(pool) < EpochMod, IndexInv, Held, PoolStep
  PROVE  IndexInv'
  <1>1. Live /\ Current /\ age \in Nat
    BY DEF IndexInv
  <1>2. Call /\ index' = index /\ age' = age + ((pool'.epoch - pool.epoch) % EpochMod)
    BY DEF PoolStep
  <1>3. Live'
    BY <1>1, <1>2 DEF Call, Live, Resizes, s2r_reserve, s2r_shrink_to_fit, Appends, s2r_push, s2r_push_many,
       s2r_push_checked, s2r_push_signed_checked, s2r_push_saturate, s2r_push_adaptive,
       s2r_push_signed_adaptive, ClassChanges, s2r_promote, s2r_demote, s2r_fit_class,
       s2r_fit_class_signedness, Writes, s2r_set, s2r_set_signed, s2r_clear, s2r_add_scalar,
       s2r_mul_scalar, s2r_transform, s2r_remove_swap, s2r_unique_sorted, s2r_sort, s2r_mark_sorted,
       BareWrites, Held, Become
  <1>4. Noticed(pool, pool')
    BY <1>2, CallNoticed
  <1>5. InUse(pool) /\ InUse(pool') /\ pool.epoch \in 0 .. EpochMod - 1 /\ pool'.epoch \in 0 .. EpochMod - 1
    <2>1. InUse(pool)
      BY <1>1, LiveInUse
    <2>2. InUse(pool')
      BY <1>3 DEF Inv, TypeOK, BufferSound, InUse
    <2> QED
      BY <2>1, <2>2, Fields DEF InUse
  <1> DEFINE d == (pool'.epoch - pool.epoch) % EpochMod
  <1>6. Shaped(index) /\ index.epoch \in 0 .. EpochMod - 1 /\ index.epoch \in Int
        /\ Bump(index.epoch, age) = pool.epoch /\ (age = 0 => Tabled(index, pool))
    BY <1>1, MemoryAssumption DEF Current
  <1>7. d \in Nat /\ Bump(index.epoch, age + d) = pool'.epoch /\ (d = 0 <=> pool'.epoch = pool.epoch)
    BY SMTT(30), <1>1, <1>5, <1>6, AgeStep
  <1> HIDE DEF d
  <1>8. age' = age + d
    BY <1>2 DEF d
  <1>9. age + d = 0 => Tabled(index, pool')
    <2>1. ASSUME age + d = 0
          PROVE  Tabled(index, pool')
      <3>1. age = 0 /\ d = 0
        BY <1>1, <1>7, <2>1
      <3>2. pool'.epoch = pool.epoch
        BY <1>7, <3>1
      <3>3. ~ Advanced(pool, pool')
        BY <1>5, <3>2, BumpMoves DEF Advanced
      <3>4. Still(pool, pool')
        BY <1>4, <3>3 DEF Noticed
      <3> QED
        BY <1>6, <3>1, <3>4, StillTabled
    <2> QED
      BY <2>1
  <1>10. Current'
    BY <1>2, <1>6, <1>7, <1>8, <1>9 DEF Current
  <1>11. age' \in Nat
    BY <1>1, <1>7, <1>8
  <1> QED
    BY <1>3, <1>10, <1>11 DEF IndexInv

LEMMA IndexStep ==
  ASSUME Careful, EpochMod > 2, CarefulInv, CarefulInv', Count(pool) < EpochMod, IndexInv, [IndexNext]_ivars
  PROVE  IndexInv'
  <1>1. Inv /\ Inv'
    BY DEF CarefulInv
  <1>2. CASE UNCHANGED ivars
    BY <1>2 DEF ivars, IndexInv, Held, Live, Current, Tabled, Below, Value, IsSigned, GetSigned, Get
  <1>3. CASE s2r_index_build
    <2>1. Live /\ pool' = pool /\ owner' = owner /\ index' = Built(pool) /\ age' = 0
      BY <1>3 DEF s2r_index_build, vars
    <2>2. Honest(pool)
      BY <2>1 DEF CarefulInv
    <2>3. pool.epoch \in 0 .. EpochMod - 1
      BY <2>2, Fields DEF Honest, InUse
    <2>4. /\ Shaped(Built(pool)) /\ Tabled(Built(pool), pool)
          /\ Built(pool).epoch = pool.epoch
      BY <2>2, BuiltTabled
    <2>5. Bump(pool.epoch, 0) = pool.epoch
      BY <2>3, BumpNone
    <2>6. Current'
      BY <2>1, <2>3, <2>4, <2>5 DEF Current
    <2>7. Live'
      BY <2>1 DEF Live
    <2> QED
      BY <2>1, <2>6, <2>7 DEF IndexInv
  <1>4. CASE s2r_index_free
    BY <1>4 DEF s2r_index_free, IndexInv, Held
  <1>5. CASE PoolStep /\ Held
    BY <1>1, <1>5, HeldStep
  <1>6. CASE PoolStep /\ ~Held
    BY <1>6 DEF PoolStep, IndexInv, Held
  <1> QED
    BY <1>2, <1>3, <1>4, <1>5, <1>6 DEF IndexNext

-----------------------------------------------------------------------------
(* What a valid index answers.                                             *)

\* Less the elements below the base, or above the top, there are none.
LEMMA CountsFrom ==
  ASSUME NEW p, Honest(p), NEW lo \in Int, NEW hi \in Int, NEW a \in Int, NEW b \in Int,
         \A i \in DOMAIN p.data : (lo <= Value(p, i) /\ Value(p, i) <= hi) <=> (a <= Value(p, i) /\ Value(p, i) <= b)
  PROVE  CountIn(p, lo, hi) = CountIn(p, a, b)
  <1>1. {i \in DOMAIN p.data : lo <= Value(p, i) /\ Value(p, i) <= hi}
        = {i \in DOMAIN p.data : a <= Value(p, i) /\ Value(p, i) <= b}
    OBVIOUS
  <1> QED
    BY <1>1 DEF CountIn

LEMMA CountsNone ==
  ASSUME NEW p, NEW lo \in Int, NEW hi \in Int,
         \A i \in DOMAIN p.data : ~ (lo <= Value(p, i) /\ Value(p, i) <= hi)
  PROVE  CountIn(p, lo, hi) = 0
  <1>1. {i \in DOMAIN p.data : lo <= Value(p, i) /\ Value(p, i) <= hi} = {}
    OBVIOUS
  <1> QED
    BY <1>1, FS_EmptySet DEF CountIn

LEMMA BinsInt ==
  ASSUME NEW ix, Shaped(ix)
  PROVE  ix.base \in Int /\ Top(ix) \in Int
  <1>1. ix.base = Base(ix.size) /\ ix.nbins = Pow(Abs(ix.size)) /\ ix.size \in Sizes /\ ix.size \in Int
    BY DEF Shaped, Sizes
  <1>2. Abs(ix.size) \in Classes /\ Half[Abs(ix.size)] \in Nat /\ ix.nbins \in Nat
    BY <1>1, SizeFacts, PowFacts
  <1>3. ix.base \in Int
    BY <1>1, <1>2 DEF Base, Abs
  <1> QED
    BY <1>2, <1>3 DEF Top

LEMMA BetweenBins ==
  ASSUME NEW p, Honest(p), NEW ix, Shaped(ix), ix.size = p.size, NEW i \in DOMAIN p.data
  PROVE  Value(p, i) \in Int /\ ix.base <= Value(p, i) /\ Value(p, i) <= Top(ix)
  <1>1. ix.base = Base(p.size) /\ ix.nbins = Pow(Abs(p.size))
    BY DEF Shaped
  <1>2. /\ Value(p, i) \in Int /\ Base(p.size) \in Int /\ Pow(Abs(p.size)) \in Nat
        /\ Base(p.size) <= Value(p, i) /\ Value(p, i) < Base(p.size) + Pow(Abs(p.size))
    BY WithinBins
  <1> QED
    BY <1>1, <1>2 DEF Top

\* A range query on a table that is true of the pool.
LEMMA RangeExact ==
  ASSUME NEW p, Honest(p), NEW ix, Shaped(ix), Tabled(ix, p), ix.size = p.size,
         NEW lo \in Int, NEW hi \in Int, CountRange(ix, p, lo, hi).ok
  PROVE  CountRange(ix, p, lo, hi).n = CountIn(p, lo, hi)
  <1> DEFINE B == ix.base
             T == Top(ix)
             a == IF lo < B THEN B ELSE lo
             b == IF hi > T THEN T ELSE hi
             r == CountRange(ix, p, lo, hi)
  <1>1. InUse(p)
    BY DEF Honest
  <1>2. B \in Int /\ ix.nbins \in Nat \ {0} /\ T = B + ix.nbins - 1 /\ T \in Int
    <2>1. ix.nbins \in Nat \ {0}
      BY SizeFacts, PowFacts DEF Shaped
    <2> QED
      BY <2>1, BinsInt DEF Top
  <1>3. \A i \in DOMAIN p.data : Value(p, i) \in Int /\ B <= Value(p, i) /\ Value(p, i) <= T
    BY BetweenBins
  <1>4. /\ ~ (lo > hi) /\ Valid(ix, p)
        /\ r = IF hi < B \/ lo > T THEN Answer(0)
               ELSE Answer(ix.cum[b - B + 1] - ix.cum[a - B])
    BY DEF CountRange, Refusal
  <1> HIDE DEF B, T, r
  <1>5. CASE hi < B \/ lo > T
    <2>1. r.n = 0
      BY <1>4, <1>5 DEF Answer
    <2>2. \A i \in DOMAIN p.data : ~ (lo <= Value(p, i) /\ Value(p, i) <= hi)
      <3> HIDE DEF a, b
      <3> QED
        BY <1>2, <1>3, <1>5
    <2>3. CountIn(p, lo, hi) = 0
      BY <2>2, CountsNone
    <2> QED
      BY <2>1, <2>3 DEF r
  <1>6. CASE ~ (hi < B \/ lo > T)
    <2>1. r.n = ix.cum[b - B + 1] - ix.cum[a - B]
      BY <1>4, <1>6 DEF Answer
    <2>2. a \in Int /\ b \in Int /\ B <= a /\ b <= T /\ a <= b
      BY <1>2, <1>4, <1>6
    <2>3. CountIn(p, lo, hi) = CountIn(p, a, b)
      BY <1>2, <1>3, <2>2, CountsFrom
    <2> HIDE DEF a, b
    <2>4. b - B + 1 \in 0 .. ix.nbins /\ a - B \in 0 .. ix.nbins /\ B + (b - B + 1) = b + 1 /\ B + (a - B) = a
      BY <1>2, <2>2
    <2>5. ix.cum[b - B + 1] = Below(p, b + 1) /\ ix.cum[a - B] = Below(p, a)
      BY <2>4 DEF Tabled, B
    <2>6. Below(p, b + 1) - Below(p, a) = CountIn(p, a, b)
      BY <1>1, <2>2, CountDifference
    <2> QED
      BY <2>1, <2>3, <2>5, <2>6 DEF r
  <1> QED
    BY <1>5, <1>6

\* The limits of the elements, whatever the class.
LEMMA WithinWords ==
  ASSUME NEW p, InUse(p), NEW i \in DOMAIN p.data
  PROVE  Value(p, i) \in Int /\ -Half[K] <= Value(p, i) /\ Value(p, i) <= Pow(K)
  <1>1. /\ Value(p, i) \in Int
        /\ IsSigned(p) => Value(p, i) \in Int64
        /\ ~IsSigned(p) => Value(p, i) \in Word
    BY ValueRange
  <1>2. K \in Classes /\ Half[K] \in Nat /\ Pow(K) \in Nat /\ Pow(K) = 2 * Half[K]
    BY Conversions, PowFacts DEF Pow
  <1> QED
    BY <1>1, <1>2 DEF Int64, Word

\* A greater-than query on a table that is true of the pool.
LEMMA GreaterExact ==
  ASSUME NEW p, Honest(p), NEW ix, Shaped(ix), Tabled(ix, p), ix.size = p.size,
         NEW thr \in Int, CountGt(ix, p, thr).ok
  PROVE  CountGt(ix, p, thr).n = CountIn(p, thr + 1, Pow(K))
  <1> DEFINE T == Top(ix)
             r == CountGt(ix, p, thr)
  <1>1. InUse(p) /\ T \in Int /\ Pow(K) \in Int
    BY BinsInt, PowFacts, Conversions DEF Honest
  <1>2. \A i \in DOMAIN p.data :
          Value(p, i) \in Int /\ Value(p, i) <= T /\ Value(p, i) <= Pow(K)
    BY <1>1, BetweenBins, WithinWords
  <1>3. r = IF thr >= T THEN Answer(0) ELSE CountRange(ix, p, thr + 1, T)
    BY DEF CountGt, Refusal
  <1>4. r.ok
    OBVIOUS
  <1> HIDE DEF r
  <1>5. CASE thr >= T
    <2>1. r.n = 0
      BY <1>3, <1>5 DEF Answer
    <2>2. CountIn(p, thr + 1, Pow(K)) = 0
      <3> HIDE DEF T
      <3> QED
        BY <1>1, <1>2, <1>5, CountsNone
    <2> QED
      BY <2>1, <2>2 DEF r
  <1>6. CASE ~ (thr >= T)
    <2>1. r = CountRange(ix, p, thr + 1, T)
      BY <1>3, <1>6
    <2>2. r.n = CountIn(p, thr + 1, T)
      BY <1>1, <1>4, <2>1, RangeExact
    <2>3. CountIn(p, thr + 1, T) = CountIn(p, thr + 1, Pow(K))
      <3> HIDE DEF T
      <3> QED
        BY <1>1, <1>2, CountsFrom
    <2> QED
      BY <2>2, <2>3 DEF r
  <1> QED
    BY <1>5, <1>6

\* A less-than query on a table that is true of the pool.
LEMMA LessExact ==
  ASSUME NEW p, Honest(p), NEW ix, Shaped(ix), Tabled(ix, p), ix.size = p.size,
         NEW thr \in Int, CountLt(ix, p, thr).ok
  PROVE  CountLt(ix, p, thr).n = CountIn(p, -Half[K], thr - 1)
  <1> DEFINE B == ix.base
             h == -Half[K]
             r == CountLt(ix, p, thr)
  <1>1. InUse(p) /\ B \in Int /\ h \in Int
    BY BinsInt, PowFacts, Conversions DEF Honest
  <1>2. \A i \in DOMAIN p.data :
          Value(p, i) \in Int /\ B <= Value(p, i) /\ h <= Value(p, i)
    BY <1>1, BetweenBins, WithinWords
  <1>3. r = IF thr <= B THEN Answer(0) ELSE CountRange(ix, p, B, thr - 1)
    BY DEF CountLt, Refusal
  <1>4. r.ok
    OBVIOUS
  <1> HIDE DEF r
  <1>5. CASE thr <= B
    <2>1. r.n = 0
      BY <1>3, <1>5 DEF Answer
    <2>2. CountIn(p, h, thr - 1) = 0
      <3> HIDE DEF B, h
      <3>1. \A i \in DOMAIN p.data : ~ (h <= Value(p, i) /\ Value(p, i) <= thr - 1)
        BY <1>1, <1>2, <1>5
      <3>2. h \in Int /\ thr - 1 \in Int
        BY <1>1
      <3> QED
        BY ONLY <3>1, <3>2, CountsNone
    <2> QED
      BY <2>1, <2>2 DEF r
  <1>6. CASE ~ (thr <= B)
    <2>1. r = CountRange(ix, p, B, thr - 1)
      BY <1>3, <1>6
    <2>2. r.n = CountIn(p, B, thr - 1)
      BY <1>1, <1>4, <2>1, RangeExact
    <2>3. CountIn(p, B, thr - 1) = CountIn(p, h, thr - 1)
      <3> HIDE DEF B, h
      <3> QED
        BY <1>1, <1>2, CountsFrom
    <2> QED
      BY <2>2, <2>3 DEF r
  <1> QED
    BY <1>5, <1>6

-----------------------------------------------------------------------------
LEMMA IndexedIsPool == IndexSpec => Spec
  <1>1. IndexInit => Init
    BY DEF IndexInit
  <1>2. [IndexNext]_ivars => [Next]_vars
    BY DEF IndexNext, s2r_index_build, s2r_index_free, PoolStep, Call, Next, Removals, FactCalls, ivars, vars
  <1> QED
    BY <1>1, <1>2, PTL DEF IndexSpec, Spec

\* A valid index has aged by no bump, or by at least as many as there are epochs.
LEMMA ValidIsNew ==
  ASSUME IndexInv, Held, age < EpochMod, Valid(index, pool)
  PROVE  Tabled(index, pool) /\ Shaped(index) /\ index.size = pool.size
  <1>1. /\ Shaped(index) /\ index.epoch \in 0 .. EpochMod - 1
        /\ Bump(index.epoch, age) = pool.epoch /\ age \in Nat
        /\ age = 0 => Tabled(index, pool)
    BY DEF IndexInv, Current
  <1>2. index.epoch = pool.epoch /\ index.size = pool.size
    BY DEF Valid
  <1>3. age = 0
    <2> SUFFICES ASSUME age # 0 PROVE FALSE
      OBVIOUS
    <2>1. age \in 1 .. EpochMod - 1
      BY <1>1, MemoryAssumption
    <2> QED
      BY <1>1, <1>2, <2>1, BumpMoves
  <1> QED
    BY <1>1, <1>2, <1>3

LEMMA InvExact ==
  ASSUME CarefulInv, IndexInv
  PROVE  IndexExact
  <1> SUFFICES ASSUME Held, age < EpochMod  PROVE
    /\ \A lo, hi \in Probes :
         CountRange(index, pool, lo, hi).ok => CountRange(index, pool, lo, hi).n = CountIn(pool, lo, hi)
    /\ \A thr \in Probes :
         /\ CountGt(index, pool, thr).ok => CountGt(index, pool, thr).n = CountIn(pool, thr + 1, Pow(K))
         /\ CountLt(index, pool, thr).ok => CountLt(index, pool, thr).n = CountIn(pool, -Half[K], thr - 1)
    BY DEF IndexExact
  <1>1. Honest(pool)
    BY DEF IndexInv, CarefulInv
  <1>2. Probes \subseteq Int
    BY DEF Probes
  <1>3. Valid(index, pool) => Tabled(index, pool) /\ Shaped(index) /\ index.size = pool.size
    BY ValidIsNew
  <1>4. ASSUME NEW lo \in Probes, NEW hi \in Probes, CountRange(index, pool, lo, hi).ok
        PROVE  CountRange(index, pool, lo, hi).n = CountIn(pool, lo, hi)
    <2>1. Valid(index, pool)
      BY <1>4 DEF CountRange, Refusal
    <2> QED
      BY <1>1, <1>2, <1>3, <1>4, <2>1, RangeExact
  <1>5. ASSUME NEW thr \in Probes, CountGt(index, pool, thr).ok
        PROVE  CountGt(index, pool, thr).n = CountIn(pool, thr + 1, Pow(K))
    <2>1. Valid(index, pool)
      BY <1>5 DEF CountGt, Refusal
    <2> QED
      BY <1>1, <1>2, <1>3, <1>5, <2>1, GreaterExact
  <1>6. ASSUME NEW thr \in Probes, CountLt(index, pool, thr).ok
        PROVE  CountLt(index, pool, thr).n = CountIn(pool, -Half[K], thr - 1)
    <2>1. Valid(index, pool)
      BY <1>6 DEF CountLt, Refusal
    <2> QED
      BY <1>1, <1>2, <1>3, <1>6, <2>1, LessExact
  <1> QED
    BY <1>4, <1>5, <1>6

\* An index that answers a range, greater-than or less-than query returns what a
\* scan of the pool as it is now would return (s2r_index_valid and the three
\* s2r_index_count functions), for a careful caller and an epoch of any width.
\* The pool holds fewer elements than there are epochs: s2r_transform counts one
\* bump for each element it rewrites, so a single call on 2^32 elements would
\* bring the epoch back to where the index remembers it.
THEOREM IndexNeverStale ==
  Careful /\ EpochMod > 2 => (IndexSpec /\ [](Count(pool) < EpochMod) => []IndexExact)
  <1> SUFFICES ASSUME Careful, EpochMod > 2
               PROVE  IndexSpec /\ [](Count(pool) < EpochMod) => []IndexExact
    OBVIOUS
  <1>1. IndexInit => IndexInv
    BY DEF IndexInit, IndexInv, Held
  <1>2. CarefulInv /\ CarefulInv' /\ Count(pool) < EpochMod /\ IndexInv /\ [IndexNext]_ivars => IndexInv'
    BY IndexStep
  <1>3. CarefulInv /\ IndexInv => IndexExact
    BY InvExact
  <1>4. Spec => []CarefulInv
    BY CarefulInvariance
  <1> QED
    BY <1>1, <1>2, <1>3, <1>4, IndexedIsPool, PTL DEF IndexSpec
=============================================================================
