--------------------------- MODULE AdaptiveColumn ---------------------------
(***************************************************************************)
(* The pool as its adaptive interface uses it: built from an array or      *)
(* empty, grown by adaptive or checked pushes, edited with values of its   *)
(* class, healed by the fit calls.  It implements IntColumn.               *)
(***************************************************************************)
EXTENDS PoolOps

CONSTANTS
  Args,     \* uint64_t arguments; their int64_t readings are the signed ones
  CapArgs,  \* capacities asked for
  Arrays    \* arrays columns are built from

ASSUME ColumnAssumption ==
  Args \subseteq Word /\ CapArgs \subseteq Nat /\ Arrays \subseteq Seq(Word)
ASSUME AskedAssumption ==   \* no caller asks for a size within one unit of SIZE_MAX
  /\ \A cap \in CapArgs : Askable(cap)
  /\ \A arr \in Arrays : Askable(Len(arr))

VARIABLES
  pool,
  arg,   \* value the last call was given, 0 when it took none
  res    \* code the last call returned
vars == <<pool, arg, res>>

SignedArgs == {I64(v) : v \in Args}

\* What the calls that create a column answer.
Created(ok) ==
  {PoolInit(0, size, cap, ok) : size \in Sizes, cap \in CapArgs}
  \cup {FromArrayAuto(0, arr, ok) : arr \in Arrays}
  \cup {FromArraySignedAuto(0, [i \in DOMAIN arr |-> I64(arr[i])], ok) : arr \in Arrays}

\* A created column: the call that created it succeeded.
Init ==
  /\ arg = 0 /\ res = "OK"
  /\ \E ok \in BOOLEAN : \E r \in Created(ok) : r.ret /\ pool = r.pool

-----------------------------------------------------------------------------
Return(v, r) == arg' = v /\ pool' = r.pool /\ res' = r.ret
Done(v, p)   == arg' = v /\ pool' = p /\ res' = "OK"

AdaptivePush(ok1, ok2) ==
  \/ \E v \in Args : Return(v, PushAdaptive(pool, v, ok1, ok2))
  \/ \E v \in SignedArgs : Return(v, PushSignedAdaptive(pool, v, ok1, ok2))

\* The checked pushes; s2r_push_checked is for unsigned pools.
CheckedPush(ok) ==
  \/ \E v \in Args : ~IsSigned(pool) /\ Return(v, PushChecked(pool, v, ok))
  \/ \E v \in SignedArgs : Return(v, PushSignedChecked(pool, v, ok))

\* Stores of a value the class of the pool represents.
Assign(i) ==
  \/ \E v \in Args : ~IsSigned(pool) /\ v <= MaxValue(pool.size) /\ Done(v, Set(pool, i, v))
  \/ \E v \in SignedArgs :
       /\ IsSigned(pool) /\ v \in MinSigned(pool.size) .. MaxSigned(pool.size)
       /\ Done(v, SetSigned(pool, i, v))

RemoveAt(i) == Done(0, RemoveSwap(pool, i))
Empty       == Done(0, Clear(pool))
Order       == \E q \in Sort(pool) : Done(0, q)

Resize(ok) ==
  \/ \E cap \in CapArgs : Return(0, Coded(Reserve(pool, cap, ok)))
  \/ Return(0, Coded(ShrinkToFit(pool, ok)))
PromoteTo(size, ok) == Return(0, Coded(Promote(pool, size, ok)))
Heal(ok)       == Return(0, Coded(FitClass(pool, ok)))
HealAcross(ok) == Return(0, Coded(FitClassSignedness(pool, ok)))

Next ==
  \/ \E ok1, ok2 \in BOOLEAN : AdaptivePush(ok1, ok2)
  \/ \E ok \in BOOLEAN : CheckedPush(ok) \/ Resize(ok) \/ Heal(ok) \/ HealAcross(ok)
  \/ \E size \in Sizes, ok \in BOOLEAN : PromoteTo(size, ok)
  \/ \E i \in DOMAIN pool.data : Assign(i) \/ RemoveAt(i)
  \/ Empty
  \/ Order

Spec == Init /\ [][Next]_vars

-----------------------------------------------------------------------------
Column == INSTANCE IntColumn WITH
  col <- Values(pool), signed <- IsSigned(pool), arg <- arg, res <- res,
  UnsignedArgs <- Args, SignedArgs <- SignedArgs

\* Through every widening and healing the pool behaves as a column of integers:
\* no push is truncated, no width change alters a value, a failed call leaves the
\* column as it was and reports it.
ImplementsColumn == Column!Spec

\* Healing is complete: after a successful fit the class is the smallest one, of
\* the pool's signedness, that holds every value.
Smallest(p) ==
  \A c \in Classes :
    (IF IsSigned(p) THEN SFits(c, ValueSet(p)) ELSE UFits(c, RawSet(p))) => Abs(p.size) <= c
HealingIsComplete ==
  [][\A ok \in BOOLEAN : Heal(ok) /\ res' = "OK" /\ Count(pool) > 0 => Smallest(pool')]_vars
=============================================================================
