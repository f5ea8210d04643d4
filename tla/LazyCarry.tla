------------------------------ MODULE LazyCarry ------------------------------
(***************************************************************************)
(* Arithmetic that promotes instead of wrapping: the *_scalar_safe calls   *)
(* and the deferred sessions S2RDeferred and S2RDeferredSigned over one    *)
(* pool.  A session is a structure of the caller's: the pool may be        *)
(* written, healed or committed to again while it is open.                 *)
(***************************************************************************)
EXTENDS PoolOps

CONSTANTS
  Args,     \* uint64_t arguments; their int64_t readings are the signed ones
  Pushes,   \* values pushed by other calls on the pool
  Arrays,   \* arrays columns are built from
  MaxOps,   \* S2R_DEFER_MAX_OPS
  Careful   \* sessions are opened on pools of their own signedness

ASSUME LazyAssumption ==
  /\ Args \subseteq Word /\ Pushes \subseteq Word /\ Arrays \subseteq Seq(Word)
  /\ MaxOps \in Nat \ {0} /\ Careful \in BOOLEAN
  /\ \A arr \in Arrays : Askable(Len(arr))

VARIABLES
  pool,
  d,      \* the session structure, and the ends of the range it began with
  call, ret
vars == <<pool, d, call, ret>>

SignedArgs == {I64(v) : v \in Args}
Op(name, s) == [op |-> name, arg |-> s]

Raws(p)   == {p.data[i] : i \in DOMAIN p.data}
Signeds(p) == {GetSigned(p, i) : i \in DOMAIN p.data}
Least(S)   == CHOOSE v \in S : \A w \in S : v <= w
Greatest(S) == CHOOSE v \in S : \A w \in S : w <= v

-----------------------------------------------------------------------------
(* Making room, never narrowing.                                            *)

s2r_ensure_fits(p, max, ok) ==
  IF Classify({max}) <= Abs(p.size) THEN Result(p, TRUE) ELSE Widen(p, Classify({max}), ok)

s2r_ensure_fits_signed(p, lo, hi, ok) ==
  LET need == ClassifySigned({lo, hi}) IN
  IF ~IsSigned(p) THEN Result(p, FALSE)
  ELSE IF Abs(need) <= Abs(p.size) THEN Result(p, TRUE) ELSE Widen(p, need, ok)

\* The overflow tests: exact on int64_t, by division on uint64_t.
AddOverflows(a, b) == a + b \notin Int64
MulOverflows(a, b) == a * b \notin Int64
AddExceeds(a, s)   == s > Pow(K) - 1 - a
MulExceeds(a, s)   == a # 0 /\ s > (Pow(K) - 1) \div a

Applied(p, o) == IF o.op = "add" THEN AddScalar(p, U64(o.arg)) ELSE MulScalar(p, U64(o.arg))
AllApplied(p, ops) ==
  LET f[i \in 0 .. Len(ops)] == IF i = 0 THEN p ELSE Applied(f[i - 1], ops[i])
  IN  f[Len(ops)]

\* The unsigned and the signed range after one more operation.
NextMax(max, o) == Raw(K, IF o.op = "add" THEN max + o.arg ELSE max * o.arg)
Exceeds(max, o) == IF o.op = "add" THEN AddExceeds(max, o.arg) ELSE MulExceeds(max, o.arg)
Swapped(a, b)   == IF a < b THEN <<a, b>> ELSE <<b, a>>
Wrapped(i)      == I64(U64(i))
NextRange(r, o) ==
  IF o.op = "add" THEN <<Wrapped(r[1] + o.arg), Wrapped(r[2] + o.arg)>>
  ELSE Swapped(Wrapped(r[1] * o.arg), Wrapped(r[2] * o.arg))
OverflowsAbove(r, o) ==   \* mutant: only the upper end is tested
  IF o.op = "add" THEN AddOverflows(r[2], o.arg) ELSE MulOverflows(r[2], o.arg)
Overflows(r, o) ==
  IF o.op = "add" THEN AddOverflows(r[1], o.arg) \/ AddOverflows(r[2], o.arg)
  ELSE MulOverflows(r[1], o.arg) \/ MulOverflows(r[2], o.arg)

-----------------------------------------------------------------------------
(* The eager calls.                                                         *)

SafeUnsigned(p, o, ok) ==
  LET max == Greatest(Raws(p))
      room == s2r_ensure_fits(p, NextMax(max, o), ok)
  IN  IF IsSigned(p) THEN Result(p, FALSE)
      ELSE IF Count(p) = 0 THEN Result(p, TRUE)
      ELSE IF Exceeds(max, o) \/ ~room.ret THEN Result(p, FALSE)
      ELSE Result(Applied(room.pool, o), TRUE)

SafeSigned(p, o, ok) ==
  LET r == <<Least(Signeds(p)), Greatest(Signeds(p))>>
      to == NextRange(r, o)
      room == s2r_ensure_fits_signed(p, to[1], to[2], ok)
  IN  IF ~IsSigned(p) THEN Result(p, FALSE)
      ELSE IF Count(p) = 0 THEN Result(p, TRUE)
      ELSE IF Overflows(r, o) \/ ~room.ret THEN Result(p, FALSE)
      ELSE Result(Applied(room.pool, o), TRUE)

(* The session.                                                             *)

EndsOf(p) == IF Count(p) = 0 THEN {0} ELSE {Least(ValueSet(p)), Greatest(ValueSet(p))}
Session(s, p) ==
  LET vs == IF s THEN Signeds(p) ELSE Raws(p) IN
  [signed |-> s, ops |-> <<>>, overflow |-> FALSE,
   vmin |-> IF Count(p) = 0 \/ ~s THEN 0 ELSE Least(vs),
   vmax |-> IF Count(p) = 0 THEN 0 ELSE Greatest(vs),
   ends |-> EndsOf(p)]

Deferred(o) ==
  LET r == <<d.vmin, d.vmax>> IN
  IF \/ Len(d.ops) >= MaxOps
     \/ IF d.signed THEN Overflows(r, o) ELSE Exceeds(d.vmax, o)
  THEN [d EXCEPT !.overflow = TRUE]
  ELSE [d EXCEPT !.ops = Append(@, o),
                 !.vmin = IF d.signed THEN NextRange(r, o)[1] ELSE @,
                 !.vmax = IF d.signed THEN NextRange(r, o)[2] ELSE NextMax(@, o)]

CommittedUnfitted(ok) ==   \* mutant: the pool is not promoted first
  IF d.overflow THEN Result(pool, FALSE) ELSE Result(AllApplied(pool, d.ops), TRUE)
Committed(ok) ==
  LET room == IF d.signed THEN s2r_ensure_fits_signed(pool, d.vmin, d.vmax, ok)
              ELSE s2r_ensure_fits(pool, d.vmax, ok)
  IN  IF d.overflow THEN Result(pool, FALSE)
      ELSE IF Count(pool) = 0 THEN Result(pool, TRUE)
      ELSE IF ~room.ret THEN Result(pool, FALSE)
      ELSE Result(AllApplied(room.pool, d.ops), TRUE)
-----------------------------------------------------------------------------
\* A column built from an array, and a session opened on it.
Init ==
  /\ \E r \in {FromArrayAuto(0, a, TRUE) : a \in Arrays}
              \cup {FromArraySignedAuto(0, [i \in DOMAIN a |-> I64(a[i])], TRUE) : a \in Arrays} :
       r.ret /\ pool = r.pool
  /\ d = Session(IsSigned(pool), pool)
  /\ call = [name |-> "begin", arg |-> IsSigned(pool), ok |-> TRUE]
  /\ ret = TRUE

Called(name, arg, ok) == call' = [name |-> name, arg |-> arg, ok |-> ok]
Return(r) == pool' = r.pool /\ ret' = r.ret

Ops(S) == {Op(name, s) : name \in {"add", "mul"}, s \in S}

\* s2r_add_scalar_safe, s2r_mul_scalar_safe and their signed forms.
scalar_safe(ok) ==
  /\ UNCHANGED d
  /\ \/ \E o \in Ops(Args) : Called("safe", o, ok) /\ Return(SafeUnsigned(pool, o, ok))
     \/ \E o \in Ops(SignedArgs) : Called("safe", o, ok) /\ Return(SafeSigned(pool, o, ok))

s2r_defer_begin(s) ==
  /\ Careful => s = IsSigned(pool)
  /\ Called("begin", s, TRUE)
  /\ d' = Session(s, pool) /\ ret' = TRUE /\ UNCHANGED pool

\* s2r_defer_add, s2r_defer_mul and their signed forms.
s2r_defer(o) ==
  /\ Called("defer", o, TRUE)
  /\ d' = Deferred(o) /\ ret' = TRUE /\ UNCHANGED pool

s2r_defer_commit(ok) ==
  /\ Called("commit", 0, ok)
  /\ Return(Committed(ok))
  /\ UNCHANGED d

\* Other calls on the pool while the session is open.
Elsewhere(p) == Called("other", 0, TRUE) /\ pool' = p /\ ret' = TRUE /\ UNCHANGED d
Edited ==
  \/ \E v \in Pushes : Elsewhere(PushAdaptive(pool, v, TRUE, TRUE).pool)
  \/ \E v \in Pushes : Elsewhere(PushSignedAdaptive(pool, I64(v), TRUE, TRUE).pool)
  \/ \E i \in DOMAIN pool.data : Elsewhere(RemoveSwap(pool, i))
Healed ==
  \/ Elsewhere(FitClass(pool, TRUE).pool)
  \/ Elsewhere(FitClassSignedness(pool, TRUE).pool)

Next ==
  \/ \E ok \in BOOLEAN : scalar_safe(ok) \/ s2r_defer_commit(ok)
  \/ \E s \in BOOLEAN : s2r_defer_begin(s)
  \/ \E o \in Ops(IF d.signed THEN SignedArgs ELSE Args) : s2r_defer(o)
  \/ Edited
  \/ Healed

Spec == Init /\ [][Next]_vars

-----------------------------------------------------------------------------
WidestLeast(s)   == IF s THEN -Half[K] ELSE 0
WidestLargest(s) == IF s THEN Half[K] - 1 ELSE Pow(K) - 1

\* A block for n elements would be larger than the largest there can be.
TooLong(n) == \E c \in Classes : AlignUp(n * ElemBytes[c]) > Memory

Exact == INSTANCE ExactArithmetic WITH
  col <- Values(pool), signed <- IsSigned(pool), call <- call, ret <- ret,
  chain <- [signed |-> d.signed, ends |-> d.ends, ops |-> d.ops, lost |-> d.overflow],
  Least <- WidestLeast, Largest <- WidestLargest, Short <- TooLong

\* A safe call gives every element its exact result, or refuses for a reason and
\* leaves the column as it was.  A commit gives its exact result to every element that
\* lies in the range the session was begun with, whatever else was done to the pool
\* while the session was open, or refuses for a reason and can be tried again.  A
\* session is lost exactly when its range leaves 64 bits or it is full.
NeverWraps == Exact!Spec

\* "Promotes once, no wraparound" (smart2raw.h:2697), read of any column: a commit that
\* succeeds leaves every element where the whole chain takes it.  The code sizes the
\* class for the range at s2r_defer_begin, and applies it to what was pushed since.
CommitsExactly ==
  Committed(TRUE).ret =>
    Values(Committed(TRUE).pool) =
      [i \in DOMAIN pool.data |-> Exact!Through(d.ops, Value(pool, i))]

\* Deferring is only a saving: on a column with the range its session began with,
\* if there is memory, a commit succeeds, gives the values that the safe calls would have given one
\* after another, and ends in a class no wider than theirs.
Eagerly(p, ops) ==
  LET step(r, o) == IF d.signed THEN SafeSigned(r.pool, o, TRUE) ELSE SafeUnsigned(r.pool, o, TRUE)
      f[i \in 0 .. Len(ops)] ==
        IF i = 0 THEN Result(p, TRUE)
        ELSE IF f[i - 1].ret THEN step(f[i - 1], ops[i]) ELSE f[i - 1]
  IN  f[Len(ops)]
DeferredAsEager ==
  LET eager == Eagerly(pool, d.ops)
      commit == Committed(TRUE)
  IN  ~d.overflow /\ d.signed = IsSigned(pool) /\ d.ends = EndsOf(pool) /\ ~TooLong(Count(pool)) =>
        /\ eager.ret /\ commit.ret
        /\ Values(commit.pool) = Values(eager.pool)
        /\ Abs(commit.pool.size) <= Abs(eager.pool.size)
=============================================================================
