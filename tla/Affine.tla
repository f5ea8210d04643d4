------------------------------- MODULE Affine -------------------------------
(***************************************************************************)
(* Affine columns (S2RAffine in include/smart2raw.h): one base and one     *)
(* stride for the whole column, and the indices in an ordinary S2RPool.    *)
(* Arguments of type int64_t are integers; an unsigned column reads them   *)
(* as the words they are.                                                  *)
(***************************************************************************)
EXTENDS Blocked

\* Nothing was built: a zeroed structure (its pool on an untouched heap).
NoAffine ==
  [idx |-> Zeroed(0), base |-> 0, stride |-> 0, count |-> 0, signed |-> FALSE,
   is_const |-> FALSE]

\* s2r_affine_detect and s2r_affine_detect_signed.
Offsets(vs) == [i \in DOMAIN vs |-> vs[i] - Least(vs)]
Detect(vs)  == IF vs = <<>> THEN 1 ELSE StrideOf(Offsets(vs))

Indices(vs) == [i \in DOMAIN vs |-> Offsets(vs)[i] \div Detect(vs)]

\* The pool the indices go to.  They are written by s2r_set, one by one, while its
\* count is still 0; the count is set after the last one.
IndexPool(vs, ok) ==
  LET top == IF vs = <<>> THEN 0 ELSE Greatest(Indices(vs))
  IN  IF top = 0 THEN PoolInit(0, 1, 1, ok) ELSE PoolInit(0, Classify({top}), Len(vs), ok)
Filled(p, s) ==
  [DropFacts(p) EXCEPT !.data = [i \in DOMAIN s |-> Raw(p.size, s[i])],
                       !.epoch = Bump(p.epoch, Len(s))]

\* s2r__affine_build.  A column that could not get its pool has a base and a count
\* all the same. 
AffineOf(vs, signed, ok) ==
  LET pool  == IndexPool(vs, ok)
      const == vs # <<>> /\ Greatest(Indices(vs)) = 0
      bare  == [idx |-> pool.pool, base |-> IF vs = <<>> THEN 0 ELSE Least(vs),
                stride |-> Detect(vs), count |-> Len(vs), signed |-> signed,
                is_const |-> const]
      full  == pool.ret /\ vs # <<>> /\ ~const
  IN  [aff |-> IF full THEN [bare EXCEPT !.idx = Filled(@, Indices(vs))] ELSE bare,
       ret |-> pool.ret]

AffineBytes(a) == IF a.is_const THEN 0 ELSE Count(a.idx) * Bytes(a.idx.size)

-----------------------------------------------------------------------------
(* Queries.  base is an integer here; a.base in the code is its word.       *)

AffineGet(a, i) ==
  IF a.is_const THEN Wrap(a.base) ELSE Wrap(a.base + a.stride * Get(a.idx, i))
AffineGetSigned(a, i) == I64(AffineGet(a, i))

AffineSum(a) ==
  IF a.count = 0 THEN 0
  ELSE IF a.is_const THEN Wrap(a.base * a.count)
  ELSE Wrap(a.base * a.count + a.stride * SumWrapped(a.idx.data))

\* The values of [lo, hi] as a window of indices, or an empty one.
AffineWindow(a, lo, hi) ==
  LET ilo == IF lo <= a.base THEN 0 ELSE FirstIndex(lo - a.base, a.stride)
      ihi == (hi - a.base) \div a.stride
  IN  IF a.count = 0 \/ hi < a.base THEN [some |-> FALSE, ilo |-> 1, ihi |-> 0]
      ELSE [some |-> ilo <= ihi, ilo |-> ilo, ihi |-> ihi]

AffineCountGt(a, thr) ==
  IF a.count = 0 THEN 0
  ELSE IF thr < a.base THEN a.count
  ELSE IF a.is_const THEN 0
  ELSE CountIn(a.idx.data, (thr - a.base) \div a.stride + 1, Pow(K))

AffineCountRange(a, lo, hi) ==
  LET w == AffineWindow(a, lo, hi) IN
  IF ~w.some THEN 0
  ELSE IF a.is_const THEN IF w.ilo = 0 THEN a.count ELSE 0
  ELSE CountIn(a.idx.data, w.ilo, w.ihi)
AffineCountLt(a, thr) ==
  IF a.count = 0 \/ thr <= a.base THEN 0 ELSE AffineCountRange(a, a.base, thr - 1)

OffLattice(a, off) == FALSE                       \* mutant: the remainder is not looked at
BetweenSteps(a, off) == off % a.stride # 0
AffineCountEq(a, v) ==
  IF a.count = 0 \/ v < a.base THEN 0
  ELSE IF a.is_const THEN IF v = a.base THEN a.count ELSE 0
  ELSE IF BetweenSteps(a, v - a.base) THEN 0
  ELSE LET i == (v - a.base) \div a.stride IN CountIn(a.idx.data, i, i)

AffineSumIf(a, lo, hi) ==
  LET w == AffineWindow(a, lo, hi) IN
  IF ~w.some THEN 0
  ELSE IF a.is_const THEN IF w.ilo = 0 THEN Wrap(a.base * a.count) ELSE 0
  ELSE Wrap(a.base * CountIn(a.idx.data, w.ilo, w.ihi)
            + a.stride * SumIn(a.idx.data, w.ilo, w.ihi))
=============================================================================
