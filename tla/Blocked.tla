------------------------------ MODULE Blocked ------------------------------
(***************************************************************************)
(* Block-wise columns (S2RBlocked in include/smart2raw.h): how one is laid *)
(* out from an array, and what each query computes from the layout.        *)
(*                                                                         *)
(* A block keeps its values as indices: v = base + stride * index.  The    *)
(* bookkeeping of all blocks is stored in the narrowest class of its own,  *)
(* so every record field below is the number as stored, and the operators  *)
(* BB, BO, BP, BT, BS read it back as s2r__bb, s2r__bo, ... do.            *)
(***************************************************************************)
EXTENDS PoolOps, FiniteSets

CONSTANTS
  BlockDefault,  \* S2R_BLOCK_DEFAULT
  BSearchMin     \* S2R_BLK_BSEARCH_MIN_BYTES

ASSUME BlockAssumption ==
  /\ BlockDefault \in Nat \ {0} /\ BSearchMin \in Nat
  /\ \A c \in Classes : ElemBytes[K] % ElemBytes[c] = 0   \* 1, 2 and 4 divide 8

Wrap(x) == Raw(K, x)   \* arithmetic of uint64_t

SumWrapped(s) ==
  LET f[i \in 0 .. Len(s)] == IF i = 0 THEN 0 ELSE Wrap(f[i - 1] + s[i]) IN f[Len(s)]

\* s2r_gcd64, and the gcd of a sequence (0 for a sequence of zeros).
Gcd(a, b) ==
  LET g[w \in Nat \X Nat] == IF w[2] = 0 THEN w[1] ELSE g[<<w[2], w[1] % w[2]>>] IN g[<<a, b>>]
GcdOf(s) ==
  LET f[i \in 0 .. Len(s)] == IF i = 0 THEN 0 ELSE Gcd(f[i - 1], s[i]) IN f[Len(s)]

Least(s)    == CHOOSE v \in {s[i] : i \in DOMAIN s} : \A i \in DOMAIN s : v <= s[i]
Greatest(s) == CHOOSE v \in {s[i] : i \in DOMAIN s} : \A i \in DOMAIN s : s[i] <= v
Ordered(s)  == \A i \in 2 .. Len(s) : s[i - 1] <= s[i]
CeilDiv(a, b) == (a + b - 1) \div b

DeltaClass(span) == IF span = 0 THEN 0 ELSE Classify({span})

\* A step below 2 is no step: a constant array has the gcd 0.
StrideOf(offsets) == LET g == GcdOf(offsets) IN IF g < 2 THEN 1 ELSE g

-----------------------------------------------------------------------------
(* Building.                                                                *)

\* One block of integers, before anything is narrowed.
Frame(vs) ==
  LET lo     == Least(vs)
      offs   == [i \in DOMAIN vs |-> vs[i] - lo]
      stride == StrideOf(offs)
      span   == (Greatest(vs) - lo) \div stride
  IN  [base |-> lo, stride |-> stride, span |-> span, sum |-> SumWrapped(vs),
       sorted |-> Ordered(vs), width |-> DeltaClass(span),
       index |-> [i \in DOMAIN vs |-> offs[i] \div stride]]

\* Block number bi of an array cut into blocks of `block` elements.
Piece(vs, block, bi) ==
  SubSeq(vs, (bi - 1) * block + 1, IF bi * block <= Len(vs) THEN bi * block ELSE Len(vs))

\* How many blocks: size_t, and the sum wraps for block sizes near its top.
BlockCount(n, block) == Wrap(n + block - 1) \div block
Frames(vs, block) == [bi \in 1 .. BlockCount(Len(vs), block) |-> Frame(Piece(vs, block, bi))]

\* Payload starts on a multiple of eight bytes, the widest element.
ElementAligned(n) == n                             \* mutant
WordAligned(n) == n + ((-n) % Bytes(K))
PayloadEnd(frames) ==
  LET e[bi \in 0 .. Len(frames)] ==
        IF bi = 0 THEN 0
        ELSE IF frames[bi].width = 0 THEN e[bi - 1]
        ELSE WordAligned(e[bi - 1]) + Len(frames[bi].index) * Bytes(frames[bi].width)
  IN  e
Offset(frames, bi) ==
  IF frames[bi].width = 0 THEN 0 ELSE WordAligned(PayloadEnd(frames)[bi - 1])

\* The class of one bookkeeping array.  Bases and sums take the column's sign; the
\* code writes that sign into the class (S2R_I8 for S2R_8), here `signed` has it.
ClassOf(signed, ns) == IF signed THEN -ClassifySigned(ns) ELSE Classify(ns)
MaximaSigned(signed, ns) ==   \* mutant: the largest base looked for as int64_t
  IF signed \/ ns = {} THEN ClassOf(signed, ns)
  ELSE Classify({CHOOSE n \in ns : \A m \in ns : I64(m) <= I64(n)})
FrameClass(signed, ns) == ClassOf(signed, ns)

\* What the blocks wrote to the payload; nothing else is ever read from it.
Payload(frames, bytes) ==
  LET written == UNION {{<<Offset(frames, bi) + (j - 1) * Bytes(frames[bi].width),
                           Raw(frames[bi].width, frames[bi].index[j])>> : j \in DOMAIN frames[bi].index}
                          : bi \in {b \in DOMAIN frames : frames[b].width # 0}}
      at(a)   == {w \in written : w[1] = a}
  IN  [a \in 0 .. bytes - 1 |-> IF at(a) = {} THEN 0 ELSE (CHOOSE w \in at(a) : TRUE)[2]]

NoBlocks ==   \* memset to zero
  [count |-> 0, block |-> 0, signed |-> FALSE, bcls |-> 0, pcls |-> 0, ocls |-> 0,
   scls |-> 0, tcls |-> 0, has_stride |-> FALSE, bytes |-> 0, blocks |-> <<>>,
   data |-> <<>>]

\* s2r__blocked_build: an array of integers, read as uint64_t or as int64_t.
BlockedOf(vs, signed, block) ==
  LET blk   == IF block = 0 THEN BlockDefault ELSE block
      fr    == Frames(vs, blk)
      total == PayloadEnd(fr)[Len(fr)]
      s(u)  == IF signed THEN I64(u) ELSE u
      bcls  == FrameClass(signed, {fr[bi].base : bi \in DOMAIN fr})
      scls  == ClassOf(signed, {s(fr[bi].sum) : bi \in DOMAIN fr})
      pcls  == Classify({fr[bi].span : bi \in DOMAIN fr})
      tcls  == Classify({fr[bi].stride : bi \in DOMAIN fr})
      ocls  == Classify({total})
  IN  [count |-> Len(vs), block |-> blk, signed |-> signed,
       bcls |-> bcls, pcls |-> pcls, ocls |-> ocls, scls |-> scls,
       tcls |-> IF fr = <<>> THEN 0 ELSE tcls,
       has_stride |-> \E bi \in DOMAIN fr : fr[bi].stride > 1,
       bytes |-> total,
       blocks |-> [bi \in DOMAIN fr |->
         [width |-> fr[bi].width, sorted |-> fr[bi].sorted,
          off |-> Raw(ocls, Offset(fr, bi)), base |-> Raw(bcls, fr[bi].base),
          span |-> Raw(pcls, fr[bi].span), sum |-> Raw(scls, fr[bi].sum),
          stride |-> Raw(tcls, fr[bi].stride)]],
       data |-> Payload(fr, total)]

-----------------------------------------------------------------------------
(* Reading.                                                                 *)

ReadUnextended(b, cls, r) == r   \* mutant: no sign extension
ReadBack(b, cls, r) == IF b.signed THEN U64(AsSigned(cls, r)) ELSE r
BB(b, bi) == ReadBack(b, b.bcls, b.blocks[bi].base)
BS(b, bi) == ReadBack(b, b.scls, b.blocks[bi].sum)
BO(b, bi) == b.blocks[bi].off
BP(b, bi) == b.blocks[bi].span
BT(b, bi) == IF b.has_stride THEN b.blocks[bi].stride ELSE 1

BlkLen(b, bi) ==
  LET rest == b.count - (bi - 1) * b.block IN IF rest < b.block THEN rest ELSE b.block
Delta(b, bi, j) ==
  LET w == b.blocks[bi].width IN IF w = 0 THEN 0 ELSE b.data[BO(b, bi) + (j - 1) * Bytes(w)]
View(b, bi) == [j \in 1 .. BlkLen(b, bi) |-> Delta(b, bi, j)]

BlockedGet(b, i) ==
  LET bi == (i - 1) \div b.block + 1
  IN  Wrap(BB(b, bi) + BT(b, bi) * Delta(b, bi, ((i - 1) % b.block) + 1))
BlockedGetSigned(b, i) == I64(BlockedGet(b, i))

\* Totals over the blocks.
BlockedSum(b) == SumWrapped([bi \in DOMAIN b.blocks |-> BS(b, bi)])
BlockedSumFast(b) ==
  LET walked(bi) == BB(b, bi) * BlkLen(b, bi)
                    + IF b.blocks[bi].width = 0 THEN 0 ELSE BT(b, bi) * SumWrapped(View(b, bi))
  IN  SumWrapped([bi \in DOMAIN b.blocks |-> walked(bi)])

TopUnscaled(b, bi) == Wrap(BB(b, bi) + BP(b, bi))   \* mutant: the span taken for a distance
Top(b, bi) == Wrap(BB(b, bi) + BT(b, bi) * BP(b, bi))
BlockedMax(b) == IF b.count = 0 THEN 0 ELSE Greatest([bi \in DOMAIN b.blocks |-> Top(b, bi)])
BlockedMin(b) == IF b.count = 0 THEN 0 ELSE Least([bi \in DOMAIN b.blocks |-> BB(b, bi)])

BlockedBytes(b) ==
  b.bytes + Len(b.blocks) * (2 + Bytes(b.bcls) + Bytes(b.pcls) + Bytes(b.ocls) + Bytes(b.scls)
                             + IF b.has_stride THEN Bytes(b.tcls) ELSE 0)

-----------------------------------------------------------------------------
(* Predicates.                                                              *)

\* The kernels on the indices of one block.
CountIn(s, lo, hi) == Cardinality({j \in DOMAIN s : lo <= s[j] /\ s[j] <= hi})
SumIn(s, lo, hi) == SumWrapped([j \in DOMAIN s |-> IF lo <= s[j] /\ s[j] <= hi THEN s[j] ELSE 0])

BlkLower(b, bi, kp) == CountIn(View(b, bi), 0, kp - 1)   \* mutant: the first index not below kp
\* s2r__blk_upper: how many indices of a sorted block are at most kp.
BlkUpper(b, bi, kp) ==
  LET s == View(b, bi)
      find[w \in (0 .. Len(s)) \X (0 .. Len(s))] ==
        LET lo  == w[1]
            hi  == w[2]
            mid == lo + (hi - lo) \div 2
        IN  IF lo >= hi THEN lo
            ELSE IF s[mid + 1] > kp THEN find[<<lo, mid>>] ELSE find[<<mid + 1, hi>>]
  IN  find[<<0, Len(s)>>]

BlockedCountGt(b, thr) ==
  LET in(bi) ==
        LET len == BlkLen(b, bi)
            w   == b.blocks[bi].width
            rem == (thr - BB(b, bi)) \div BT(b, bi)
        IN  IF BB(b, bi) > thr THEN len
            ELSE IF BP(b, bi) <= rem THEN 0
            ELSE IF b.blocks[bi].sorted /\ len * Bytes(w) >= BSearchMin
            THEN len - BlkUpper(b, bi, rem)
            ELSE CountIn(View(b, bi), rem + 1, Pow(K))
  IN  SumWrapped([bi \in DOMAIN b.blocks |-> in(bi)])

\* The values of [lo, hi] as a window of indices.  The rounding up wraps.
FirstIndex(rl, st) == IF st > 1 THEN Wrap(rl + st - 1) \div st ELSE rl
BlkWindow(b, bi, lo, hi) ==
  LET base == BB(b, bi)
      st   == BT(b, bi)
      vmax == Top(b, bi)
      ilo  == IF lo <= base THEN 0 ELSE FirstIndex(lo - base, st)
      ihi  == (IF hi >= vmax THEN Wrap(st * BP(b, bi)) ELSE Wrap(hi - base)) \div st
  IN  IF hi < base \/ lo > vmax THEN [some |-> FALSE, whole |-> FALSE, ilo |-> 0, ihi |-> 0]
      ELSE IF lo <= base /\ hi >= vmax
      THEN [some |-> TRUE, whole |-> TRUE, ilo |-> 0, ihi |-> 0]
      ELSE [some |-> ilo <= ihi, whole |-> FALSE, ilo |-> ilo, ihi |-> ihi]

BlockedCountRange(b, lo, hi) ==
  LET in(bi) ==
        LET w == BlkWindow(b, bi, lo, hi) IN
        IF ~w.some THEN 0
        ELSE IF w.whole \/ b.blocks[bi].width = 0 THEN BlkLen(b, bi)
        ELSE CountIn(View(b, bi), w.ilo, w.ihi)
  IN  IF lo > hi THEN 0 ELSE SumWrapped([bi \in DOMAIN b.blocks |-> in(bi)])
BlockedCountLt(b, thr) == IF thr = 0 THEN 0 ELSE BlockedCountRange(b, 0, thr - 1)
BlockedCountEq(b, v)   == BlockedCountRange(b, v, v)

BlockedSumIf(b, lo, hi) ==
  LET in(bi) ==
        LET w == BlkWindow(b, bi, lo, hi) IN
        IF ~w.some THEN 0
        ELSE IF w.whole THEN BS(b, bi)
        ELSE IF b.blocks[bi].width = 0 THEN BB(b, bi) * BlkLen(b, bi)
        ELSE BB(b, bi) * CountIn(View(b, bi), w.ilo, w.ihi)
             + BT(b, bi) * SumIn(View(b, bi), w.ilo, w.ihi)
  IN  IF lo > hi THEN 0 ELSE SumWrapped([bi \in DOMAIN b.blocks |-> in(bi)])
\* The signed bounds are compared as unsigned words, lo > hi aside.
BlockedSumIfSigned(b, lo, hi) == IF lo > hi THEN 0 ELSE I64(BlockedSumIf(b, U64(lo), U64(hi)))
=============================================================================
