----------------------------- MODULE BlockPlan -----------------------------
(***************************************************************************)
(* The planner of include/smart2raw.h: it prices every block size from one *)
(* pass over the data, chooses one, and advises a representation.          *)
(***************************************************************************)
EXTENDS Affine

CONSTANTS
  Grain,    \* S2R_PLAN_GRAIN
  PlanMax,  \* S2R_PLAN_MAX
  Largest   \* the last candidate tried, 2^20

ASSUME PlanAssumption ==
  /\ Grain \in Nat \ {0} /\ PlanMax \in Nat \ {0} /\ Largest \in Nat /\ Grain <= Largest

\* One cell: extremes and sum as words, whatever the sign of the column.
Cell(vs) ==
  [mn |-> Wrap(Least(vs)), mx |-> Wrap(Greatest(vs)), g |-> StrideOf(Offsets(vs)),
   sum |-> SumWrapped(vs)]

MinOf(a, b) == IF a < b THEN a ELSE b
MaxOf(a, b) == IF a > b THEN a ELSE b

MergeSteps(a, b) ==   \* mutant: the distance between the two minima is forgotten
  [mn |-> MinOf(a.mn, b.mn), mx |-> MaxOf(a.mx, b.mx), g |-> Gcd(a.g, b.g),
   sum |-> Wrap(a.sum + b.sum)]
Merge(a, b) ==
  LET m == MinOf(a.mn, b.mn)
  IN  [mn |-> m, mx |-> MaxOf(a.mx, b.mx),
       g |-> Gcd(Gcd(Gcd(a.g, b.g), a.mn - m), b.mn - m), sum |-> Wrap(a.sum + b.sum)]

MergedCells(cells) ==
  LET f[i \in 1 .. Len(cells)] == IF i = 1 THEN cells[1] ELSE Merge(f[i - 1], cells[i])
  IN  f[Len(cells)]

\* What a column in blocks of `blk` elements is said to cost.
Price(vs, signed, blk) ==
  LET nb     == CeilDiv(Len(vs), blk)
      acc    == [bi \in 1 .. nb |->
                   LET p == Piece(vs, blk, bi) IN
                   MergedCells([c \in 1 .. CeilDiv(Len(p), Grain) |-> Cell(Piece(p, Grain, c))])]
      span   == [bi \in 1 .. nb |-> Wrap(acc[bi].mx - acc[bi].mn) \div acc[bi].g]
      frames == [bi \in 1 .. nb |->
                   [width |-> DeltaClass(span[bi]), index |-> Piece(vs, blk, bi)]]
      total  == PayloadEnd(frames)[nb]
      s(u)   == IF signed THEN I64(u) ELSE u
      stride == \E bi \in 1 .. nb : acc[bi].g > 1
      md(c)  == Bytes(c)
  IN  [block |-> blk, nblocks |-> nb, has_stride |-> stride,
       nconst |-> Cardinality({bi \in 1 .. nb : span[bi] = 0}),
       bytes |-> total
         + nb * (2 + md(ClassOf(signed, {s(acc[bi].mn) : bi \in 1 .. nb}))
                   + md(Classify({span[bi] : bi \in 1 .. nb}))
                   + md(Classify({total}))
                   + md(ClassOf(signed, {s(acc[bi].sum) : bi \in 1 .. nb}))
                   + IF stride THEN md(Classify({acc[bi].g : bi \in 1 .. nb})) ELSE 0)]

\* s2r_blocked_plan: candidates double until one covers the column.
Doubled(k) ==
  LET f[j \in 0 .. k] == IF j = 0 THEN Grain ELSE 2 * f[j - 1] IN f[k]
Candidates(n) ==
  {k \in 0 .. PlanMax - 1 : Doubled(k) <= Largest /\ \A j \in 0 .. k - 1 : Doubled(j) < n}
Plan(vs, signed) ==
  IF vs = <<>> THEN <<>>
  ELSE [k \in 1 .. Cardinality(Candidates(Len(vs))) |-> Price(vs, signed, Doubled(k - 1))]

\* s2r_blocked_choose_block: the cheapest, the larger of two that cost the same.
TakesSmallerBlocks(plan, k) ==   \* mutant: compares the number of blocks
  \A j \in DOMAIN plan : plan[k].nblocks >= plan[j].nblocks
TakesIt(plan, k) ==
  \A j \in DOMAIN plan : plan[k].bytes <= plan[j].bytes /\ (plan[k].bytes = plan[j].bytes => j <= k)
Best(plan) ==
  IF plan = <<>> THEN BlockDefault ELSE plan[CHOOSE k \in DOMAIN plan : TakesIt(plan, k)].block
\* Without memory for the cells there is no plan, and the default is taken.
ChooseBlock(vs, signed, ok) == Best(IF ok THEN Plan(vs, signed) ELSE <<>>)

\* s2r_recommend, an unsigned array.  The answers of the allocator: to the affine build,
\* to the planner, to the block-wise build.
Advice(raw, flat, affine, block, blocked) ==
  [raw_bytes |-> raw, flat_bytes |-> flat, affine_bytes |-> affine,
   blocked_bytes |-> blocked, block |-> block,
   best |-> IF blocked < MinOf(flat, affine) THEN "blocked"
            ELSE IF affine < flat THEN "affine" ELSE "flat",
   best_bytes |-> MinOf(blocked, MinOf(affine, flat))]
AdviceOn(vs, flat, block, a, ok2) ==
  Advice(Len(vs) * Bytes(K), flat, IF a.ret THEN AffineBytes(a.aff) ELSE flat, block,
         IF ok2 THEN BlockedBytes(BlockedOf(vs, FALSE, block)) ELSE flat)
Recommend(vs, ok1, planned, ok2) ==
  AdviceOn(vs, Len(vs) * Bytes(Classify({vs[i] : i \in DOMAIN vs})),
           ChooseBlock(vs, FALSE, planned), AffineOf(vs, FALSE, ok1), ok2)
=============================================================================
