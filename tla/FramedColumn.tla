---------------------------- MODULE FramedColumn ----------------------------
(***************************************************************************)
(* A program that holds an array of integers and builds it block-wise or   *)
(* affine, asks, frees, and puts a block-wise column in a file.  The       *)
(* queries read the built or loaded structure only; the properties compare *)
(* them with the array.                                                    *)
(***************************************************************************)
EXTENDS BlockPlan, BlockFile

CONSTANTS
  UnsignedArrays, SignedArrays,
  BlockSizes,  \* arguments of s2r_blocked_build; 0 stands for the default
  Bounds,      \* thresholds and window ends for unsigned columns
  SignedBounds,
  FileArrays,  \* the arrays whose columns are saved
  Rewrites,    \* what a damaged word of the header turns into
  Careful      \* state properties only where the arithmetic of the code does not wrap

ASSUME ArrayAssumption ==
  /\ UnsignedArrays \subseteq Seq(Word) /\ SignedArrays \subseteq Seq(Int64)
  /\ BlockSizes \subseteq Word /\ Bounds \subseteq Word /\ SignedBounds \subseteq Int64
  /\ Careful \in BOOLEAN /\ Rewrites \subseteq Word

\* A column of an array lies in memory: a delta and a block of its own for every element
\* at the most.  And the block sizes of the code itself are far from the top of size_t.
ASSUME RoomAssumption ==
  \A vs \in UnsignedArrays \cup SignedArrays :
    /\ Len(vs) * (6 * Bytes(K) + 2) < Pow(K)
    /\ \A b \in {BlockDefault, Doubled(PlanMax - 1)} : b + Len(vs) <= Pow(K)

VARIABLES
  arr, signed,  \* the array, and whether it is one of int64_t
  blk, aff,     \* an S2RBlocked and an S2RAffine
  built,        \* which of them was built, or loaded from a damaged file ("foreign")
  file,         \* the file of a block-wise column, and how much of it was written
  hurt          \* observer: "no", or which part of the file was damaged since
vars == <<arr, signed, blk, aff, built, file, hurt>>
onDisk == <<file, hurt>>

Init ==
  /\ \/ signed = FALSE /\ arr \in UnsignedArrays
     \/ signed = TRUE  /\ arr \in SignedArrays
  /\ blk = NoBlocks /\ aff = NoAffine /\ built = "none"
  /\ file = NoFile /\ hurt = "no"

-----------------------------------------------------------------------------
(* Every refused allocation of a block-wise build frees all the others and  *)
(* leaves a zeroed structure.  One form at a time: they share no state.     *)
(* Bound: once there is a file, columns come from it.                       *)

Unbuilt == built = "none" /\ ~file.there
BuildBlocked(block, ok) ==
  /\ Unbuilt
  /\ blk' = IF ok \/ arr = <<>> THEN BlockedOf(arr, signed, block) ELSE NoBlocks
  /\ built' = IF ok \/ arr = <<>> THEN "blocked" ELSE "none"
  /\ aff' = NoAffine
  /\ UNCHANGED <<arr, signed, onDisk>>

\* Careful: no block size the program asks for is so large that counting the blocks wraps.
s2r_blocked_build ==
  \E block \in BlockSizes, ok \in BOOLEAN :
    /\ Careful => block + Len(arr) <= Pow(K)
    /\ BuildBlocked(block, ok)
s2r_blocked_build_auto ==
  \E planned, ok \in BOOLEAN : BuildBlocked(ChooseBlock(arr, signed, planned), ok)

s2r_blocked_free ==
  /\ built \in {"blocked", "foreign"}
  /\ blk' = NoBlocks /\ built' = "none"
  /\ UNCHANGED <<arr, signed, aff, onDisk>>

s2r_affine_build ==
  /\ Unbuilt
  /\ \E ok \in BOOLEAN :
       LET r == AffineOf(arr, signed, ok) IN
       /\ aff' = r.aff
       /\ built' = IF r.ret THEN "affine" ELSE "none"
  /\ UNCHANGED <<arr, signed, blk, onDisk>>

s2r_affine_free ==
  /\ built = "affine" \/ aff # NoAffine
  /\ aff' = NoAffine /\ built' = "none"
  /\ UNCHANGED <<arr, signed, blk, onDisk>>

(* The file.  The save opens it, which empties it, and writes; the program  *)
(* can die at any byte, and what fclose could not write is lost unreported. *)

s2r_blocked_save ==
  /\ built = "blocked" /\ arr \in FileArrays
  /\ ~file.there   \* bound: one save
  /\ \E pad \in {0, Pow(1) - 1} :
       LET img == Image(blk, pad) IN \E n \in 0 .. Whole(img) : file' = Stored(img, n)
  /\ hurt' = "no"
  /\ UNCHANGED <<arr, signed, blk, aff, built>>

s2r_blocked_load ==
  /\ built = "none"
  /\ \E ok \in BOOLEAN :
       LET r == LoadBlocked(file, ok) IN
       /\ blk' = r.blk
       /\ built' = IF ~r.ret THEN "none" ELSE IF hurt = "no" THEN "blocked" ELSE "foreign"
  /\ aff' = NoAffine
  /\ UNCHANGED <<arr, signed, onDisk>>

\* The four numbers of the header rewritten, all at once; or one other place altered.
Rewritten(img, n, b, nb, pb) ==
  [img EXCEPT !.head.count = n, !.head.block = b, !.head.nblocks = nb, !.head.bytes = pb]
Renumbered(img) ==
  {Rewritten(img, n, b, nb, pb) :
     n \in Rewrites \cup {img.head.count}, b \in Rewrites \cup {img.head.block},
     nb \in Rewrites \cup {img.head.nblocks}, pb \in Rewrites \cup {img.head.bytes}}
Altered(img) ==
     {[img EXCEPT !.head.magic = "unknown"], [img EXCEPT !.head.signed = ~@]}
  \cup {[img EXCEPT !.head.fmt = x] : x \in 1 .. 4}
  \cup {[img EXCEPT !.head.bcls = c] : c \in -K .. K} \cup {[img EXCEPT !.head.pcls = c] : c \in -K .. K}
  \cup {[img EXCEPT !.head.ocls = c] : c \in -K .. K} \cup {[img EXCEPT !.head.scls = c] : c \in -K .. K}
  \cup {[img EXCEPT !.rest[i] = v] : i \in DOMAIN img.rest, v \in Byte}
  \cup {[img EXCEPT !.crc = Crc(Append(img.rest, 0))]}
Damage ==
  /\ built = "none" /\ file.there /\ hurt = "no" /\ file.len = Whole(file.image)
  /\ \/ /\ \E img \in Renumbered(file.image) : file' = Stored(img, file.len)
        /\ hurt' = "header"
     \/ /\ \/ \E img \in Altered(file.image) : file' = Stored(img, file.len)
           \/ file' = Stored(file.image, file.len + 1)
        /\ hurt' = "elsewhere"
  /\ UNCHANGED <<arr, signed, blk, aff, built>>

Next ==
  \/ s2r_blocked_save
  \/ s2r_blocked_load
  \/ Damage
  \/ s2r_blocked_build
  \/ s2r_blocked_build_auto
  \/ s2r_blocked_free
  \/ s2r_affine_build
  \/ s2r_affine_free

Spec == Init /\ [][Next]_vars

-----------------------------------------------------------------------------
\* Scans of the array.
WordAt(i)       == Wrap(arr[i])
Within(lo, hi)  == {i \in DOMAIN arr : lo <= arr[i] /\ arr[i] <= hi}
ScanCount(lo, hi) == Cardinality(Within(lo, hi))
ScanSum(lo, hi) ==
  SumWrapped([i \in DOMAIN arr |-> IF lo <= arr[i] /\ arr[i] <= hi THEN arr[i] ELSE 0])

\* Every value put into a block-wise column comes back, though the bases, strides,
\* offsets and deltas were each narrowed to a class chosen from all the blocks.
BlockedKeepsValues ==
  built = "blocked" =>
    \A i \in DOMAIN arr :
      BlockedGet(blk, i) = WordAt(i) /\ (signed => BlockedGetSigned(blk, i) = arr[i])

\* The deltas of the blocks lie inside the payload, apart from each other, and where
\* an element of their width can be read.
PayloadApart ==
  built = "blocked" =>
    LET stored == {bi \in DOMAIN blk.blocks : blk.blocks[bi].width # 0}
        w(bi)  == Bytes(blk.blocks[bi].width)
        end(bi) == BO(blk, bi) + BlkLen(blk, bi) * w(bi)
    IN  /\ \A bi \in stored : BO(blk, bi) % w(bi) = 0 /\ end(bi) <= blk.bytes
        /\ \A bi, bj \in stored :
             bi < bj => end(bi) <= BO(blk, bj) \/ end(bj) <= BO(blk, bi)

\* What the zone statistics say without looking at the payload is what the payload
\* says: the sum, and for an unsigned column the extremes.
ZoneMapTrue ==
  built = "blocked" =>
    /\ BlockedSum(blk) = SumWrapped(arr) /\ BlockedSumFast(blk) = SumWrapped(arr)
    /\ ~signed /\ arr # <<>> => BlockedMax(blk) = Greatest(arr) /\ BlockedMin(blk) = Least(arr)

\* The rounding up in a window wraps for a lower end within one stride of the top.
RoundsUp(base, st, lo) == lo <= base \/ lo - base + st - 1 < Pow(K)
BlocksRoundUp(lo) == \A bi \in DOMAIN blk.blocks : RoundsUp(BB(blk, bi), BT(blk, bi), lo)

\* The predicates of an unsigned block-wise column, by zone, by bisection or by
\* kernel, answer what a scan answers.
BlockedPredicates ==
  built = "blocked" /\ ~signed =>
    /\ \A t \in Bounds :
         /\ BlockedCountGt(blk, t) = ScanCount(t + 1, Pow(K))
         /\ BlockedCountLt(blk, t) = ScanCount(0, t - 1)
    /\ \A lo, hi \in Bounds :
         (Careful => BlocksRoundUp(lo)) =>
           /\ BlockedCountRange(blk, lo, hi) = ScanCount(lo, hi)
           /\ BlockedSumIf(blk, lo, hi) = ScanSum(lo, hi)
           /\ lo = hi => BlockedCountEq(blk, lo) = ScanCount(lo, lo)

\* A sum over a window of a signed block-wise column: right while neither the column
\* nor the window has values on both sides of zero.
OneSign(vs) == (\A v \in vs : v < 0) \/ (\A v \in vs : v >= 0)
SignedWindowSums ==
  built = "blocked" /\ signed =>
    \A lo, hi \in SignedBounds :
      (Careful => OneSign({arr[i] : i \in DOMAIN arr} \cup {lo, hi}) /\ BlocksRoundUp(U64(lo)))
        => BlockedSumIfSigned(blk, lo, hi) = I64(ScanSum(lo, hi))

\* An affine column gives back every value, and its closed forms answer what scans of
\* the array answer, for either sign.
AffineExact ==
  built = "affine" =>
    /\ \A i \in DOMAIN arr :
         AffineGet(aff, i) = WordAt(i) /\ (signed => AffineGetSigned(aff, i) = arr[i])
    /\ AffineSum(aff) = SumWrapped(arr)
    /\ \A lo, hi \in (IF signed THEN SignedBounds ELSE Bounds) :
         (Careful => RoundsUp(aff.base, aff.stride, lo)) =>
           /\ AffineCountRange(aff, lo, hi) = ScanCount(lo, hi)
           /\ AffineSumIf(aff, lo, hi) = ScanSum(lo, hi)
           /\ lo = hi =>
                /\ AffineCountEq(aff, lo) = ScanCount(lo, lo)
                /\ AffineCountGt(aff, lo) = ScanCount(lo + 1, Pow(K))
                /\ AffineCountLt(aff, lo) = ScanCount(-Pow(K), lo - 1)

\* The planner prices exactly what a build makes, for every candidate.  Not where it
\* merges a constant cell (its step is taken for 1) or minima on both sides of zero.
ConstantCell ==
  \E c \in 1 .. CeilDiv(Len(arr), Grain) : LET p == Piece(arr, Grain, c) IN Least(p) = Greatest(p)
PlanTrusted ==
  \/ Len(arr) <= Grain
  \/ ~ConstantCell /\ (signed => OneSign({arr[i] : i \in DOMAIN arr}))
Foretells(p, b) ==
  /\ p.bytes = BlockedBytes(b) /\ p.nblocks = Len(b.blocks) /\ p.has_stride = b.has_stride
  /\ p.nconst = Cardinality({bi \in DOMAIN b.blocks : b.blocks[bi].width = 0})
PlanExact ==
  Unbuilt /\ (Careful => PlanTrusted) =>
    LET plan == Plan(arr, signed) IN
    \A k \in DOMAIN plan : Foretells(plan[k], BlockedOf(arr, signed, plan[k].block))

\* The block size chosen builds the smallest column of all the candidates, and the
\* advice names a form of exactly the promised bytes, never more than the array's.
BuiltBytes(block) == BlockedBytes(BlockedOf(arr, signed, block))
Smallest(bytes, plan) == \A k \in DOMAIN plan : bytes <= BuiltBytes(plan[k].block)
Kept(r) ==
  /\ r.best_bytes <= r.raw_bytes
  /\ r.best = "affine" => r.best_bytes = AffineBytes(AffineOf(arr, FALSE, TRUE).aff)
  /\ r.best = "blocked" => r.best_bytes = BuiltBytes(r.block)
AdviceHonest ==
  Unbuilt /\ PlanTrusted =>
    /\ Smallest(BuiltBytes(ChooseBlock(arr, signed, TRUE)), Plan(arr, signed))
    /\ ~signed => \A ok1, planned, ok2 \in BOOLEAN : Kept(Recommend(arr, ok1, planned, ok2))

\* A block-wise file that is torn, or damaged anywhere but in the four numbers of its
\* header, gives the saved column or nothing; one that is neither is always accepted.
Gives(b) ==
  b.count = Len(arr) /\ b.signed = signed /\ \A i \in DOMAIN arr : BlockedGet(b, i) = WordAt(i)
BlockFileFaithful ==
  file.there /\ hurt # "header" =>
    LET r == LoadBlocked(file, TRUE) IN
    /\ r.ret => Gives(r.blk)
    /\ hurt = "no" /\ file.len = Whole(file.image) => r.ret

\* Those numbers are outside the checksum.  Whatever they were turned into, a column
\* that is accepted can be read: each element has a block, and its delta lies in the
\* payload.  (Not so where the rounding up of the number of blocks wraps.)
Readable(b) ==
  \A i \in 1 .. b.count :
    LET bi == (i - 1) \div b.block + 1 IN
    /\ bi \in DOMAIN b.blocks
    /\ LET w == Bytes(b.blocks[bi].width) IN
       w # 0 => BO(b, bi) + (((i - 1) % b.block) + 1) * w <= b.bytes
CountRounds(h) == h.count + h.block <= Pow(K)
BlockFileReadable ==
  file.there /\ (Careful => CountRounds(file.image.head)) =>
    LET r == LoadBlocked(file, TRUE) IN r.ret => Readable(r.blk)

=============================================================================
