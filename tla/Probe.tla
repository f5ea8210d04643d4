------------------------------- MODULE Probe -------------------------------
(***************************************************************************)
(* The engine of the browser page and of s2r-probe.exe                     *)
(* (web/src/s2r_probe.c): a column is put into its buffer, analysed, and   *)
(* then asked about by several paths at once.  It composes the flat pool   *)
(* with its summary, its order and its index, the affine and the           *)
(* block-wise form, the planner and the block-wise file; the structures    *)
(* live from one analysis to the next.                                     *)
(*                                                                         *)
(* s2r_probe_run is one call.  Its numbered sections are the actions here, *)
(* and the writing of the file, down to the loop that grows its buffer; no *)
(* other call comes between them (section).                                *)
(***************************************************************************)
EXTENDS BlockPlan, WebFiles

CONSTANTS
  Columns,       \* what callers write into the buffer
  Lengths,       \* how much of it they say is the column
  IndexClasses,
  MaxRefusals,   \* bound: allocations refused during one analysis
  Asked,         \* arguments of the queries, as uint64_t
  Careful        \* windows are asked for with the lower end first

ASSUME ProbeAssumption ==
  /\ Columns \subseteq Seq(Word) /\ Lengths \subseteq Nat /\ Asked \subseteq Word
  /\ MaxRefusals \in Nat /\ Careful \in BOOLEAN

Flat  == INSTANCE QueryOps WITH BSearchMinBytes <- BSearchMin
Index == INSTANCE IndexOps

VARIABLES
  g_v, g_n, g_signed,           \* the buffer (<<>> for a null pointer) and what of it is the column
  g_pool, g_aff, g_blk, g_idx,  \* the forms; a zeroed one stands for a flag that is 0
  g_best,
  report,
  file,                         \* col.s2r, in memory
  section, n,                   \* the section the analysis is in, and its argument
  cap,                          \* the capacity that fwrite is working out
  refused,                      \* bound: refusals so far in this analysis
  told, kept                    \* observers: the column of the report, the column last written out
structures == <<g_pool, g_aff, g_blk, g_idx>>
column     == <<g_v, g_n, g_signed>>
call       == <<section, n, cap>>
vars == <<column, structures, g_best, report, file, call, refused, told, kept>>

g_pool_ok == g_pool.size # 0
g_aff_ok  == g_aff # NoAffine
g_blk_ok  == g_blk # NoBlocks
g_idx_ok  == g_idx # Index!NoIndex

Blank ==
  [err |-> FALSE, n |-> 0, distinct |-> 0, flat |-> 0, affine |-> 0, blocked |-> 0, best |-> 0,
   best_bytes |-> 0, never_expands |-> FALSE, saved |-> FALSE, crc_ok |-> FALSE,
   roundtrip |-> FALSE, verified |-> FALSE]

Read(vs, signed)  == [i \in DOMAIN vs |-> IF signed THEN I64(vs[i]) ELSE vs[i]]
Subject           == SubSeq(g_v, 1, g_n)
Ints              == Read(Subject, g_signed)
NoColumn          == [words |-> <<>>, signed |-> FALSE]
AsColumn          == [words |-> Subject, signed |-> g_signed]

\* An allocation: it may be refused while the bound allows.
Ask(ok) == refused' = refused + (IF ok THEN 0 ELSE 1) /\ refused' <= MaxRefusals

-----------------------------------------------------------------------------
(* Distinct values: a sorted copy is walked for changes.                    *)

Digit(w, p) == (w \div Pow(1) ^ p) % Pow(1)
RadixPass(a, p) ==   \* stable: equal digits keep their order
  LET before(i) == {j \in DOMAIN a : Digit(a[j], p) < Digit(a[i], p)
                                     \/ (Digit(a[j], p) = Digit(a[i], p) /\ j < i)}
      at == [i \in DOMAIN a |-> Cardinality(before(i)) + 1]
  IN  [k \in DOMAIN a |-> a[CHOOSE i \in DOMAIN a : at[i] = k]]
PassesShort == ElemBytes[K] - 1   \* mutant: the most significant digit is not looked at
Passes == ElemBytes[K]
radix_u64(a) ==
  LET s[p \in 0 .. Passes] == IF p = 0 THEN a ELSE RadixPass(s[p - 1], p - 1) IN s[Passes]

\* The replacement of qsort in s2r_rt.c: a heap over positions counted from 0.
SwappedAt(a, i, j) == [a EXCEPT ![i] = a[j], ![j] = a[i]]
rt_sift(arr, from, end) ==
  LET s[a \in Seq(Word), root \in Nat] ==
        LET left  == 2 * root + 1
            child == IF left + 1 < end /\ a[left + 1] < a[left + 2] THEN left + 1 ELSE left
        IN  IF left >= end \/ a[root + 1] >= a[child + 1] THEN a
            ELSE s[SwappedAt(a, root + 1, child + 1), child]
  IN  s[arr, from]
qsort(a) ==
  LET len     == Len(a)
      heap[k \in 0 .. len \div 2] ==
        IF k = 0 THEN a ELSE rt_sift(heap[k - 1], len \div 2 - k, len)
      sorted[k \in 0 .. len] ==
        IF k = 0 THEN heap[len \div 2]
        ELSE IF k = len THEN sorted[k - 1]
        ELSE rt_sift(SwappedAt(sorted[k - 1], 1, len - k + 1), 0, len - k)
  IN  sorted[len]

\* Signed words have their sign bit turned over first, which puts them in order.
Shifted(vs, signed) == [i \in DOMAIN vs |-> IF signed THEN Wrap(vs[i] + Half[K]) ELSE vs[i]]
Distinct(vs, signed, scratch) ==
  LET c == Shifted(vs, signed)
      s == IF scratch THEN radix_u64(c) ELSE qsort(c)
  IN  1 + Cardinality({i \in 2 .. Len(s) : s[i] # s[i - 1]})

-----------------------------------------------------------------------------
Init ==
  /\ g_v = <<>> /\ g_n = 0 /\ g_signed = FALSE
  /\ g_pool = Zeroed(0) /\ g_aff = NoAffine /\ g_blk = NoBlocks /\ g_idx = Index!NoIndex
  /\ g_best = 0 /\ report = Blank /\ file = NoBuffer
  /\ section = "idle" /\ n = 0 /\ cap = 0 /\ refused = 0
  /\ told = NoColumn /\ kept = NoColumn

reset_most ==   \* mutant: the index stays
  g_pool' = Zeroed(0) /\ g_aff' = NoAffine /\ g_blk' = NoBlocks /\ UNCHANGED g_idx
reset_state ==
  g_pool' = Zeroed(0) /\ g_aff' = NoAffine /\ g_blk' = NoBlocks /\ g_idx' = Index!NoIndex

\* A new buffer, and the caller's words in it; <<>> when there is no memory for it,
\* or none was asked for.
s2r_probe_input ==
  /\ section = "idle"
  /\ reset_state
  /\ g_v' \in Columns \cup {<<>>} /\ g_n' = Len(g_v')
  /\ UNCHANGED <<g_signed, g_best, report, file, call, refused, told, kept>>

\* Up to the first section: the report is emptied, and the arguments are looked at.
s2r_probe_run ==
  /\ section = "idle"
  /\ \E m \in Lengths, is_signed \in BOOLEAN :
       IF g_v = <<>> \/ m = 0 \/ m > g_n
       THEN /\ report' = [Blank EXCEPT !.err = TRUE]
            /\ told' = NoColumn
            /\ UNCHANGED <<structures, g_n, g_signed, section, n>>
       ELSE /\ report' = [Blank EXCEPT !.n = m, !.verified = TRUE]
            /\ reset_state
            /\ g_n' = m /\ n' = m /\ g_signed' = is_signed
            /\ told' = [words |-> SubSeq(g_v, 1, m), signed |-> is_signed]
            /\ section' = "truth"
  /\ refused' = 0
  /\ UNCHANGED <<g_v, g_best, file, cap, kept>>

At(s)       == section = s /\ UNCHANGED <<column, n, told>>
In(s, next) == At(s) /\ section' = next /\ UNCHANGED cap

\* A failed copy reports no distinct values; failed scratch space, sorts in place.
Truth ==
  /\ In("truth", "flat")
  /\ \E ok, scratch \in BOOLEAN :
       /\ Ask(ok /\ scratch)
       /\ report' = [report EXCEPT !.distinct =
                       IF ok THEN Distinct(Subject, g_signed, scratch) ELSE 0]
  /\ UNCHANGED <<structures, g_best, file, kept>>

\* The pool is filled by s2r_set, its count set after it; then summed up, marked and
\* indexed.  `same` is the comparison value by value.
FlatOf(ok) ==
  LET vs  == {Ints[i] : i \in DOMAIN Ints}
      new == PoolInit(0, IF g_signed THEN ClassifySigned(vs) ELSE Classify(vs), n, ok)
      c   == Abs(new.pool.size)
      set == [DropFacts(new.pool) EXCEPT !.data = [i \in DOMAIN Subject |-> Raw(c, Subject[i])],
                                         !.epoch = Bump(0, n)]
  IN  [pool |-> MarkSorted(CHOOSE q \in Summarize(set) : TRUE), ret |-> new.ret]
Gives(get, len) == len = n /\ \A i \in 1 .. n : get[i] = Subject[i]
FlatPool ==
  /\ In("flat", "affine")
  /\ \E ok, oki \in BOOLEAN :
       LET r == FlatOf(ok) IN
       /\ Ask(ok /\ oki)
       /\ IF r.ret
          THEN /\ g_pool' = r.pool
               /\ g_idx' = IF oki /\ Index!Indexable(r.pool) THEN Index!Built(r.pool) ELSE g_idx
               /\ report' = [report EXCEPT !.flat = Count(r.pool) * Bytes(r.pool.size),
                    !.verified = @ /\ Gives([i \in 1 .. n |-> U64(Value(r.pool, i))], Count(r.pool))]
          ELSE /\ report' = [report EXCEPT !.flat = n * Bytes(K)]
               /\ UNCHANGED <<g_pool, g_idx>>
  /\ UNCHANGED <<g_aff, g_blk, g_best, file, kept>>

AffineForm ==
  /\ In("affine", "blocks")
  /\ \E ok \in BOOLEAN :
       LET r == AffineOf(Ints, g_signed, ok) IN
       /\ Ask(ok)
       /\ g_aff' = IF r.ret THEN r.aff ELSE g_aff
       /\ report' = IF r.ret
            THEN [report EXCEPT !.affine = AffineBytes(r.aff),
                    !.verified = @ /\ Gives([i \in 1 .. n |-> AffineGet(r.aff, i)], r.aff.count)]
            ELSE [report EXCEPT !.affine = report.flat]
  /\ UNCHANGED <<g_pool, g_blk, g_idx, g_best, file, kept>>

BlockForm ==
  /\ In("blocks", "best")
  /\ \E planned, ok \in BOOLEAN :
       LET b == BlockedOf(Ints, g_signed, ChooseBlock(Ints, g_signed, planned)) IN
       /\ Ask(planned /\ ok)
       /\ g_blk' = IF ok THEN b ELSE g_blk
       /\ report' = IF ok
            THEN [report EXCEPT !.blocked = BlockedBytes(b),
                    !.verified = @ /\ Gives([i \in 1 .. n |-> BlockedGet(b, i)], b.count)
                                   /\ BlockedSumFast(b) = SumWrapped(Subject)]
            ELSE [report EXCEPT !.blocked = report.flat]
  /\ UNCHANGED <<g_pool, g_aff, g_idx, g_best, file, kept>>

\* A form of no bytes stands for one that there is not.
Smaller(best, form, bytes) == IF bytes # 0 /\ bytes < best.bytes THEN [form |-> form, bytes |-> bytes] ELSE best
Choice(r) == Smaller(Smaller([form |-> 0, bytes |-> r.flat], 1, r.affine), 2, r.blocked)
BestForm ==
  /\ In("best", "file")
  /\ g_best' = Choice(report).form
  /\ report' = [report EXCEPT !.best = Choice(report).form, !.best_bytes = Choice(report).bytes,
                              !.never_expands = Choice(report).bytes <= n * Bytes(K)]
  /\ UNCHANGED <<structures, file, refused, kept>>

(* The file.  Everything but the file and the report stays as it is; a save *)
(* that fails is not reported, and leaves what was written of it.           *)

Filing(s) == At(s) /\ UNCHANGED <<structures, g_best>>
Giving_up == section' = "idle" /\ UNCHANGED <<report, cap>>

\* The body is staged first: if that is refused the file is that of an earlier column.
Stage ==
  /\ Filing("file")
  /\ \/ ~g_blk_ok /\ Giving_up /\ UNCHANGED refused
     \/ g_blk_ok /\ Ask(FALSE) /\ Giving_up
     \/ g_blk_ok /\ section' = "open" /\ UNCHANGED <<report, cap, refused>>
  /\ UNCHANGED <<file, kept>>

\* What lies between the parts of the body is a 0 here; FramedColumn lets it be anything.
Open ==
  /\ Filing("open")
  /\ \E ok \in BOOLEAN :
       /\ Ask(ok)
       /\ file' = fopen_w(file, Image(g_blk, 0), ok)
       /\ section' = IF file'.buf THEN "header" ELSE "idle"
  /\ kept' = told
  /\ UNCHANGED <<report, cap>>

\* The writes: the header (with the class byte of the strides), the body, the checksum.
Skip == IF g_blk.has_stride THEN 1 ELSE 0
Words(s) ==
  CASE s = "header" -> HeaderItems + Skip
    [] s = "body"   -> Len(file.image.rest) - Skip
    [] s = "crc"    -> 1
After == [header |-> "body", body |-> "crc", crc |-> "load"]
Write(s) ==
  /\ Filing(s)
  /\ IF Fits(file, Words(s))
     THEN file' = Copied(file, Words(s)) /\ section' = After[s] /\ UNCHANGED cap
     ELSE cap' = file.cap /\ section' = "grow " \o s /\ UNCHANGED file
  /\ UNCHANGED <<report, refused, kept>>
Grow(s) ==
  /\ Filing("grow " \o s) /\ cap < file.pos + Words(s)
  /\ cap' = Growth(cap)
  /\ UNCHANGED <<file, section, report, refused, kept>>
Realloc(s) ==
  /\ Filing("grow " \o s) /\ cap >= file.pos + Words(s)
  /\ cap' = 0
  /\ \/ Ask(TRUE) /\ file' = Resized(file, cap) /\ section' = s
     \/ Ask(FALSE) /\ file' = fclose(Failed(file)) /\ section' = "idle"
  /\ UNCHANGED <<report, kept>>

\* Saved; and read back, where the values are compared once more.
LoadBack ==
  /\ Filing("load")
  /\ file' = fclose(fopen_r(fclose(file))) /\ section' = "idle"
  /\ \E ok \in BOOLEAN :
       LET r    == LoadBlocked(Content(file), ok)
           same == Gives([i \in 1 .. n |-> BlockedGet(r.blk, i)], r.blk.count)
           whole == [report EXCEPT !.saved = TRUE]
       IN  /\ Ask(ok)
           /\ report' = IF ~r.ret THEN whole
                ELSE [whole EXCEPT !.crc_ok = TRUE, !.roundtrip = same, !.verified = @ /\ same]
  /\ UNCHANGED <<cap, kept>>

Writes == {"header", "body", "crc"}
Sections ==
  \/ Truth
  \/ FlatPool
  \/ AffineForm
  \/ BlockForm
  \/ BestForm
  \/ Stage
  \/ Open
  \/ \E s \in Writes : Write(s) \/ Grow(s) \/ Realloc(s)
  \/ LoadBack

Next ==
  \/ s2r_probe_input
  \/ s2r_probe_run
  \/ Sections

(* The analysis is a call: once begun it goes on, and the caller waits.  A   *)
(* section is straight-line code or a loop over the column and is left in    *)
(* the end; the loop that grows the buffer takes its iterations, and nothing *)
(* is presumed of their number.                                              *)
Loops == {"grow " \o s : s \in Writes}
Straight ==
  {"truth", "flat", "affine", "blocks", "best", "file", "open", "load"} \cup Writes
Leaves  == section \in Straight /\ section' \in Straight \cup Loops \cup {"idle"}
Growing == \E s \in Writes : Grow(s) \/ Realloc(s)

Spec == Init /\ [][Next]_vars /\ WF_section(Leaves) /\ WF_vars(Growing)

-----------------------------------------------------------------------------
(* The queries; NA is the answer of a path there is not, or that refuses.   *)

NA == -1
Arg(t) == IF g_signed THEN I64(t) ELSE t
Count_naive(lo, hi) == Cardinality({i \in DOMAIN Ints : lo <= Ints[i] /\ Ints[i] <= hi})

count_gt_naive(t) == IF g_v = <<>> THEN NA ELSE Count_naive(Arg(t) + 1, Pow(K))
count_gt_flat(t) ==
  IF ~g_pool_ok THEN NA
  ELSE IF g_signed THEN Flat!CountGtSignedFast(g_pool, I64(t)) ELSE Flat!CountGtFast(g_pool, t)
count_gt_affine(t)  == IF ~g_aff_ok \/ g_signed THEN NA ELSE AffineCountGt(g_aff, t)
count_gt_blocked(t) == IF ~g_blk_ok \/ g_signed THEN NA ELSE BlockedCountGt(g_blk, t)
count_gt_s2r(t) ==
  IF ~g_signed /\ g_best = 2 /\ g_blk_ok THEN BlockedCountGt(g_blk, t)
  ELSE IF ~g_signed /\ g_best = 1 /\ g_aff_ok THEN AffineCountGt(g_aff, t)
  ELSE count_gt_flat(t)

\* The index takes its bounds as int64_t, whatever the column is.
count_range_index(lo, hi) ==
  LET q == Index!CountRange(g_idx, g_pool, I64(lo), I64(hi))
  IN  IF g_idx_ok /\ q.ok THEN q.n ELSE NA
count_range_flat(lo, hi) ==
  IF ~g_pool_ok THEN NA
  ELSE IF g_signed THEN Flat!CountRangeSignedFast(g_pool, I64(lo), I64(hi))
  ELSE Flat!CountRangeFast(g_pool, lo, hi)
count_range_naive(lo, hi) == IF g_v = <<>> THEN NA ELSE Count_naive(Arg(lo), Arg(hi))

-----------------------------------------------------------------------------
\* Between any two calls, after whatever analyses, failed ones too: a path that answers
\* answers what the naive loop finds in the buffer as it is now; none is left over from
\* an earlier column, and none takes a signed bound for an unsigned one.
PathsAgree ==
  section = "idle" =>
    /\ \A t \in Asked :
         {count_gt_flat(t), count_gt_affine(t), count_gt_blocked(t), count_gt_s2r(t)}
           \subseteq {NA, count_gt_naive(t)}
    /\ \A lo, hi \in Asked :
         (Careful => lo <= hi) =>
           {count_range_flat(lo, hi), count_range_index(lo, hi)}
             \subseteq {NA, count_range_naive(lo, hi)}

\* What a finished report says is true: its own checks found nothing; the number of
\* distinct values is exact or not given; the best form was built, has the bytes the
\* report gives it, and neither the other forms nor the array itself are smaller (a
\* constant affine column, of no bytes, is not looked at).
BuiltAs(form, bytes) ==
  CASE form = 0 -> g_pool_ok => bytes = Count(g_pool) * Bytes(g_pool.size)
    [] form = 1 -> g_aff_ok /\ bytes = AffineBytes(g_aff)
    [] form = 2 -> g_blk_ok /\ bytes = BlockedBytes(g_blk)
ReportTrue ==
  section = "idle" /\ report.n # 0 /\ told = AsColumn =>
    /\ report.verified /\ report.never_expands
    /\ report.distinct \in {0, Cardinality({Subject[i] : i \in DOMAIN Subject})}
    /\ g_pool_ok \/ g_blk_ok \/ g_aff_ok => BuiltAs(report.best, report.best_bytes)
    /\ report.best_bytes <= report.n * Bytes(K)
    /\ g_aff_ok /\ ~g_aff.is_const => report.best_bytes <= AffineBytes(g_aff)
    /\ g_blk_ok => report.best_bytes <= BlockedBytes(g_blk)

\* The file in memory: one that a reader accepts is the column last written out, to the
\* last value, whatever was refused since; and the one the page offers for download,
\* because the report says that it was saved, is that of the column reported.
FileOfLastSave ==
  section = "idle" =>
    LET r    == LoadBlocked(Content(file), TRUE)
        ints == Read(kept.words, kept.signed)
    IN  /\ r.ret => /\ r.blk.count = Len(ints) /\ r.blk.signed = kept.signed
                    /\ \A i \in DOMAIN ints : BlockedGet(r.blk, i) = kept.words[i]
        /\ report.saved => r.ret /\ kept = told

\* Every analysis ends, the growing of the buffer included.
AnalysisEnds == section # "idle" ~> section = "idle"
=============================================================================
