------------------------------ MODULE QueryOps ------------------------------
(***************************************************************************)
(* The predicate family over a pool, as operators: for each query, what    *)
(* the plain scan returns and how the _fast form reaches it, from the      *)
(* summary, from the recorded order, from the bounds of the class or by    *)
(* the range kernel.  The vector kernels count the same lanes as the       *)
(* scalar one and are not modelled apart.                                  *)
(***************************************************************************)
EXTENDS PoolOps, FiniteSets

CONSTANT BSearchMinBytes   \* S2R_BLK_BSEARCH_MIN_BYTES
ASSUME QueryAssumption == BSearchMinBytes \in Nat

-----------------------------------------------------------------------------
\* Plain scans.  get[i] is the element as s2r_get or s2r_get_signed reads it.
Unsigned(p) == [i \in DOMAIN p.data |-> Get(p, i)]
Signed(p)   == [i \in DOMAIN p.data |-> GetSigned(p, i)]

Within(get, lo, hi) == {i \in DOMAIN get : lo <= get[i] /\ get[i] <= hi}
CountWithin(get, lo, hi) == Cardinality(Within(get, lo, hi))

\* Sum of f over a set of positions.
SumAt(f, is) ==
  LET n == Len(f)
      s[i \in 0 .. n] == IF i = 0 THEN 0 ELSE s[i - 1] + (IF i \in is THEN f[i] ELSE 0)
  IN  s[n]

-----------------------------------------------------------------------------
\* The kernel: one wrapping subtraction and one unsigned comparison per lane.
Offset(p, lo, i) == (p.data[i] - lo) % Pow(Abs(p.size))
Hits(p, lo, span) == {i \in DOMAIN p.data : Offset(p, lo, i) <= Raw(Abs(p.size), span)}
CntRng(p, lo, span) == Cardinality(Hits(p, lo, span))
SumRng(p, lo, span) ==
  LET hits == Hits(p, lo, span)
  IN  [sum |-> SumAt([i \in DOMAIN p.data |-> Offset(p, lo, i)], hits), cnt |-> Cardinality(hits)]

\* Binary search: the number of leading elements of an ordered pool that are
\* below a bound, found by halving [lo, hi).  low: the positions of such elements.
Halved(n, low) ==
  LET s[w \in (0 .. n) \X (0 .. n)] ==
        LET lo == w[1]
            hi == w[2]
            m  == lo + (hi - lo) \div 2
        IN  IF lo >= hi THEN lo ELSE IF m + 1 \in low THEN s[<<m + 1, hi>>] ELSE s[<<lo, m>>]
  IN  s[<<0, n>>]
Lower(get, v) == Halved(Len(get), {i \in DOMAIN get : get[i] < v})
UpperAsLower(get, v) == Lower(get, v)   \* mutant: < where <= is meant
Upper(get, v) == Halved(Len(get), {i \in DOMAIN get : get[i] <= v})

BSearchWorth(p) == "SORTED" \in p.flags /\ Count(p) * Bytes(p.size) >= BSearchMinBytes
Summarized(p)   == "SUMMARY" \in p.flags

-----------------------------------------------------------------------------
\* Unsigned queries.
CountRangeFast(p, lo, hi) ==
  LET top == MaxValue(p.size)
      get == Unsigned(p)
      known == ~IsSigned(p) /\ Summarized(p)
  IN  IF Count(p) = 0 \/ lo > hi THEN 0
      ELSE IF known /\ (hi < p.smin \/ lo > p.smax) THEN 0
      ELSE IF known /\ lo <= p.smin /\ hi >= p.smax THEN Count(p)
      ELSE IF ~IsSigned(p) /\ BSearchWorth(p) THEN Upper(get, hi) - Lower(get, lo)
      ELSE IF lo > top THEN 0
      ELSE CntRng(p, lo, (IF hi > top THEN top ELSE hi) - lo)

CountGtFast(p, thr) ==
  LET top == MaxValue(p.size)
      known == ~IsSigned(p) /\ Summarized(p)
  IN  IF Count(p) = 0 \/ (known /\ thr >= p.smax) THEN 0
      ELSE IF known /\ thr < p.smin THEN Count(p)
      ELSE IF ~IsSigned(p) /\ BSearchWorth(p) THEN Count(p) - Upper(Unsigned(p), thr)
      ELSE IF thr >= top THEN 0
      ELSE CountRangeFast(p, thr + 1, top)

CountLtFast(p, thr) ==
  IF Count(p) = 0 \/ thr = 0 THEN 0 ELSE CountRangeFast(p, 0, thr - 1)

SumIfFast(p, lo, hi) ==
  LET top == MaxValue(p.size)
      r == SumRng(p, lo, (IF hi > top THEN top ELSE hi) - lo)
  IN  IF Count(p) = 0 \/ lo > hi \/ lo > top THEN 0 ELSE Raw(K, r.sum + lo * r.cnt)

\* Signed queries: the same kernel on the raw words.
CountRangeSignedFast(p, lo, hi) ==
  LET min == MinSigned(p.size)
      max == MaxSigned(p.size)
      a == IF lo < min THEN min ELSE lo
      b == IF hi > max THEN max ELSE hi
      get == Signed(p)
  IN  IF Count(p) = 0 \/ lo > hi \/ ~IsSigned(p) THEN 0
      ELSE IF Summarized(p) /\ (hi < I64(p.smin) \/ lo > I64(p.smax)) THEN 0
      ELSE IF Summarized(p) /\ lo <= I64(p.smin) /\ hi >= I64(p.smax) THEN Count(p)
      ELSE IF BSearchWorth(p) THEN Upper(get, hi) - Lower(get, lo)
      ELSE IF lo > max \/ hi < min THEN 0
      ELSE CntRng(p, U64(a), Raw(K, U64(b) - U64(a)))

CountGtSignedFast(p, thr) ==
  IF Count(p) = 0 \/ ~IsSigned(p) THEN 0
  ELSE IF Summarized(p) /\ thr >= I64(p.smax) THEN 0
  ELSE IF Summarized(p) /\ thr < I64(p.smin) THEN Count(p)
  ELSE IF BSearchWorth(p) THEN Count(p) - Upper(Signed(p), thr)
  ELSE IF thr >= MaxSigned(p.size) THEN 0
  ELSE CountRangeSignedFast(p, thr + 1, MaxSigned(p.size))

CountLtFromZero(p, thr) ==   \* mutant: the window starts at 0, as in the unsigned form
  IF Count(p) = 0 \/ ~IsSigned(p) \/ thr <= MinSigned(p.size) THEN 0
  ELSE CountRangeSignedFast(p, 0, thr - 1)
CountLtSignedFast(p, thr) ==
  IF Count(p) = 0 \/ ~IsSigned(p) \/ thr <= MinSigned(p.size) THEN 0
  ELSE CountRangeSignedFast(p, MinSigned(p.size), thr - 1)

SumIfSignedFast(p, lo, hi) ==
  LET min == MinSigned(p.size)
      max == MaxSigned(p.size)
      a == U64(IF lo < min THEN min ELSE lo)
      b == U64(IF hi > max THEN max ELSE hi)
      r == SumRng(p, a, Raw(K, b - a))
  IN  IF Count(p) = 0 \/ lo > hi \/ ~IsSigned(p) \/ lo > max \/ hi < min THEN 0
      ELSE I64(Raw(K, r.sum + a * r.cnt))
=============================================================================
