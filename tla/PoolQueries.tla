---------------------------- MODULE PoolQueries ----------------------------
(***************************************************************************)
(* Every query on every pool that a sequence of calls can reach.           *)
(***************************************************************************)
EXTENDS AskedSizes, QueryOps, GroupOps

\* The number of different values, as each function finds it.
Distinct == Cardinality({Value(pool, i) : i \in DOMAIN pool.data})
Counted(r) == r.ok => r.n = Distinct
Tallied ==
  Abs(pool.size) = 1 =>
    Cardinality({b \in 0 .. Pow(1) - 1 : ByteCounts(pool)[b] # 0}) = Distinct

\* Whatever facts a pool has recorded, and whichever way an unsigned query takes
\* to its answer, the answer is the plain scan's; and a count of different values,
\* by table, by bitmap or over a sorted copy, is right where it is given.
UnsignedExact ==
  Live =>
    /\ Tallied /\ \A ok \in BOOLEAN : Counted(Nunique(pool, ok))
    /\ \A lo \in Word :
         LET get == Unsigned(pool) IN
         /\ CountGtFast(pool, lo) = CountWithin(get, lo + 1, Pow(K))
         /\ CountLtFast(pool, lo) = CountWithin(get, 0, lo - 1)
         /\ \A hi \in Word :
              /\ CountRangeFast(pool, lo, hi) = CountWithin(get, lo, hi)
              /\ SumIfFast(pool, lo, hi) = Raw(K, SumAt(get, Within(get, lo, hi)))

\* The signed queries, which run the unsigned kernel on two's complement words,
\* answer what a scan of the signed values answers, down to windows that lie
\* across zero or outside the class.
SignedExact ==
  Live /\ IsSigned(pool) =>
    \A lo \in Int64 :
      LET get == Signed(pool) IN
      /\ CountGtSignedFast(pool, lo) = CountWithin(get, lo + 1, Half[K])
      /\ CountLtSignedFast(pool, lo) = CountWithin(get, -Half[K], lo - 1)
      /\ \A hi \in Int64 :
           /\ CountRangeSignedFast(pool, lo, hi) = CountWithin(get, lo, hi)
           /\ SumIfSignedFast(pool, lo, hi) = I64(Raw(K, SumAt(get, Within(get, lo, hi))))
=============================================================================
