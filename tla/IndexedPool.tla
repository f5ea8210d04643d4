---------------------------- MODULE IndexedPool ----------------------------
(***************************************************************************)
(* A pool and the cumulative index built over it by s2r_index_build.       *)
(***************************************************************************)
EXTENDS AskedSizes, IndexOps

VARIABLES
  index,  \* the S2RIndex; NoIndex when there is none
  age     \* epoch bumps since it was built (not in the code: it counts the wraps)
ivars == <<pool, owner, index, age>>

Held == index # NoIndex

-----------------------------------------------------------------------------
s2r_index_build ==
  /\ Live /\ ~Held
  /\ Indexable(pool)
  /\ index' = Built(pool)
  /\ age' = 0
  /\ UNCHANGED vars
s2r_index_free == Held /\ index' = NoIndex /\ age' = 0 /\ UNCHANGED vars

\* A caller frees the index before the pool is released or replaced.  While an
\* index is held, a careful caller makes none of the writes that leave the epoch
\* where it was.
Call ==
  \/ ~Held /\ \E ok \in BOOLEAN : Lifecycle(ok)
  \/ \E ok \in BOOLEAN : Resizes(ok) \/ Appends(ok) \/ ClassChanges(ok)
  \/ Writes
  \/ (Careful => ~Held) /\ BareWrites
  \/ \E i \in DOMAIN pool.data :
       (Careful /\ Held => i # Count(pool)) /\ s2r_remove_swap(i)
  \/ \E ok \in BOOLEAN :
       /\ Careful /\ Held /\ Count(pool) > 1 => RunStarts(pool) # {1}
       /\ s2r_unique_sorted(ok)
  \/ s2r_sort \/ s2r_mark_sorted

PoolStep ==
  /\ Call
  /\ age' = IF Held THEN age + ((pool'.epoch - pool.epoch) % EpochMod) ELSE 0
  /\ UNCHANGED index

IndexInit == Init /\ index = NoIndex /\ age = 0
IndexNext == s2r_index_build \/ s2r_index_free \/ PoolStep
IndexSpec == IndexInit /\ [][IndexNext]_ivars

-----------------------------------------------------------------------------
CountIn(p, lo, hi) == Cardinality({i \in DOMAIN p.data : lo <= Value(p, i) /\ Value(p, i) <= hi})
Probes == -Half[K] - 1 .. Pow(K)

\* An index never answers for a pool that has changed: whenever it answers a
\* range, greater-than or less-than query, the count is the one a scan of the
\* pool as it is NOW would return, provided the 32-bit epoch has not gone round
\* since the index was built.
IndexExact ==
  Held /\ age < EpochMod =>
    /\ \A lo, hi \in Probes :
         LET q == CountRange(index, pool, lo, hi) IN q.ok => q.n = CountIn(pool, lo, hi)
    /\ \A thr \in Probes :
         /\ LET q == CountGt(index, pool, thr) IN q.ok => q.n = CountIn(pool, thr + 1, Pow(K))
         /\ LET q == CountLt(index, pool, thr) IN q.ok => q.n = CountIn(pool, -Half[K], thr - 1)

=============================================================================
