---------------------------- MODULE MCLazyCarry ----------------------------
(* Instances of LazyCarry for TLC. *)
EXTENDS LazyCarry

ThreeHalves == <<1, 2, 4>>
ThreeElemBytes == <<1, 2, 4>>
SomeArrays == {<<>>, <<1, 0>>, <<3, 7>>}

MaxCount == 2
\* A full session is followed while the column is the one it was begun on; stale
\* sessions are looked at with one operation.
Bounded ==
  /\ Len(pool.data) <= MaxCount
  /\ Len(d.ops) = MaxOps => d.ends = EndsOf(pool)

\* call and ret are written by every step and read by none: states that differ
\* in them only have the same future.
View == <<pool, d>>
=============================================================================
