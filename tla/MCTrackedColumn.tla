-------------------------- MODULE MCTrackedColumn ---------------------------
(* Instances of TrackedColumn for TLC. *)
EXTENDS TrackedColumn

\* Three classes of one, two and three bits, so that a push can skip a class.
ThreeHalves == <<1, 2, 4>>
ThreeElemBytes == <<1, 2, 4>>
SomeArrays == {<<>>, <<1, 0>>, <<3, 1>>, <<7>>}

MaxCount == 3
Bounded == Len(pool.data) <= MaxCount
=============================================================================
