---------------------------- MODULE MCStoredFile ----------------------------
(* Instances of StoredFile and PortFiles for TLC. *)
EXTENDS PortFiles

TwoHalves == <<1, 2>>
TwoElemBytes == <<1, 2>>
SomeArrays == {<<>>, <<1, 0>>, <<3>>}
OneArray == {<<3>>}

\* The second file is there to be saved to from a column mapped from the first, and
\* the other way round: damaged files, and torn ones, are looked at in the first.
Bounded ==
  disk["b"].there =>
    /\ disk["b"].image.magic = "V33" /\ (writing = "b" \/ Intact("b"))
    /\ damage.left = MaxDamage
=============================================================================
