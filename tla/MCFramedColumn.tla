--------------------------- MODULE MCFramedColumn ---------------------------
(* Instances of FramedColumn for TLC. *)
EXTENDS FramedColumn

ThreeHalves == <<2, 8, 128>>
ThreeElemBytes == <<1, 2, 4>>

Upto(n, vs) == UNION {[1 .. k -> vs] : k \in 0 .. n}
\* Pairs of blocks of three: deltas of every width, alone and after each other.
InPairs(ts) == {s \o t : s, t \in ts} \cup {s \o SubSeq(t, 1, 2) : s, t \in ts}
Triples == {<<0, 1, 2>>, <<5, 5, 5>>, <<1, 2, 7>>, <<4, 0, 255>>, <<255, 6, 129>>}
SignedTriples == {<<-1, 0, 1>>, <<-4, -4, -4>>, <<2, -3, 7>>, <<127, -128, -1>>, <<-9, -4, -8>>}

SomeUnsigned == Upto(4, {0, 1, 4, 7, 255}) \cup InPairs(Triples)
SomeSigned   == Upto(4, {-128, -4, -1, 2, 127}) \cup InPairs(SignedTriples)
SomeSizes  == {1, 2, 3, 252}   \* 252 + 4 is all the word can count
SomeBounds == {0, 1, 2, 4, 6, 7, 8, 254, 255}
SomeSignedBounds == {-128, -127, -4, -3, -1, 0, 2, 127}

\* Columns to save: none, constant, two widths with a gap between them, steps, signs.
SomeSaved == {<<>>, <<4, 4>>, <<0, 7>>, <<1, 2, 7, 4, 0, 255>>, <<-9, -4, -8, 2, -3, 7>>}
SomeRewrites == {0, 3, 255}
=============================================================================
