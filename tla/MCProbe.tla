------------------------------ MODULE MCProbe ------------------------------
(* Instances of Probe for TLC. *)
EXTENDS Probe

ThreeHalves == <<2, 8, 128>>
ThreeElemBytes == <<1, 2, 4>>

\* Narrow and indexable; another of its length and class, constant; the whole width, with
\* two values apart in nothing but their highest digit, and in steps when it is cut short.
SomeColumns == {<<1, 2, 3>>, <<3, 3, 3>>, <<4, 132, 4, 255>>}
SomeLengths == {0, 3, 4}
SomeAsked == {0, 2, 4, 127, 132, 255}
=============================================================================
