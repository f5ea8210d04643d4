--------------------------- MODULE MCIndexedPool ---------------------------
(* Instances of IndexedPool for TLC. *)
EXTENDS IndexedPool

TwoHalves == <<1, 2>>
TwoElemBytes == <<1, 2>>
BinaryAnd[a \in Word, b \in Word] ==
  IF a = 0 \/ b = 0 THEN 0
  ELSE (a % 2) * (b % 2) + 2 * BinaryAnd[a \div 2, b \div 2]
SomeArrays == {<<>>, <<1, 0>>, <<3, 1>>, <<1, 1>>}
Affine2 == {[x \in Word |-> (2 * x + 1) % Pow(K)]}

\* Columns of up to two elements, and an index kept until the epoch has gone
\* round once.
MaxCount == 2
IndexBounded == Count(pool) <= MaxCount /\ age <= EpochMod
=============================================================================
