------------------------------- MODULE MCPool -------------------------------
(* Instances of Pool for TLC. *)
EXTENDS Pool

\* Two classes: one bit in one byte, two bits in two bytes.
TwoHalves == <<1, 2>>
TwoElemBytes == <<1, 2>>

BinaryAnd[a \in Word, b \in Word] ==
  IF a = 0 \/ b = 0 THEN 0
  ELSE (a % 2) * (b % 2) + 2 * BinaryAnd[a \div 2, b \div 2]
SomeArrays == {<<>>, <<1>>, <<0, 1>>, <<1, 0>>, <<3, 1>>, <<1, 1>>, <<2, 0, 3>>}
Affine2 == {[x \in Word |-> (2 * x + 1) % Pow(K)]}

\* Columns of up to three elements are explored further, and histories that
\* leaked at most one block.
MaxCount == 3
MaxHeap == 1
Bounded == Count(pool) <= MaxCount /\ pool.heap <= MaxHeap
=============================================================================
