--------------------------- MODULE MCPoolQueries ---------------------------
(* Instances of PoolQueries for TLC. *)
EXTENDS PoolQueries

\* One bit in one byte, two bits in two bytes.
TwoHalves == <<1, 2>>
TwoElemBytes == <<1, 2>>
BinaryAnd[a \in Word, b \in Word] ==
  IF a = 0 \/ b = 0 THEN 0
  ELSE (a % 2) * (b % 2) + 2 * BinaryAnd[a \div 2, b \div 2]
SomeArrays == {<<>>, <<1>>, <<0, 1>>, <<1, 0>>, <<3, 1>>, <<1, 1>>, <<2, 0, 3>>, <<3, 0, 2>>}
Affine2 == {[x \in Word |-> (2 * x + 1) % Pow(K)]}

MaxCount == 3
Bounded == Count(pool) <= MaxCount
=============================================================================
