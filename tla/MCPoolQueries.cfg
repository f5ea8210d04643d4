\* Every call a careful caller makes, and every query on every pool it reaches;
\* order is used from two bytes on.
SPECIFICATION Spec
CONSTANTS
  K = 2
  Half <- TwoHalves
  ElemBytes <- TwoElemBytes
  Align = 2
  InitialCap = 2
  SizeMax = 35
  Memory = 6
  EpochMod = 1
  Args = {0, 1, 2, 3}
  CapArgs = {0, 1, 3}
  Arrays <- SomeArrays
  BitAnd <- BinaryAnd
  Transforms <- Affine2
  Careful = TRUE
  BSearchMinBytes = 2
  BitmapClasses = {1}
INVARIANTS NoLeak SignAgrees OrderTrue SummaryTrue UnsignedExact SignedExact
CONSTRAINT Bounded
