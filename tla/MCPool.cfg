\* Every call in every order.
SPECIFICATION Spec
CONSTANTS
  K = 2
  Half <- TwoHalves
  ElemBytes <- TwoElemBytes
  Align = 2
  InitialCap = 2
  SizeMax = 35
  Memory = 6
  EpochMod = 1
  Args = {0, 1, 2}
  CapArgs = {0, 1, 3, 20}
  Arrays <- SomeArrays
  BitAnd <- BinaryAnd
  Transforms <- Affine2
  Careful = FALSE
INVARIANTS TypeOK BufferSound
PROPERTY ClassChangeKeepsValues
CONSTRAINT Bounded
