\* The same with any caller.
SPECIFICATION IndexSpec
CONSTANTS
  K = 2
  Half <- TwoHalves
  ElemBytes <- TwoElemBytes
  Align = 2
  InitialCap = 2
  SizeMax = 35
  Memory = 6
  EpochMod = 4
  Args = {0, 3}
  CapArgs = {0, 3}
  Arrays <- SomeArrays
  BitAnd <- BinaryAnd
  Transforms <- Affine2
  Careful = FALSE
  IndexClasses = {1, 2}
INVARIANTS IndexExact
CONSTRAINT IndexBounded
