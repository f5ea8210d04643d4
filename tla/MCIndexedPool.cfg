\* An index over a pool; the epoch wraps after four writes.
SPECIFICATION IndexSpec
CONSTANTS
  K = 2
  Half <- TwoHalves
  ElemBytes <- TwoElemBytes
  Align = 2
  InitialCap = 2
  SizeMax = 35
  Memory = 6
  EpochMod = 4
  Args = {0, 3}
  CapArgs = {0, 3}
  Arrays <- SomeArrays
  BitAnd <- BinaryAnd
  Transforms <- Affine2
  Careful = TRUE
  IndexClasses = {1, 2}
INVARIANT IndexExact
CONSTRAINT IndexBounded
