\* A commit and an element pushed since the session began.
SPECIFICATION Spec
CONSTANTS
  K = 3
  Half <- ThreeHalves
  ElemBytes <- ThreeElemBytes
  Align = 4
  InitialCap = 2
  SizeMax = 543
  Memory = 64
  EpochMod = 1
  Args = {0, 3, 7}
  Pushes = {2}
  Arrays <- SomeArrays
  MaxOps = 2
  Careful = TRUE
INVARIANT CommitsExactly
CONSTRAINT Bounded
VIEW View
