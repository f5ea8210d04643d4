\* Deferred and safe arithmetic over three classes is exact or refused.
SPECIFICATION Spec
CONSTANTS
  K = 3
  Half <- ThreeHalves
  ElemBytes <- ThreeElemBytes
  Align = 4
  InitialCap = 2
  SizeMax = 543
  Memory = 64
  EpochMod = 1
  Args = {0, 3, 7}
  Pushes = {2}
  Arrays <- SomeArrays
  MaxOps = 2
  Careful = TRUE
INVARIANT DeferredAsEager
PROPERTY NeverWraps
CONSTRAINT Bounded
VIEW View
