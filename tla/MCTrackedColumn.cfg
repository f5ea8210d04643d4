\* The adaptive interface over three classes implements a column of integers.
SPECIFICATION TrackedSpec
CONSTANTS
  K = 3
  Half <- ThreeHalves
  ElemBytes <- ThreeElemBytes
  Align = 4
  InitialCap = 2
  SizeMax = 119
  Memory = 12
  EpochMod = 1
  Args = {0, 3, 6, 7}
  CapArgs = {0, 3}
  TrackedCaps = {0}
  Arrays <- SomeArrays
PROPERTIES ImplementsColumn HealingIsComplete
INVARIANT RangeTrue
CONSTRAINT Bounded
