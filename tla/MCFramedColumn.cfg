\* Block-wise and affine columns over every array of up to four values, and the planner.
SPECIFICATION Spec
CONSTANTS
  K = 3
  Half <- ThreeHalves
  ElemBytes <- ThreeElemBytes
  Align = 8
  InitialCap = 2
  SizeMax = 543
  Memory = 64
  EpochMod = 1
  BlockDefault = 4
  BSearchMin = 3
  Grain = 2
  PlanMax = 3
  Largest = 4
  UnsignedArrays <- SomeUnsigned
  SignedArrays <- SomeSigned
  BlockSizes <- SomeSizes
  Bounds <- SomeBounds
  SignedBounds <- SomeSignedBounds
  FileArrays <- SomeSaved
  Rewrites <- SomeRewrites
  Careful = TRUE
INVARIANTS
  BlockedKeepsValues
  PayloadApart
  ZoneMapTrue
  BlockedPredicates
  SignedWindowSums
  AffineExact
  PlanExact
  AdviceHonest
  BlockFileFaithful
  BlockFileReadable
