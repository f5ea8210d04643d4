\* Analyses of several columns one after another, an allocation refused in each.
SPECIFICATION Spec
CONSTANTS
  K = 3
  Half <- ThreeHalves
  ElemBytes <- ThreeElemBytes
  Align = 8
  InitialCap = 2
  SizeMax = 543
  Memory = 64
  EpochMod = 8
  BlockDefault = 4
  BSearchMin = 3
  Grain = 2
  PlanMax = 3
  Largest = 4
  Lengths <- SomeLengths
  Columns <- SomeColumns
  IndexClasses = {1, 2}
  MaxRefusals = 1
  Asked <- SomeAsked
  FirstCap = 9
  AddrSpace = 128
  Careful = TRUE
INVARIANTS
  PathsAgree
  ReportTrue
  FileOfLastSave
PROPERTY AnalysisEnds
