\* Saves, crashes, torn files, damage and every reader.
SPECIFICATION Spec
CONSTANTS
  K = 2
  Half <- TwoHalves
  ElemBytes <- TwoElemBytes
  Align = 2
  InitialCap = 2
  SizeMax = 65
  Memory = 14
  MaxSafeInteger = 6
  EpochMod = 1
  Files = {"a", "b"}
  Arrays <- SomeArrays
  MaxDamage = 1
  Careful = TRUE
INVARIANTS
  LoadsWhatWasSaved
  SavedCanBeLoaded
  ReadersAgree
  OwnershipStaysHome
  FactsStayTrue
  PortsAgree
CONSTRAINT Bounded
