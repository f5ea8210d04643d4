\* Every order of allocations, releases and moves in a memory of 40 bytes.
SPECIFICATION Spec
CONSTANTS
  RT_ALIGN = 2
  Page = 8
  AddrSpace = 40
  HeapBase = 3
  FirstEnd = 8
  Sizes = {1, 7, 28, 37, 39}
  Counts = {7, 28}
  MaxBlocks = 3
INVARIANTS
  HeapTypeOK
  BoundaryTags
  BlocksApart
  Coalesced
  FreeListTrue
