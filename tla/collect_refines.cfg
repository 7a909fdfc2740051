SPECIFICATION FairSeenBoundedSpec
CONSTANTS
  WordBytes = 1
  YoungWords = 2
  OldWords = 4
  NRoots = 2
  Sizes = {1, 2}
  Offsets = {1}
  Program = {"clear", "forget", "derive", "load", "store", "memcpy", "malloc", "collect", "major_collect", "minor_free", "reset"}
  WatermarkNum = 1
  WatermarkDen = 2
  CopiesUninitialised = FALSE
  Null = Null
  Unknown = Unknown
  MaxOps = 5
INVARIANTS NoDangling RememberedSetComplete
PROPERTIES ImplementsProgramHeap CollectionEnds
