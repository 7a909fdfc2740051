SPECIFICATION Spec
CONSTANTS
  WordBytes = 1
  YoungWords = 2
  OldWords = 2
  NRoots = 2
  Sizes = {1, 2}
  Offsets = {}
  Program = {"clear", "load", "store", "malloc", "collect", "major_collect"}
  WatermarkNum = 1
  WatermarkDen = 2
  CopiesUninitialised = FALSE
  Null = Null
VIEW View
INVARIANTS GraphPreserved SharingPreserved NoDangling RememberedSetComplete
