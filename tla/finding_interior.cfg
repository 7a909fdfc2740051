SPECIFICATION Spec
CONSTANTS
  WordBytes = 2
  YoungWords = 2
  OldWords = 2
  NRoots = 2
  Sizes = {4}
  Offsets = {3}
  Program = {"malloc", "derive", "collect"}
  WatermarkNum = 1
  WatermarkDen = 2
  CopiesUninitialised = FALSE
  Null = Null
VIEW View
INVARIANT InteriorPointersSurvive
