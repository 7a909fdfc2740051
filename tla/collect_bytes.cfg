SPECIFICATION Spec
CONSTANTS
  WordBytes = 2
  YoungWords = 2
  OldWords = 2
  NRoots = 2
  Sizes = {1, 3}
  Offsets = {1, 2}
  Program = {"forget", "derive", "store", "memcpy", "malloc", "collect"}
  WatermarkNum = 1
  WatermarkDen = 2
  CopiesUninitialised = FALSE
  Null = Null
VIEW View
CHECK_DEADLOCK FALSE
INVARIANTS TypeOK BitmapMatchesFree CopyFits ForwardingSound GraphPreserved NoDangling
