SPECIFICATION Spec
CONSTANTS
  WordBytes = 1
  YoungWords = 2
  OldWords = 2
  NRoots = 2
  Sizes = {1, 2}
  Offsets = {}
  Program = {"store", "malloc", "collect", "minor_free", "reset"}
  WatermarkNum = 1
  WatermarkDen = 2
  CopiesUninitialised = FALSE
  Null = Null
VIEW View
INVARIANTS CopyFits ForwardingSound RemsetNotStale NoDangling
