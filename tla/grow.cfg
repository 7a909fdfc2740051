SPECIFICATION Spec
CONSTANTS
  Regions = {TRUE, FALSE}
  InitialWords = 1
  YoungMaxBefore = 2
  YoungMax = 3
  OldMax = 0
  Sizes = {1, 2}
  Cells = {c1, c2}
  Memory = 13
  Places = {1, 3, 4, 6, 8, 9, 11}
  c1 = c1
  c2 = c2
VIEW View
CHECK_DEADLOCK FALSE
INVARIANTS RegionConsistent RegionBacked PointersFollow PlacesFit
