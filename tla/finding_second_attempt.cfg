SPECIFICATION Spec
CONSTANTS
  Regions = {TRUE}
  InitialWords = 2
  YoungMaxBefore = 0
  YoungMax = 0
  OldMax = 0
  Sizes = {1, 2}
  Cells = {c1, c2}
  Memory = 12
  Places = {1, 4, 5, 9}
  c1 = c1
  c2 = c2
VIEW View
CHECK_DEADLOCK FALSE
INVARIANT SecondAttemptPossible
