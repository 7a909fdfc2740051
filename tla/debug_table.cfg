SPECIFICATION Spec
CONSTANTS
  TblSz = 2
  Hash <- MCHash
  Sites = {s1, s2}
  s1 = s1
  s2 = s2
  Sizes = {1, 2}
  YoungWords = 2
  OldWords = 2
  MaxWords = 3
  Memory = 17
  Places = {1, 4, 6, 10, 14}
SYMMETRY Symmetry
VIEW View
CHECK_DEADLOCK FALSE
INVARIANTS TableComplete ShadowExact SweepHarmless
