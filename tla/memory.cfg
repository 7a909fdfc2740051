SPECIFICATION Spec
CONSTANTS
  YoungWords = 1
  OldWords = 1
  Sizes = {9}
  RemsetSize = 1
  MaxEntries = 14
  Blocks = 14
  Words = {w1, w2, w3}
  Garbage = Garbage
  w1 = w1
  w2 = w2
  w3 = w3
VIEW View
CHECK_DEADLOCK FALSE
INVARIANTS StateBacked TableExact FullOnlyAfterFailure
PROPERTY ImplementsRememberedSet
