SPECIFICATION Spec
CONSTANTS
  InitialSize = 5
  MaxSize = 11
  Lengths = {0, 1, 2, 3}
INVARIANTS TypeOK StrayBits FindsObjects FindsContainers NoGaps
