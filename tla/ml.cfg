SPECIFICATION Spec
CONSTANTS
  Width = 6
  Repeats = 2
  MaxLexemes = 5
  MaxIfLexemes = 7
  Programs <- MCPrograms
CHECK_DEADLOCK FALSE
INVARIANTS ParseComplete ParseSound
PROPERTY ImplementsSemantics
