SPECIFICATION Spec
CONSTANTS
  Char <- MCChar
  MaxBase = 4
  MaxText = 2
INVARIANTS
  ConvergedOffBoundary
  EditsExact
CHECK_DEADLOCK FALSE
