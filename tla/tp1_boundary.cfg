SPECIFICATION Spec
CONSTANTS
  Char <- MCChar
  MaxBase = 2
  MaxText = 1
INVARIANT Converged
CHECK_DEADLOCK FALSE
