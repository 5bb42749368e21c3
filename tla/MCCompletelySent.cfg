SPECIFICATION Spec
CONSTANTS
  MaxLines = 3
  Lengths = {1, 3}
INVARIANT CompletelySent
CHECK_DEADLOCK FALSE
