SPECIFICATION NodeSpec
CONSTANTS
  NodeIDs = {0, 1}
  Blank = Blank
  Bad = Bad
  MAX_CONFIG_FILE_LINES = 2
  MaxFileLines = 3
INVARIANTS
  NodeIsListed
CHECK_DEADLOCK FALSE
