SPECIFICATION StringSpec
CONSTANTS
  NUL = NUL
  Delims = {comma}
  StringLetters = {a, b}
  MaxLen = 6
  MaxStale = 2
INVARIANTS
  LoneNameIsToken
CHECK_DEADLOCK FALSE
