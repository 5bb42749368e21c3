SPECIFICATION InSpec
CONSTANTS
  NUL = NUL
  Delims = {delimiter}
  Letters = {a, b}
  MAX_MSG_LEN = 5
  MaxReceived = 7
  a = a
  b = b
  delimiter = delimiter
  Junk <- MCJunk
INVARIANT OnlyLeaversRemoved
CHECK_DEADLOCK FALSE
