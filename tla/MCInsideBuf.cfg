SPECIFICATION ReplySpec
CONSTANTS
  MAX_CONTENT_LENGTH = 20
  SIZE_MAX = 255
  Header = 5
  Words = {1, 16}
  Channames = {1, 4}
  Nicks = {1, 9}
  MaxMembers = 4
  Phrase = 7
INVARIANTS
  InsideBuf
CHECK_DEADLOCK FALSE
