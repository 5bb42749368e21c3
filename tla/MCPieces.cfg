\* Typed: BEL SP ! # & + , - : @ A ^ _ a z { | }
\* A piece stops where its text, its line or its program ends.
SPECIFICATION PiecesSpec
CONSTANTS
  a = a
  b = b
  delimiter = delimiter
  NUL = NUL
  Objects = {a, b}
  Unwritten = Unwritten
  MaxSize = 6
  ARRAYLIST_INITIAL_CAPACITY = 2
  ARRAYLIST_CAPACITY_DELTA = 2
  MaxLines = 3
  Lengths = {1, 3}
  Delims = {delimiter}
  Letters = {a, b}
  MAX_MSG_LEN = 5
  MaxReceived = 10
  Junk <- MCJunk
  StringLetters = {a, b}
  MaxLen = 6
  MaxStale = 2
  Space = Space
  Colon = Colon
  LineLetters = {a, b}
  MAX_MSG_TOKENS = 2
  LineLength = 7
  Cmds <- MCCmds
  Typed = {7, 32, 33, 35, 38, 43, 44, 45, 58, 64, 65, 94, 95, 97, 122, 123, 124, 125}
  MAX_USERNAME = 2
  MAX_CHANNAME = 3
  NameLength = 4
  MAX_CONTENT_LENGTH = 20
  SIZE_MAX = 255
  Header = 5
  Words = {1, 2, 14, 15, 16, 22}
  Channames = {1, 2, 4}
  Nicks = {1, 2, 3, 9}
  MaxMembers = 12
  Phrase = 7
  NodeIDs = {0, 1}
  Blank = Blank
  Bad = Bad
  MAX_CONFIG_FILE_LINES = 2
  MaxFileLines = 3
  Periods = {0, 7}
  BadNumber = BadNumber
  Unset = Unset
  MaxOptions = 3
INVARIANTS
  TypeOK
  OnePhantomAtMost
  ArrivesInOrder
  LosesHeadsOnly
  WindowOfStream
  NeverMixed
  FullHoldsDelimiter
  FirstTokenExact
  
  ParsedAsWritten
  NickIsOneWord
  OverflowsOnlyByWord
  FullOrComplete
  AsGiven
  RunsAsListed
PROPERTIES
  ImplementsSequence
  StaleSlotsReadable
  LoopEnds
  ImplementsStream
CHECK_DEADLOCK FALSE
