SPECIFICATION Spec
CONSTANTS
  Fds = {c1, c2, c3}
  ChanIds = {r1, r2}
  Nobody = Nobody
  Words = {"", n1, n2, n3, "#a,z", "#b"}
  Empty = ""
  Nicks = {n1, n2, n3}
  Channames = {"#a,z", "#b"}
  FullNames = {}
  Overlong <- MCOverlong
  Folded <- Folding
  Params <- Lists
  Trapping <- MCTrapping
  Tokens <- MCTokens
  Lists = {"#a", "#a,z", "#b,x#a,z"}
SYMMETRY IdsAndNicks
INVARIANTS
  TypeOK
  HandlerHasSender
  MembershipAgrees
  NoStaleReferences
  SingleEntries
  RegistrationGates
  OutbufsAreLive
PROPERTIES
  DepartureAnnounced
  RenameAnnounced
  PartedChannelVanishes
  OneMemberMoves
  ImplementsPresence
CHECK_DEADLOCK FALSE
