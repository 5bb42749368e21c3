SPECIFICATION Spec
CONSTANTS
  Fds = {c1, c2}
  ChanIds = {r1, r2, r3}
  Nobody = Nobody
  Words = {"", n1, n2, "y,z", "#a", "#b", "#c"}
  Empty = ""
  Nicks = {n1, n2}
  Channames = {"#a", "#b", "#c"}
  FullNames = {}
  Overlong <- MCOverlong
  Folded <- Folding
  Params <- Lists
  Trapping <- MCTrapping
  Tokens <- MCTokens
  Lists = {"#a,xy,z", "#b,xy,z", "#c,xy,z"}
SYMMETRY IdsAndNicks
PROPERTIES
  JoinHeard
CHECK_DEADLOCK FALSE
