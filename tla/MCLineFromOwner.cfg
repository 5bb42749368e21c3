SPECIFICATION Spec
CONSTANTS
  Fds = {c1, c2}
  ChanIds = {r1, r2}
  Nobody = Nobody
  Words = {"", n1, n2, "y,z", "#a"}
  Empty = ""
  Nicks = {n1, n2}
  Channames = {"#a"}
  FullNames = {}
  Overlong <- MCOverlong
  Folded <- Folding
  Params <- Lists
  Trapping <- MCTrapping
  Tokens <- MCTokens
  Lists = {"#a,xy,z"}
SYMMETRY IdsAndNicks
INVARIANTS
  LineFromOwner
CHECK_DEADLOCK FALSE
