SPECIFICATION Spec
CONSTANTS
  Fds = {c1, c2, c3}
  ChanIds = {r1, r2}
  Nobody = Nobody
  Words = {"", "ann", "ANN", "bob", "#12345678", "#12345678?", "y,z", "#a,z"}
  Empty = ""
  Nicks = {"ann", "ANN", "bob"}
  Channames = {"#12345678"}
  FullNames = {"#12345678"}
  Overlong <- MCOverlong
  Folded <- Folding
  Params <- Lists
  Trapping <- MCTrapping
  Tokens <- MCTokens
  Lists = {"", "#12345678,xy,z", ",xbob,x#a,z"}
SYMMETRY Ids
INVARIANTS
  NicksUnique
  NamesUnique
CHECK_DEADLOCK FALSE
