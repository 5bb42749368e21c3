---------------------------- MODULE MCIrcProto ----------------------------
(***************************************************************************)
(* The constants of IrcProto for TLC.  Parameters are strings; what        *)
(* splitByDelimStr makes of each is tabulated, and the table is checked    *)
(* against Tokenizer.                                                      *)
(***************************************************************************)
EXTENDS IrcProto

CONSTANT Lists   \* the parameters this run uses

FullName == "#12345678"
Stray == "#12345678?"
Ids == Permutations(Fds) \cup Permutations(ChanIds)
IdsAndNicks == Ids \cup Permutations(Nicks)

MCFolded(w) == IF w = "ANN" THEN "ann" ELSE w
Folding == [w \in Nicks |-> MCFolded(w)]
MCOverlong == [w \in FullNames |-> Stray]

(* What is behind a parameter in the line: nothing that is known.          *)
Text == INSTANCE Tokenizer WITH NUL <- "NUL", Delims <- {","}

Spelling ==
  ("" :> <<>>) @@
  ("y" :> <<"y">>) @@
  ("bob" :> <<"b", "o", "b">>) @@
  ("#a" :> <<"#", "a">>) @@
  ("#b" :> <<"#", "b">>) @@
  ("#c" :> <<"#", "c">>) @@
  ("y,z" :> <<"y", ",", "z">>) @@
  ("#a,z" :> <<"#", "a", ",", "z">>) @@
  (FullName :> <<"#", "1", "2", "3", "4", "5", "6", "7", "8">>) @@
  ("#a,xy,z" :> <<"#", "a", ",", "x", "y", ",", "z">>) @@
  ("#b,xy,z" :> <<"#", "b", ",", "x", "y", ",", "z">>) @@
  ("#c,xy,z" :> <<"#", "c", ",", "x", "y", ",", "z">>) @@
  (",xbob,x#a,z" :> <<",", "x", "b", "o", "b", ",", "x", "#", "a", ",", "z">>) @@
  ("#b,x#a,z" :> <<"#", "b", ",", "x", "#", "a", ",", "z">>) @@
  (FullName \o ",xy,z" :>
     <<"#", "1", "2", "3", "4", "5", "6", "7", "8", ",", "x", "y", ",", "z">>)

Table ==
  ("" :> <<>>) @@
  ("#a,z" :> <<"#a,z">>) @@
  ("#a,xy,z" :> <<"#a", "y,z">>) @@
  ("#b,xy,z" :> <<"#b", "y,z">>) @@
  ("#c,xy,z" :> <<"#c", "y,z">>) @@
  (",xbob,x#a,z" :> <<"", "bob", "#a,z">>) @@
  ("#b,x#a,z" :> <<"#b", "#a,z">>) @@
  (FullName \o ",xy,z" :> <<FullName, "y,z">>)

Split(list) == Text!splitByDelimStr(Spelling[list] \o <<"NUL">>)
MCTrapping == Lists \cap {"#a"}
MCTokens == [list \in Lists \ MCTrapping |-> Table[list]]

ASSUME TableIsSplit ==
  /\ \A list \in MCTrapping : Split(list).outcome = "trap"
  /\ \A list \in DOMAIN MCTokens :
       /\ Split(list).outcome =
            IF MCTokens[list] = <<>> THEN "NULL" ELSE "tokens"
       /\ Split(list).tokens =
            [i \in DOMAIN MCTokens[list] |-> Spelling[MCTokens[list][i]]]

=============================================================================
