----------------------------- MODULE ValidNames -----------------------------
(***************************************************************************)
(* isValidNick and isValidChanname: which texts may be names.  A text is   *)
(* the sequence of its character codes, typed one by one out of Typed.     *)
(***************************************************************************)
EXTENDS Naturals, Sequences

CONSTANTS Typed, MAX_USERNAME, MAX_CHANNAME, NameLength

ASSUME NamesAssumption ==
  /\ Typed \subseteq 1 .. 127
  /\ {MAX_USERNAME, MAX_CHANNAME, NameLength} \subseteq Nat \ {0}

isalpha(c) == c \in 65 .. 90 \/ c \in 97 .. 122
isalnum(c) == isalpha(c) \/ c \in 48 .. 57

(* '-' .. '^', '`', '{' and '}'.                                           *)
Special == 45 .. 94 \cup {96, 123, 125}

(* Mutant: the range begins at the comma, one in front of '-'.             *)
isValidNick_FromComma(nick) ==
  /\ Len(nick) \in 1 .. MAX_USERNAME /\ isalpha(nick[1])
  /\ \A i \in DOMAIN nick : isalnum(nick[i]) \/ nick[i] \in {44} \cup Special

isValidNick(nick) ==
  /\ Len(nick) \in 1 .. MAX_USERNAME /\ isalpha(nick[1])
  /\ \A i \in DOMAIN nick : isalnum(nick[i]) \/ nick[i] \in Special

(* The loop looks for bells at channame[0], which is '#' or '&'.           *)
isValidChanname(channame) ==
  /\ channame # <<>> /\ channame[1] \in {35, 38}
  /\ Len(channame) <= MAX_CHANNAME
  /\ \A i \in DOMAIN channame : channame[1] # 7

-----------------------------------------------------------------------------
VARIABLE text

NameInit == text = <<>>
Type ==
  /\ Len(text) < NameLength
  /\ \E c \in Typed : text' = Append(text, c)
NameSpec == NameInit /\ [][Type]_text

(* PRIVMSG and WHO cut their targets at commas and look each up as a nick  *)
(* first and as a channel then, and whoever hears a nick reads it up to    *)
(* the '!' in ":nick!user@host": a nick that is accepted survives all of   *)
(* it, whatever its special characters, and is no channel's name.          *)
SP == 32
Comma == 44
Bang == 33
NickIsOneWord ==
  isValidNick(text) =>
    /\ \A i \in DOMAIN text : text[i] \notin {SP, Comma, Bang}
    /\ ~isValidChanname(text)

=============================================================================
