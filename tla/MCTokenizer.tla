---------------------------- MODULE MCTokenizer ----------------------------
(***************************************************************************)
(* Every string of up to MaxLen characters with every stale tail of up to  *)
(* MaxStale, reached one character at a time.                              *)
(***************************************************************************)
EXTENDS Tokenizer

CONSTANTS StringLetters, MaxLen, MaxStale

ASSUME StringAssumption ==
  NUL \notin StringLetters /\ {MaxLen, MaxStale} \subseteq Nat

VARIABLES string, stale

StringInit == string = <<>> /\ stale = <<>>
Longer ==
  /\ Len(string) < MaxLen
  /\ \E c \in StringLetters \cup Delims : string' = Append(string, c)
  /\ UNCHANGED stale
LongerTail ==
  /\ Len(stale) < MaxStale
  /\ \E c \in StringLetters \cup Delims \cup {NUL} : stale' = Append(stale, c)
  /\ UNCHANGED string
StringNext == Longer \/ LongerTail
StringSpec == StringInit /\ [][StringNext]_<<string, stale>>

Memory == string \o <<NUL>> \o stale
Result == splitByDelimStr(Memory)
DelimFree(s) == ToSet(s) \cap Delims = {}

(* The first of several tokens is what precedes the first delimiter:       *)
(* JOIN, which uses only that one, gets the name the client wrote.         *)
FirstTokenExact ==
  Len(Result.tokens) > 1 =>
    /\ IsPrefix(Result.tokens[1], string)
    /\ string[Len(Result.tokens[1]) + 1] \in Delims

(* Where the names behind the first delimiter begin, and each of them.     *)
NameStarts ==
  SetToSortSeq({k \in 2 .. Len(string) : /\ string[k] \notin Delims
                                         /\ string[k - 1] \in Delims}, <)
NameAt(k) ==
  SubSeq(string, k,
         Min({q \in k .. Len(string) :
                \/ q = Len(string)
                \/ string[q + 1] \in Delims}))

(* The token in the middle that is cut for the i-th of these names.        *)
CutFor(i) == i \in DOMAIN NameStarts /\ i + 1 < Len(Result.tokens)


(* common.h:111: "whether last token was terminated by delimeter or not".  *)
(* It need not be: a name by itself is a list of one.                      *)
LoneNameIsToken ==
  DelimFree(string) /\ string # <<>> =>
    Result = [outcome |-> "tokens", tokens |-> <<string>>]

=============================================================================
