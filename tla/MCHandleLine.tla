---------------------------- MODULE MCHandleLine ----------------------------
(***************************************************************************)
(* handle_line's parser over every line of a few characters, compared with *)
(* a line's grammar.                                                       *)
(***************************************************************************)
EXTENDS HandleLine

VARIABLE line   \* as it was received
parse_vars == <<line_vars, line>>

ParseInit == LineInit /\ line = Front(mem)
ParseNext == LineNext /\ UNCHANGED line
ParseSpec == ParseInit /\ [][ParseNext]_parse_vars

(* The grammar of a line: words between spaces; the first is the prefix if *)
(* it begins the line with a colon; the next is the command; a later one   *)
(* that begins with a colon is the rest of the line, without the colon.    *)
From == IF line = <<>> \/ line[1] # Colon
        THEN 1 ELSE Where({p \in DOMAIN line : line[p] = Space})
Rest == Where({p \in 2 .. Len(line) :
                 /\ p > From /\ line[p] = Colon /\ line[p - 1] = Space
                 /\ \E q \in 1 .. p - 1 : q >= From /\ line[q] # Space})

(* The words are in front of the space that is in front of that colon.     *)
WordsEnd == IF Rest = 0 THEN Len(line) + 1 ELSE Rest - 1
Starts == IF From = 0 THEN {} ELSE
          {p \in From .. WordsEnd - 1 :
             line[p] # Space /\ (p = From \/ line[p - 1] = Space)}
EndOf(p) == Min({q \in p .. WordsEnd : q = WordsEnd \/ line[q] = Space})
WordAt(p) == SubSeq(line, p, EndOf(p) - 1)

Below(p) == {q \in Starts : q < p}
WordsOf == [k \in 1 .. Cardinality(Starts) |->
              WordAt(CHOOSE p \in Starts : Cardinality(Below(p)) = k - 1)]
Trailing == IF Rest = 0 THEN <<>> ELSE <<SubSeq(line, Rest + 1, Len(line))>>
Parameters ==
  LET all == Tail(WordsOf) \o Trailing
  IN  SubSeq(all, 1, Min({Len(all), MAX_MSG_TOKENS}))

(* The line is cut as its grammar says, whatever its spaces and colons,    *)
(* and answered accordingly: the NULs written over the spaces for one part *)
(* do not cut another short, and the parameters in front of the trailing   *)
(* one do not run into it.                                                 *)
ParsedAsWritten ==
  line_pc = "done" =>
    IF WordsOf = <<>>
    THEN outcome = "no command"
    ELSE /\ String(command) = Head(WordsOf)
         /\ [i \in DOMAIN params |-> String(params[i])] = Parameters
         /\ outcome = Answer(Head(WordsOf), Len(Parameters))
         /\ prefix # 0 =>
              String(prefix) = SubSeq(line, 2, From - 1)

=============================================================================
