----------------------------- MODULE Tokenizer -----------------------------
(***************************************************************************)
(* splitByDelimStr of common.c, which cuts the received text into lines    *)
(* and the first parameter of a command into names.                        *)
(*                                                                         *)
(* The text is what memory holds from buf on: the string, its NUL, and the *)
(* stale bytes behind it.  Pointers are positions in that memory; a        *)
(* pointer that runs off the end of it has left what the caller knows of.  *)
(* The mallocs are assumed to succeed, except for the one whose size is    *)
(* the difference of NULL and a pointer.                                   *)
(***************************************************************************)
EXTENDS CStrings

CONSTANT Delims   \* the characters of delimStr

ASSUME DelimAssumption == NUL \notin Delims

(* strpbrk(p, delimStr), 0 for NULL.                                       *)
strpbrk(mem, p) ==
  Where({q \in p .. NulAfter(mem, p) : mem[q] \in Delims})

(* while (strchr(delimStr, *(p++))): the terminator is a character of      *)
(* delimStr to strchr, and the character that ends the loop is passed over *)
(* too.  0 when the loop leaves the known memory.                          *)
Skip(mem, p) ==
  LET stop == Where({q \in p .. Len(mem) : mem[q] \notin Delims \cup {NUL}})
  IN  IF stop \in 1 .. Len(mem) - 1 THEN stop + 1 ELSE 0

(* The counting pass from each position: where the tokens begin, and what  *)
(* made it stop.  The copying pass begins its tokens at the same places.   *)
CountingPass(mem) ==
  LET pass[p \in 0 .. Len(mem)] ==
        IF p = 0 THEN [starts |-> <<>>, last |-> "overrun"]
        ELSE IF mem[p] = NUL THEN [starts |-> <<>>, last |-> "terminated"]
        ELSE IF strpbrk(mem, p) = 0
             THEN [starts |-> <<p>>, last |-> "open"]
             ELSE LET rest == pass[Skip(mem, strpbrk(mem, p))]
                  IN  [rest EXCEPT !.starts = <<p>> \o @]
  IN  pass[1]

(* Mutant: a token takes its delimiter along.                              *)
splitByDelimStr_KeepsDelimiter(mem) ==
  LET pass == CountingPass(mem)
  IN  [outcome |-> IF pass.last = "terminated" /\ pass.starts # <<>>
                   THEN "tokens" ELSE "trap",
       tokens |-> IF pass.last # "terminated" THEN <<>> ELSE
                  [i \in DOMAIN pass.starts |->
                     SubSeq(mem, pass.starts[i], strpbrk(mem, pass.starts[i]))]]

(* What splitByDelimStr does.  The choice for the last token is the wrong  *)
(* way round: it takes the rest of the string when a delimiter ended it,   *)
(* and looks for that delimiter when there is none.                        *)
splitByDelimStr(mem) ==
  LET pass == CountingPass(mem)
      numToken == Len(pass.starts)
      tokenEnd(i) == IF i < numToken
                     THEN strpbrk(mem, pass.starts[i])
                     ELSE NulAfter(mem, pass.starts[i])
  IN  CASE pass.last = "overrun" ->
             [outcome |-> "overrun", tokens |-> <<>>]
        [] pass.last # "overrun" /\ numToken = 0 ->
             [outcome |-> "NULL", tokens |-> <<>>]
        [] pass.last = "open" ->
             [outcome |-> "trap", tokens |-> <<>>]
        [] OTHER ->
             [outcome |-> "tokens",
              tokens |-> [i \in 1 .. numToken |->
                            SubSeq(mem, pass.starts[i], tokenEnd(i) - 1)]]

=============================================================================
