------------------------------ MODULE MCPieces ------------------------------
(***************************************************************************)
(* The pieces that the programs are put together from, each by itself: the *)
(* array of a list, the two buffers of a client_t, the cut of a text into  *)
(* tokens, the parser of a line, the checks of names, the numeric reply,   *)
(* and the start of either program.  One of them is used; what one hands   *)
(* to another is in IrcProto and Sircd.                                    *)
(***************************************************************************)
EXTENDS Arraylist, OutBuf, MCInBuf, MCTokenizer, MCHandleLine, ValidNames,
        ReplyBuf, RtArgs, InitNode

MCCmds == <<a>> :> [needreg |-> FALSE, minparams |-> 1]
          @@ <<b>> :> [needreg |-> TRUE, minparams |-> 0]

Pieces == {"list", "output", "input", "tokens", "line", "name", "reply",
           "daemon", "sircd"}

VARIABLE used   \* one of them

out_vars == <<vars, partial_sends>>
token_vars == <<string, stale>>

(* The state of the others is one of their initial states.                 *)
PiecesInit ==
  /\ used \in Pieces
  /\ ListInit
  /\ Init /\ (used # "output" => ~partial_sends)
  /\ InInit /\ (used # "input" => leftover[1] = NUL)
  /\ StringInit
  /\ ParseInit /\ (used # "line" => line = <<>> /\ ~registered)
  /\ NameInit
  /\ ReplyInit
  /\ ArgsInit
  /\ NodeInit /\ (used # "sircd" => curr_nodeID = 0 /\ file = <<>>)

OthersKeep ==
  /\ used' = used
  /\ used # "list" => UNCHANGED list_vars
  /\ used # "output" => UNCHANGED out_vars
  /\ used # "input" => UNCHANGED in_vars
  /\ used # "tokens" => UNCHANGED token_vars
  /\ used # "line" => UNCHANGED parse_vars
  /\ used # "name" => UNCHANGED text
  /\ used # "reply" => UNCHANGED reply_vars
  /\ used # "daemon" => UNCHANGED args_vars
  /\ used # "sircd" => UNCHANGED sircd_vars

PiecesNext ==
  \/ used = "list" /\ ListNext /\ OthersKeep
  \/ used = "output" /\ Next /\ OthersKeep
  \/ used = "input" /\ InNext /\ OthersKeep
  \/ used = "tokens" /\ StringNext /\ OthersKeep
  \/ used = "line" /\ ParseNext /\ OthersKeep
  \/ used = "name" /\ Type /\ OthersKeep
  \/ used = "reply" /\ ReplyNext /\ OthersKeep
  \/ used = "daemon" /\ ArgsNext /\ OthersKeep
  \/ used = "sircd" /\ NodeNext /\ OthersKeep

PiecesSpec ==
  /\ PiecesInit
  /\ [][PiecesNext]_<<used, list_vars, out_vars, in_vars, token_vars, parse_vars,
                      text, reply_vars, args_vars, sircd_vars>>
  /\ Fairness

=============================================================================
