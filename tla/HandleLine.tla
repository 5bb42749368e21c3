----------------------------- MODULE HandleLine -----------------------------
(***************************************************************************)
(* handle_line's parser: a line is cut in place, by NULs written over its  *)
(* spaces, into a prefix, a command and at most MAX_MSG_TOKENS parameters, *)
(* and the command is looked up in cmds.  Pointers are positions in the    *)
(* line's memory, 0 is NULL.  What the handlers do is IrcProto.            *)
(***************************************************************************)
EXTENDS CStrings

CONSTANTS Space, Colon, LineLetters,
          MAX_MSG_TOKENS, LineLength,
          Cmds   \* the known commands, each with its needreg and minparams

ASSUME HandleLineAssumption ==
  /\ MAX_MSG_TOKENS \in Nat \ {0} /\ LineLength \in Nat
  /\ NUL # Space /\ NUL # Colon /\ Space # Colon
  /\ LineLetters \cap {NUL, Space, Colon} = {}

VARIABLES mem, registered, prefix, command, pstart, trailing, params,
          line_pc,   \* where handle_line is
          outcome    \* what it does with the line in the end
line_vars == <<mem, registered, prefix, command, pstart, trailing, params,
               line_pc, outcome>>

ReceivedLines ==
  UNION {[1 .. n -> LineLetters \cup {Space, Colon}] : n \in 0 .. LineLength}

LineInit ==
  /\ \E line \in ReceivedLines : mem = line \o <<NUL>>
  /\ registered \in BOOLEAN
  /\ prefix = 0 /\ command = 0 /\ pstart = 0 /\ trailing = 0
  /\ params = <<>> /\ line_pc = "prefix" /\ outcome = "none"

(* strchr(p, ' ').                                                         *)
strchr(p) == Where({q \in p .. NulAfter(mem, p) : mem[q] = Space})

(* The loops that write NULs over spaces until there is something else.   *)
PastSpaces(p) == Min({q \in p .. Len(mem) : mem[q] # Space})
Cleared(p, q) == [k \in DOMAIN mem |-> IF k \in p .. q - 1 THEN NUL ELSE mem[k]]

String(p) == SubSeq(mem, p, NulAfter(mem, p) - 1)

NoCommand == line_pc' = "done" /\ outcome' = "no command"

TakePrefix ==
  /\ line_pc = "prefix"
  /\ IF mem[1] = Colon
     THEN prefix' = 2 /\ command' = strchr(2)
     ELSE prefix' = 0 /\ command' = 1
  /\ IF command' = 0 \/ mem[command'] = NUL
     THEN NoCommand
     ELSE line_pc' = "command" /\ outcome' = outcome
  /\ UNCHANGED <<mem, registered, pstart, trailing, params>>

SkipToCommand ==
  /\ line_pc = "command"
  /\ command' = PastSpaces(command) /\ mem' = Cleared(command, command')
  /\ IF mem[command'] = NUL
     THEN NoCommand
     ELSE line_pc' = "pstart" /\ outcome' = outcome
  /\ UNCHANGED <<registered, prefix, pstart, trailing, params>>

(* pstart behind the spaces at p, which are cleared; NULL when there are   *)
(* none.                                                                   *)
Advance(p) ==
  IF p = 0
  THEN pstart' = 0 /\ mem' = mem
  ELSE pstart' = PastSpaces(p) /\ mem' = Cleared(p, pstart')

EndCommand ==
  /\ line_pc = "pstart"
  /\ Advance(strchr(command))
  /\ line_pc' = IF pstart' = 0 THEN "trailing" ELSE "colon"
  /\ UNCHANGED <<registered, prefix, command, trailing, params, outcome>>

(* strstr(pstart, " :").                                                   *)
SpaceColon ==
  Where({q \in pstart .. Len(mem) - 1 : mem[q] = Space /\ mem[q + 1] = Colon})

(* Mutant: a first parameter that is itself the trailing one is not seen.  *)
FindTrailing_OnlyBehindSpace ==
  /\ line_pc = "colon"
  /\ IF SpaceColon = 0
     THEN trailing' = 0 /\ mem' = mem
     ELSE trailing' = SpaceColon + 2 /\ mem' = Cleared(SpaceColon, trailing')
  /\ line_pc' = "params"
  /\ UNCHANGED <<registered, prefix, command, pstart, params, outcome>>

FindTrailing ==
  /\ line_pc = "colon"
  /\ LET found == IF mem[pstart] = Colon THEN pstart ELSE SpaceColon
     IN  IF found = 0
         THEN trailing' = 0 /\ mem' = mem
         ELSE trailing' = PastSpaces(found) + 1 /\ mem' = Cleared(found, trailing')
  /\ line_pc' = "params"
  /\ UNCHANGED <<registered, prefix, command, pstart, params, outcome>>

(* One pass of the loop over the parameters.                               *)
TakeParam ==
  /\ line_pc = "params"
  /\ IF mem[pstart] = NUL
     THEN line_pc' = "trailing" /\ UNCHANGED <<params, pstart, mem>>
     ELSE /\ params' = Append(params, pstart)
          /\ Advance(strchr(pstart))
          /\ line_pc' = IF pstart' # 0 /\ Len(params') < MAX_MSG_TOKENS
                   THEN "params" ELSE "trailing"
  /\ UNCHANGED <<registered, prefix, command, trailing, outcome>>

AddTrailing ==
  /\ line_pc = "trailing"
  /\ params' = IF trailing # 0 /\ Len(params) < MAX_MSG_TOKENS
               THEN Append(params, trailing) ELSE params
  /\ line_pc' = "dispatch"
  /\ UNCHANGED <<mem, registered, prefix, command, pstart, trailing, outcome>>

(* The loop over cmds.                                                     *)
Answer(cmd, n_params) ==
  IF cmd \notin DOMAIN Cmds THEN "unknown command"
  ELSE IF Cmds[cmd].needreg /\ ~registered THEN "not registered"
  ELSE IF n_params < Cmds[cmd].minparams THEN "need more params"
  ELSE "handler"
Dispatch ==
  /\ line_pc = "dispatch" /\ line_pc' = "done"
  /\ outcome' = Answer(String(command), Len(params))
  /\ UNCHANGED <<mem, registered, prefix, command, pstart, trailing, params>>

LineNext ==
  \/ TakePrefix \/ SkipToCommand \/ EndCommand \/ FindTrailing
  \/ TakeParam \/ AddTrailing \/ Dispatch
LineSpec == LineInit /\ [][LineNext]_line_vars

=============================================================================
