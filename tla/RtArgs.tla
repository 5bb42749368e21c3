------------------------------- MODULE RtArgs -------------------------------
(***************************************************************************)
(* rt_parse_command_line of rtlib.c: the options, one by one as getopt     *)
(* returns them, and the checks of what they have left in args.            *)
(***************************************************************************)
EXTENDS RtConfig

CONSTANTS Periods, BadNumber, Unset, MaxOptions

ASSUME RtArgsAssumption ==
  /\ Periods \subseteq Nat /\ BadNumber \notin Periods \cup NodeIDs
  /\ Unset \notin NodeIDs /\ MaxOptions \in Nat

VARIABLES args, found,
          given,   \* the options so far
          args_status
args_vars == <<args, found, given, args_status>>

Numbers == {"i", "a", "n", "r", "t"}
ValuesOf(c) ==
  CASE c = "i" -> NodeIDs \cup {BadNumber}
    [] c \in Numbers \ {"i"} -> Periods \cup {BadNumber}
    [] c = "c" -> Files
    [] OTHER -> {Unset}

(* -t is missing here.                                                     *)
_rt_optstring == {"V", "S", "i", "c", "G", "y", "a", "n", "r", "g", "d", "s"}

Defaults ==
  [i |-> Unset, a |-> 30, n |-> 120, r |-> 3, t |-> 120, config |-> NoConfig]

ArgsInit == args = Defaults /\ found = FALSE /\ given = <<>> /\ args_status = "options"

Given(c, val) ==
  /\ args_status = "options" /\ Len(given) < MaxOptions
  /\ given' = Append(given, [c |-> c, val |-> val])

(* Mutant: the first value stays.                                          *)
TakeNumber_Once(c, val) ==
  /\ Given(c, val) /\ c \in _rt_optstring \cap Numbers /\ val # BadNumber
  /\ args' = IF args[c] = Defaults[c] THEN [args EXCEPT ![c] = val] ELSE args
  /\ UNCHANGED <<found, args_status>>

(* parse_long.                                                             *)
TakeNumber(c, val) ==
  /\ Given(c, val) /\ c \in _rt_optstring \cap Numbers /\ val # BadNumber
  /\ args' = [args EXCEPT ![c] = val]
  /\ UNCHANGED <<found, args_status>>

(* case 'c'.                                                               *)
TakeConfig(file) ==
  /\ Given("c", file) /\ rt_parse_accepts(file)
  /\ args' = [args EXCEPT !.config = rt_parse_config_file(@, file)]
  /\ found' = TRUE
  /\ args_status' = args_status

(* case 'G'.                                                               *)
IgnoreOption(val) == Given("G", val) /\ UNCHANGED <<args, found, args_status>>

(* Not an option to getopt, or to the switch; or a value that is refused.  *)
RefuseOption(c, val) ==
  /\ Given(c, val)
  /\ \/ c \notin _rt_optstring
     \/ c \notin Numbers \cup {"c", "G"}
     \/ val = BadNumber
     \/ c = "c" /\ ~rt_parse_accepts(val)
  /\ args_status' = "exit"
  /\ UNCHANGED <<args, found>>

(* The checks whose failure makes it exit.                                 *)
Complete == args.i # Unset /\ found /\ EntriesOf(args.config, args.i) # {}

(* Behind the loop: the % operations of the warnings come after the check  *)
(* of nodeID and before the others.                                        *)
Validate ==
  /\ args_status = "options"
  /\ args_status' = IF args.i # Unset /\ args.a = 0 THEN "trap"
               ELSE IF Complete THEN "parsed" ELSE "exit"
  /\ UNCHANGED <<args, found, given>>

ArgsNext ==
  \/ \E c \in _rt_optstring \cup Numbers : \E val \in ValuesOf(c) :
       TakeNumber(c, val) \/ RefuseOption(c, val)
  \/ \E file \in Files : TakeConfig(file)
  \/ \E val \in ValuesOf("G") : IgnoreOption(val)
  \/ Validate
ArgsSpec == ArgsInit /\ [][ArgsNext]_args_vars

-----------------------------------------------------------------------------
(* The arguments that are handed to the daemon are those of the command    *)
(* line: for each option its last value, for one not given its default.    *)
AsGiven ==
  args_status = "parsed" =>
    \A c \in Numbers :
      LET uses == {k \in DOMAIN given : given[k].c = c}
      IN  args[c] = IF uses = {} THEN Defaults[c] ELSE given[Max(uses)].val

=============================================================================
