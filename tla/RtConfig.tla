------------------------------ MODULE RtConfig ------------------------------
(***************************************************************************)
(* The configuration file as rt_parse_config_file of rtlib.c reads it.  A  *)
(* line is blank, bad (not five fields, or an unknown host), or the entry  *)
(* of a node, of which only the nodeID is kept; no line is longer than     *)
(* MAX_CONFIG_FILE_LINE_LEN.                                               *)
(***************************************************************************)
EXTENDS Naturals, SequencesExt

CONSTANTS NodeIDs, Blank, Bad, MAX_CONFIG_FILE_LINES, MaxFileLines

ASSUME RtConfigAssumption ==
  /\ NodeIDs \subseteq Nat /\ 0 \in NodeIDs
  /\ Blank \notin NodeIDs /\ Bad \notin NodeIDs /\ Blank # Bad
  /\ MAX_CONFIG_FILE_LINES \in Nat /\ MaxFileLines \in Nat

Files == UNION {[1 .. n -> NodeIDs \cup {Blank, Bad}] : n \in 0 .. MaxFileLines}

(* curr_node_config_file is static, rt_args_t is bzeroed.                  *)
NoConfig == [size |-> 0, entries |-> [i \in 1 .. MAX_CONFIG_FILE_LINES |-> 0]]

(* fgets fails, or the limit is reached: which lines are read.             *)
LinesRead(file) == 1 .. Min({Len(file), MAX_CONFIG_FILE_LINES})

(* Mutant: what is left of the file is not looked at.                      *)
rt_parse_accepts_AnyLength(file) == \A i \in LinesRead(file) : file[i] # Bad

(* It exits on a bad line and when there is more to read.                  *)
rt_parse_accepts(file) ==
  /\ \A i \in LinesRead(file) : file[i] # Bad
  /\ Len(file) <= MAX_CONFIG_FILE_LINES

(* The configuration it leaves in config.  continue skips a blank line's   *)
(* ++size but not the loop's ++i: the line keeps its place in entries.     *)
rt_parse_config_file(config, file) ==
  LET nodes == {i \in LinesRead(file) : file[i] # Blank}
  IN  [size |-> Cardinality(nodes),
       entries |-> [i \in 1 .. MAX_CONFIG_FILE_LINES |->
                      IF i \in nodes THEN file[i] ELSE config.entries[i]]]

(* The entries that a search for a node finds.                             *)
EntriesOf(config, nodeID) == {i \in 1 .. config.size : config.entries[i] = nodeID}

=============================================================================
