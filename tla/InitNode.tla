------------------------------ MODULE InitNode ------------------------------
(***************************************************************************)
(* sircd's start: init_node takes the configuration file and the entry of  *)
(* the node that the command line names.                                   *)
(***************************************************************************)
EXTENDS RtConfig

VARIABLES curr_nodeID, file, curr_node_config_file,
          curr_node_config_entry,   \* the index of the entry, 0 for NULL
          sircd_status
sircd_vars == <<curr_nodeID, file, curr_node_config_file,
                curr_node_config_entry, sircd_status>>

NodeInit ==
  /\ curr_nodeID \in NodeIDs /\ file \in Files
  /\ curr_node_config_file = NoConfig /\ curr_node_config_entry = 0
  /\ sircd_status = "parse"

ParseExits ==
  /\ sircd_status = "parse" /\ ~rt_parse_accepts(file)
  /\ sircd_status' = "exit"
  /\ UNCHANGED <<curr_nodeID, file, curr_node_config_file, curr_node_config_entry>>

Parse ==
  /\ sircd_status = "parse" /\ rt_parse_accepts(file)
  /\ curr_node_config_file' = rt_parse_config_file(curr_node_config_file, file)
  /\ sircd_status' = "search"
  /\ UNCHANGED <<curr_nodeID, file, curr_node_config_entry>>

(* The last entry of this node; exit when there is none.                   *)
init_node ==
  /\ sircd_status = "search"
  /\ LET found == EntriesOf(curr_node_config_file, curr_nodeID)
     IN  IF found = {}
         THEN sircd_status' = "exit" /\ curr_node_config_entry' = 0
         ELSE sircd_status' = "running" /\ curr_node_config_entry' = Max(found)
  /\ UNCHANGED <<curr_nodeID, file, curr_node_config_file>>

NodeNext == ParseExits \/ Parse \/ init_node
NodeSpec == NodeInit /\ [][NodeNext]_sircd_vars

-----------------------------------------------------------------------------
(* The lines that name this node, and what is a configuration file.        *)
Listed == {i \in DOMAIN file : file[i] = curr_nodeID}
WellFormed == Len(file) <= MAX_CONFIG_FILE_LINES /\ Bad \notin ToSet(file)

(* With a file that has no blank line sircd runs exactly if the file is    *)
(* well-formed, of the permitted length at most, and names the node, and   *)
(* then as the last line that does: neither the limit of the loop, nor the *)
(* getc behind it, nor the search loses or adds a line.                    *)
RunsAsListed ==
  Blank \notin ToSet(file) =>
    /\ sircd_status = "running" =>
         WellFormed /\ Listed # {} /\ curr_node_config_entry = Max(Listed)
    /\ sircd_status = "exit" => ~WellFormed \/ Listed = {}

(* sircd.c:368: "Check to see if nodeID is valid".  What runs is a node of *)
(* the file then.                                                          *)
NodeIsListed == sircd_status = "running" => Listed # {}

=============================================================================
