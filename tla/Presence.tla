----------------------------- MODULE Presence -----------------------------
(***************************************************************************)
(* What the bookkeeping of the server promises, without lists: who is      *)
(* connected, who is registered, which rooms are open and who is in them.  *)
(* A client is in one room at most and changes room in one step; a room    *)
(* closes when its last member leaves it, unless that member's connection  *)
(* is gone.  IrcProto implements it.                                       *)
(***************************************************************************)
CONSTANTS Clients, Rooms

VARIABLES
  online,   \* connected clients
  known,    \* registered clients
  open,     \* open rooms
  members   \* the members of each room

vars == <<online, known, open, members>>

Init ==
  /\ online = {}
  /\ known = {}
  /\ open = {}
  /\ members = [r \in Rooms |-> {}]

Arrive(c) ==
  /\ c \notin online
  /\ online' = online \cup {c}
  /\ UNCHANGED <<known, open, members>>

Introduce(c) ==
  /\ c \in online \ known
  /\ known' = known \cup {c}
  /\ UNCHANGED <<online, open, members>>

(* Into room r and out of any other.                                       *)
Enter(c, r) ==
  /\ c \in known /\ c \notin members[r]
  /\ members' = [x \in Rooms |-> IF x = r
                                 THEN members[x] \cup {c}
                                 ELSE members[x] \ {c}]
  /\ open' = (open \cup {r}) \ {x \in Rooms : members[x] = {c}}
  /\ UNCHANGED <<online, known>>

Leave(c, r) ==
  /\ c \in members[r]
  /\ members' = [members EXCEPT ![r] = @ \ {c}]
  /\ open' = IF members[r] = {c} THEN open \ {r} ELSE open
  /\ UNCHANGED <<online, known>>

(* A room that lost its last member with a connection closes later.        *)
Close(r) ==
  /\ r \in open /\ members[r] = {}
  /\ open' = open \ {r}
  /\ UNCHANGED <<online, known, members>>

Depart(c) ==
  /\ c \in online
  /\ online' = online \ {c}
  /\ known' = known \ {c}
  /\ members' = [r \in Rooms |-> members[r] \ {c}]
  /\ UNCHANGED open

Next ==
  \/ \E c \in Clients : \/ Arrive(c) \/ Introduce(c) \/ Depart(c)
                        \/ \E r \in Rooms : Enter(c, r) \/ Leave(c, r)
  \/ \E r \in Rooms : Close(r)

Spec == Init /\ [][Next]_vars

-----------------------------------------------------------------------------
(* No client is in two rooms, whoever is in a room is connected and        *)
(* registered, and a room with members is open.                            *)
Consistent ==
  /\ \A r, s \in Rooms : r # s => members[r] \cap members[s] = {}
  /\ \A r \in Rooms : members[r] \subseteq known
  /\ known \subseteq online
  /\ \A r \in Rooms : members[r] # {} => r \in open
=============================================================================
