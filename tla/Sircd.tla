------------------------------- MODULE Sircd --------------------------------
(***************************************************************************)
(* The select loop of main (sircd.c:200-344): the three descriptor sets,   *)
(* the pass over the descriptors, and what the handlers called in the      *)
(* middle of it do to them through remove_client.                          *)
(*                                                                         *)
(* A client is its descriptor, as in IrcProto.  Of the buffers only the    *)
(* number of queued lines is left (OutBuf has the rest), of the input      *)
(* whether a client has text or a hang-up to be received (InBuf), of a     *)
(* line whether it makes the server talk or quits (IrcProto).  Descriptors *)
(* below the listening one never are in a set: passes start there.         *)
(***************************************************************************)
EXTENDS Naturals, SequencesExt, ArraylistOps

CONSTANTS
  listenfd,      \* the first descriptor opened, hence the lowest
  Fds,           \* the descriptors left to clients, up to the process limit
  MaxQueued,     \* bound on the lines in one outbuf
  MaxBatch,      \* bound on the lines of one recv
  MaxBacklog     \* bound on the connections waiting for accept

ASSUME FdAssumption ==
  /\ listenfd \in Nat \ {0} /\ Fds \subseteq Nat
  /\ \A fd \in Fds : fd > listenfd
  /\ {MaxQueued, MaxBatch, MaxBacklog} \subseteq Nat \ {0}

VARIABLES
  clientList,    \* descriptors of the clients
  queued,        \* arraylist_size of each outbuf
  begun,         \* clients whose first line was sent in part, once at most
  master_set, read_set, write_set, fdmax,
  i,             \* the descriptor the pass is at, 0 in select
  at,            \* "write", "read": the branch for i; "lines": for loop 330
  listIndex,     \* client whose lines are handled, C's index plus one
  lines,         \* lines still to be handled
  backlog,       \* connections waiting in listenfd
  input,         \* what recv would find: "none", "text", "hangup"
  room,          \* sockets that take a line without waiting
  status

sets == <<master_set, read_set, write_set, fdmax>>
pass == <<i, at, listIndex, lines>>
world == <<backlog, input, room>>
clients == <<clientList, queued, begun>>
vars == <<clients, sets, pass, world, status>>

Live == ToSet(clientList)
Running == status = "running"
AtBranch(b) == Running /\ at = b

Init ==
  /\ clientList = <<>> /\ queued = [c \in Fds |-> 0] /\ begun = {}
  /\ master_set = {listenfd} /\ read_set = {} /\ write_set = {}
  /\ fdmax = listenfd
  /\ i = 0 /\ at = "write" /\ listIndex = 0 /\ lines = 0
  /\ backlog = 0 /\ input = [c \in Fds |-> "none"] /\ room = Fds
  /\ status = "running"

-----------------------------------------------------------------------------
(* The world                                                               *)

Connect ==
  /\ backlog < MaxBacklog
  /\ backlog' = backlog + 1
  /\ UNCHANGED <<clients, sets, pass, input, room, status>>

(* The peer gives up before it is accepted.                                *)
Abort ==
  /\ backlog > 0
  /\ backlog' = backlog - 1
  /\ UNCHANGED <<clients, sets, pass, input, room, status>>

Speak(c) ==
  /\ c \in Live /\ input[c] = "none"
  /\ input' = [input EXCEPT ![c] = "text"]
  /\ UNCHANGED <<clients, sets, pass, backlog, room, status>>

(* The socket of a peer that is gone answers at once.                      *)
Leave(c) ==
  /\ c \in Live /\ input[c] = "none"
  /\ input' = [input EXCEPT ![c] = "hangup"] /\ room' = room \cup {c}
  /\ UNCHANGED <<clients, sets, pass, backlog, status>>

Read(c) ==
  /\ c \notin room
  /\ room' = room \cup {c}
  /\ UNCHANGED <<clients, sets, pass, backlog, input, status>>

World == Connect \/ Abort \/ \E c \in Fds : Speak(c) \/ Leave(c) \/ Read(c)

-----------------------------------------------------------------------------
(* select and the pass                                                     *)

Ready == {c \in Live : input[c] # "none"}
         \cup (IF backlog > 0 THEN {listenfd} ELSE {})

(* Mutant: the interest of the last pass is kept, whatever the sockets.    *)
Select_KeepsSet ==
  /\ Running /\ i = 0 /\ Ready \cup (write_set \cap room) # {}
  /\ read_set' = master_set
  /\ write_set' = write_set \cap room
  /\ i' = listenfd /\ at' = "write"
  /\ UNCHANGED <<clients, master_set, fdmax, listIndex, lines, world, status>>

(* read_set = master_set; select(.., &read_set, &write_set, ..) blocks     *)
(* until some descriptor is ready and leaves only such ones in the sets.   *)
Select ==
  /\ Running /\ i = 0 /\ Ready \cup (write_set \cap room) # {}
  /\ read_set' = master_set \cap Ready
  /\ write_set' = write_set \cap room
  /\ i' = listenfd /\ at' = "write"
  /\ UNCHANGED <<clients, master_set, fdmax, listIndex, lines, world, status>>

(* i++, up to fdmax.                                                       *)
Advance ==
  /\ i' = IF i < fdmax THEN i + 1 ELSE 0
  /\ at' = "write"

(* Mutant: the socket stays in write_set.                                  *)
remove_client_KeepsWriteSet(c) ==
  /\ clientList' = arraylist_remove(clientList, c)
  /\ queued' = [queued EXCEPT ![c] = 0] /\ begun' = begun \ {c}
  /\ master_set' = master_set \ {c} /\ write_set' = write_set
  /\ input' = [input EXCEPT ![c] = "none"] /\ room' = room \cup {c}

(* remove_client: the socket is closed, its number free for the next       *)
(* accept.  main's read_set is out of its reach.                           *)
remove_client(c) ==
  /\ clientList' = arraylist_remove(clientList, c)
  /\ queued' = [queued EXCEPT ![c] = 0] /\ begun' = begun \ {c}
  /\ master_set' = master_set \ {c} /\ write_set' = write_set \ {c}
  /\ input' = [input EXCEPT ![c] = "none"] /\ room' = room \cup {c}

-----------------------------------------------------------------------------
(* The write branch                                                        *)

NotWritable ==
  /\ AtBranch("write") /\ i # 0 /\ i \notin write_set
  /\ at' = "read"
  /\ UNCHANGED <<clients, sets, i, listIndex, lines, world, status>>

(* One line goes out.  The socket may be full afterwards, and if it is     *)
(* full already send does not return: it is a blocking one.                *)
SendLine ==
  /\ AtBranch("write") /\ i \in write_set /\ queued[i] > 0 /\ i \in room
  /\ queued' = [queued EXCEPT ![i] = @ - 1] /\ begun' = begun \ {i}
  /\ room' \in {room, room \ {i}}
  /\ UNCHANGED <<clientList, sets, pass, backlog, input, status>>

(* Mutant: the bit is cleared behind the loop, however it has ended.       *)
SendPart_Clears ==
  /\ AtBranch("write") /\ i \in write_set /\ queued[i] > 0 /\ i \in room
  /\ i \notin begun
  /\ begun' = begun \cup {i} /\ room' = room \ {i} /\ at' = "read"
  /\ write_set' = write_set \ {i}
  /\ UNCHANGED <<clientList, queued, master_set, read_set, fdmax, i, listIndex,
                 lines, backlog, input, status>>

(* A part of a line goes out: break, and i stays in write_set.             *)
SendPart ==
  /\ AtBranch("write") /\ i \in write_set /\ queued[i] > 0 /\ i \in room
  /\ i \notin begun
  /\ begun' = begun \cup {i} /\ room' = room \ {i} /\ at' = "read"
  /\ UNCHANGED <<clientList, queued, sets, i, listIndex, lines, backlog, input, status>>

(* The peer has reset the connection: the loop goes on with an outbuf that *)
(* remove_client has freed.                                                *)
SendHangsUp ==
  /\ AtBranch("write") /\ i \in write_set /\ queued[i] > 0
  /\ input[i] = "hangup"
  /\ status' = "failed"
  /\ UNCHANGED <<clients, sets, pass, world>>

AllSent ==
  /\ AtBranch("write") /\ i \in write_set /\ queued[i] = 0
  /\ write_set' = write_set \ {i} /\ at' = "read"
  /\ UNCHANGED <<clients, master_set, read_set, fdmax, i, listIndex, lines,
                 world, status>>

WriteBranch == NotWritable \/ SendLine \/ SendPart \/ SendHangsUp \/ AllSent

-----------------------------------------------------------------------------
(* The read branch                                                         *)

NotReadable ==
  /\ AtBranch("read") /\ i \notin read_set
  /\ Advance
  /\ UNCHANGED <<clients, sets, listIndex, lines, world, status>>

AtListen == AtBranch("read") /\ i = listenfd /\ i \in read_set

LowestFree(fd) == fd \in Fds \ Live /\ \A other \in Fds \ Live : fd <= other

(* Mutant: fdmax is not raised.                                            *)
Accept_FdmaxStays ==
  /\ AtListen /\ backlog > 0
  /\ \E newfd \in Fds :
       /\ LowestFree(newfd)
       /\ clientList' = Append(clientList, newfd)
       /\ master_set' = master_set \cup {newfd}
  /\ backlog' = backlog - 1
  /\ Advance
  /\ UNCHANGED <<queued, begun, read_set, write_set, fdmax, listIndex, lines, input,
                 room, status>>

(* accept hands out the lowest free descriptor.                            *)
Accept ==
  /\ AtListen /\ backlog > 0
  /\ \E newfd \in Fds :
       /\ LowestFree(newfd)
       /\ clientList' = Append(clientList, newfd)
       /\ master_set' = master_set \cup {newfd}
       /\ fdmax' = IF newfd > fdmax THEN newfd ELSE fdmax
       /\ i' = i + 1
  /\ backlog' = backlog - 1
  /\ at' = "write"
  /\ UNCHANGED <<queued, begun, read_set, write_set, listIndex, lines, input, room,
                 status>>

(* No descriptor is left, and the connection goes on waiting; or there is  *)
(* none any more, for which reason listenfd alone is non-blocking.         *)
AcceptFails ==
  /\ AtListen /\ (Live = Fds \/ backlog = 0)
  /\ Advance
  /\ UNCHANGED <<clients, sets, listIndex, lines, world, status>>

(* There is no memory for a client: its socket is closed.                  *)
AcceptDrops ==
  /\ AtListen /\ backlog > 0 /\ Live # Fds
  /\ backlog' = backlog - 1
  /\ Advance
  /\ UNCHANGED <<clients, sets, listIndex, lines, input, room, status>>

AtClient == AtBranch("read") /\ i # listenfd /\ i \in read_set

(* The client was removed earlier in this pass: close(i) finds nothing.    *)
ClientGone ==
  /\ AtClient /\ i \notin Live
  /\ master_set' = master_set \ {i}
  /\ Advance
  /\ UNCHANGED <<clients, read_set, write_set, fdmax, listIndex, lines, world,
                 status>>

(* recv returns 0, or ECONNRESET; 0 also when the inbuf is full.           *)
RecvHangsUp ==
  /\ AtClient /\ i \in Live /\ input[i] \in {"text", "hangup"}
  /\ remove_client(i)
  /\ Advance
  /\ UNCHANGED <<read_set, fdmax, listIndex, lines, backlog, status>>

(* No complete line, or a string that cannot be split.                     *)
RecvNoLine ==
  /\ AtClient /\ i \in Live /\ input[i] = "text"
  /\ input' = [input EXCEPT ![i] = "none"]
  /\ Advance
  /\ UNCHANGED <<clients, sets, listIndex, lines, backlog, room, status>>

RecvLines ==
  /\ AtClient /\ i \in Live /\ input[i] = "text"
  /\ input' = [input EXCEPT ![i] = "none"]
  /\ listIndex' = arraylist_index_of(clientList, i)
  /\ lines' \in 1 .. MaxBatch
  /\ at' = "lines"
  /\ UNCHANGED <<clients, sets, i, backlog, room, status>>

(* recv waits: the socket is a blocking one.                               *)
RecvWaits == AtClient /\ i \in Live /\ input[i] = "none"

ReadBranch ==
  \/ NotReadable \/ Accept \/ AcceptFails \/ AcceptDrops
  \/ ClientGone \/ RecvHangsUp \/ RecvNoLine \/ RecvLines

-----------------------------------------------------------------------------
(* The lines                                                               *)

HandlingLine == AtBranch("lines") /\ lines > 0
Heard(S) == [c \in Fds |-> IF c \in S /\ queued[c] < MaxQueued
                           THEN queued[c] + 1 ELSE queued[c]]

(* A handler queues messages for some of the clients.                      *)
LineTalks ==
  /\ HandlingLine /\ listIndex <= Len(clientList)
  /\ \E S \in SUBSET Live : queued' = Heard(S)
  /\ lines' = lines - 1
  /\ UNCHANGED <<clientList, begun, sets, i, at, listIndex, world, status>>

(* QUIT removes whoever is at listIndex by now.                            *)
LineQuits ==
  /\ HandlingLine /\ listIndex <= Len(clientList)
  /\ remove_client(clientList[listIndex])
  /\ lines' = lines - 1
  /\ UNCHANGED <<read_set, fdmax, i, at, listIndex, backlog, status>>

(* Nobody is at listIndex any more.                                        *)
LineDangles ==
  /\ HandlingLine /\ listIndex > Len(clientList)
  /\ status' = "failed"
  /\ UNCHANGED <<clients, sets, pass, world>>

(* Mutant: write_set is left alone.                                        *)
EndOfLines_NoRebuild ==
  /\ AtBranch("lines") /\ lines = 0
  /\ listIndex' = 0
  /\ Advance
  /\ UNCHANGED <<clients, sets, lines, world, status>>

(* Everybody with something queued enters write_set, ready or not; those   *)
(* still ahead in this pass are written to in it.                          *)
EndOfLines ==
  /\ AtBranch("lines") /\ lines = 0
  /\ write_set' = write_set \cup {c \in Live : queued[c] > 0}
  /\ listIndex' = 0
  /\ Advance
  /\ UNCHANGED <<clients, master_set, read_set, fdmax, lines, world, status>>

Handlers == LineTalks \/ LineQuits \/ LineDangles \/ EndOfLines

Server == Select \/ WriteBranch \/ ReadBranch \/ Handlers
Next == World \/ Server
Spec == Init /\ [][Next]_vars

(* The process runs; of the world nothing is demanded.                     *)
FairSpec == Spec /\ WF_vars(Server)

(* Peers go on reading what they are sent.                                 *)
ReadingSpec == FairSpec /\ \A c \in Fds : WF_vars(Read(c))

-----------------------------------------------------------------------------
TypeOK ==
  /\ clientList \in Seq(Fds) /\ queued \in [Fds -> 0 .. MaxQueued]
  /\ begun \subseteq Fds
  /\ {master_set, read_set, write_set} \subseteq SUBSET (Fds \cup {listenfd})
  /\ fdmax \in Fds \cup {listenfd}
  /\ i \in {0} \cup (listenfd .. fdmax) /\ at \in {"write", "read", "lines"}
  /\ listIndex \in Nat /\ lines \in 0 .. MaxBatch
  /\ backlog \in 0 .. MaxBacklog
  /\ input \in [Fds -> {"none", "text", "hangup"}] /\ room \subseteq Fds
  /\ status \in {"running", "failed"}

(* However clients come and go in the middle of a pass, select watches     *)
(* exactly the open sockets, and the write branch, which does not check    *)
(* what findClientIndexBySockFD returns (215), only meets clients.         *)
SetsFollowClients ==
  /\ master_set = Live \cup {listenfd}
  /\ write_set \subseteq Live
  /\ \A fd \in master_set : fd <= fdmax
  /\ IsInjective(clientList)

(* recv is called on sockets with something to receive only, though        *)
(* descriptors are closed and handed out again while read_set is in use.   *)
NeverWaitsInRecv == Running => ~RecvWaits

(* In the middle of a pass the interest in a socket outlives everything    *)
(* that happens to other clients, and what comes between the parts of a    *)
(* line: no branch and no handler drops it while text is queued.  select   *)
(* does, when the socket has no room.                                      *)
Watched(c) == queued[c] > 0 => c \in write_set \/ at = "lines"
OnlySelectForgets ==
  [][\A c \in Fds : Watched(c) /\ (i # 0 \/ c \in room) => Watched(c)']_vars

(* Every client that says something or hangs up is received from.          *)
ReadersServed ==
  \A c \in Fds : (c \in Live /\ input[c] # "none")
                 ~> (c \notin Live \/ input[c] = "none" \/ ~Running)

(* common.h:82, on outbuf: "array of char* lines to be send over".         *)
QueuedIsSent ==
  \A c \in Fds : queued[c] > 0 ~> (queued[c] = 0 \/ ~Running)

(* Over sockets that always have room it is, by the fairness of the        *)
(* process alone: select finds every socket of write_set ready, so that no *)
(* interest is lost, and nobody queues a line that is not followed by the  *)
(* rebuild of write_set.                                                   *)
QueuedIsSentWithRoom == [](room = Fds) => QueuedIsSent

=============================================================================
