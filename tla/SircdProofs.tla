---------------------------- MODULE SircdProofs -----------------------------
(***************************************************************************)
(* The pass over the descriptors is safe against the clients that come and *)
(* go in the middle of it: for any number of descriptors, and any bounds,  *)
(* select watches the open sockets, and recv is called only where there is *)
(* something to receive.                                                   *)
(***************************************************************************)
EXTENDS Sircd, ListLemmas

USE DEF vars, clients, sets, pass, world, Live, Running, AtBranch

-----------------------------------------------------------------------------
(* The invariant                                                           *)

(* read_set is a copy that remove_client does not reach.  What makes it    *)
(* safe is that a bit not yet visited stands for a socket that has input,  *)
(* or for nobody ...                                                       *)
Ahead(fd) == i # 0 /\ (fd > i \/ (fd = i /\ at # "lines"))
Unread ==
  \A fd \in read_set \cap Live : Ahead(fd) => input[fd] # "none"

(* ... and that no new client gets its number in this pass: connections    *)
(* are accepted before anybody has been removed in it.                     *)
NoReuse ==
  i = listenfd => at # "lines" /\ read_set \subseteq Live \cup {listenfd}

(* In select nothing of a pass is left over, and the lines that are        *)
(* handled are somebody's, or were.                                        *)
Idle == (i = 0 => at = "write") /\ (at = "lines" => listIndex # 0)

Inv == TypeOK /\ SetsFollowClients /\ Unread /\ NoReuse /\ Idle

-----------------------------------------------------------------------------
(* remove_client takes the client out of the list and out of the sets.     *)
LEMMA Removed ==
  ASSUME TypeOK, SetsFollowClients, NEW c \in Live, remove_client(c)
  PROVE  /\ clientList' \in Seq(Fds) /\ IsInjective(clientList')
         /\ Live' = Live \ {c}
         /\ master_set' = Live' \cup {listenfd} /\ write_set' \subseteq Live'
         /\ queued' \in [Fds -> 0 .. MaxQueued] /\ begun' \subseteq Fds
         /\ input' = [input EXCEPT ![c] = "none"]
         /\ input' \in [Fds -> {"none", "text", "hangup"}] /\ room' \subseteq Fds
<1> USE FdAssumption
<1>1. clientList \in Seq(Fds) /\ IsInjective(clientList)
  BY DEF TypeOK, SetsFollowClients
<1>2. /\ clientList' \in Seq(Fds) /\ IsInjective(clientList')
      /\ ToSet(clientList') = ToSet(clientList) \ {c}
  BY <1>1, RemoveProperties DEF remove_client
<1>3. Live \subseteq Fds
  BY <1>1, LenProperties, ElementOfSeq DEF ToSet
<1>4. c \in Fds /\ c # listenfd
  BY <1>3
<1>5. Live' = Live \ {c}
  BY <1>2
<1>6. master_set' = Live' \cup {listenfd} /\ write_set' \subseteq Live'
  BY <1>4, <1>5 DEF remove_client, SetsFollowClients
<1>7. queued' \in [Fds -> 0 .. MaxQueued] /\ begun' \subseteq Fds
  BY <1>4 DEF remove_client, TypeOK
<1>8. /\ input' = [input EXCEPT ![c] = "none"]
      /\ input' \in [Fds -> {"none", "text", "hangup"}] /\ room' \subseteq Fds
  BY <1>4 DEF remove_client, TypeOK
<1> QED
  BY <1>2, <1>5, <1>6, <1>7, <1>8

(* The pass steps on.                                                      *)
LEMMA Advanced ==
  ASSUME TypeOK, Advance, i # 0
  PROVE  /\ i' \in {0} \cup (listenfd .. fdmax) /\ at' = "write"
         /\ i' # listenfd
         /\ \A fd \in Nat : i' # 0 /\ fd >= i' => fd > i
<1>1. listenfd \in Nat /\ fdmax \in Nat /\ i \in listenfd .. fdmax
  BY FdAssumption DEF TypeOK
<1>2. CASE i < fdmax
  <2>1. i' = i + 1 /\ at' = "write"
    BY <1>2 DEF Advance
  <2> QED
    BY <2>1, <1>1, <1>2
<1>3. CASE ~(i < fdmax)
  <2>1. i' = 0 /\ at' = "write" /\ listenfd # 0
    BY <1>3, FdAssumption DEF Advance
  <2> QED
    BY <2>1, <1>1
<1> QED
  BY <1>2, <1>3

LEMMA Descriptors ==
  ASSUME TypeOK
  PROVE  /\ Live \subseteq Fds /\ Fds \subseteq Nat /\ listenfd \in Nat \ {0}
         /\ listenfd \notin Fds /\ \A fd \in Fds : fd > listenfd
         /\ fdmax \in Nat /\ i \in Nat /\ (i # 0 => i >= listenfd)
<1>1. clientList \in Seq(Fds)
  BY DEF TypeOK
<1>2. Live \subseteq Fds
  BY <1>1, LenProperties, ElementOfSeq DEF ToSet
<1> QED
  BY <1>2, FdAssumption DEF TypeOK

(* A step that stays at its descriptor: what has input keeps it, but for a *)
(* client whose lines are about to be handled.                             *)
LEMMA StaysPut ==
  ASSUME Inv, UNCHANGED <<clientList, master_set, read_set, fdmax, i>>,
         write_set' \subseteq write_set,
         at = "lines" => at' = "lines",
         at' = "lines" => at = "lines" \/ i # listenfd,
         \A fd \in Fds : input[fd] # "none"
                         => input'[fd] # "none" \/ (fd = i /\ at' = "lines")
  PROVE  SetsFollowClients' /\ Unread' /\ NoReuse'
<1>1. Live \subseteq Fds /\ Fds \subseteq Nat /\ i \in Nat
  BY Descriptors DEF Inv
<1>2. ASSUME NEW fd \in read_set' \cap Live', Ahead(fd)'
      PROVE  input'[fd] # "none"
  <2>1. fd \in Fds /\ fd \in read_set \cap Live /\ Ahead(fd)
    BY <1>1, <1>2 DEF Ahead
  <2>2. input[fd] # "none" /\ ~(fd = i /\ at' = "lines")
    BY <2>1, <1>1, <1>2 DEF Inv, Unread, Ahead
  <2> QED
    BY <2>1, <2>2
<1> QED
  BY <1>2 DEF Inv, SetsFollowClients, Unread, NoReuse

(* A step that goes on to the next descriptor: the clients may have lost   *)
(* i's, and i's input may have been received.                              *)
LEMMA GoesOn ==
  ASSUME Inv, Advance, i # 0, UNCHANGED <<read_set, fdmax>>,
         Live' \subseteq Live,
         \A fd \in Fds : fd = i \/ input'[fd] = input[fd]
  PROVE  Unread' /\ NoReuse' /\ i' \in {0} \cup (listenfd .. fdmax) /\ at' = "write"
<1>0. /\ Live \subseteq Fds /\ Fds \subseteq Nat /\ i \in Nat
  BY Descriptors DEF Inv
<1>1. /\ i' \in {0} \cup (listenfd .. fdmax) /\ at' = "write"
      /\ i' # listenfd
      /\ \A fd \in Nat : i' # 0 /\ fd >= i' => fd > i
  BY Advanced DEF Inv
<1>2. ASSUME NEW fd \in read_set' \cap Live', Ahead(fd)'
      PROVE  input'[fd] # "none"
  <2>1. fd \in Fds /\ fd \in Nat /\ fd \in read_set \cap Live
    BY <1>0, <1>2
  <2>2. i' # 0 /\ fd >= i' /\ i' \in Nat
    BY <1>2, <1>1, <2>1, Descriptors DEF Ahead, Inv, TypeOK
  <2>3. fd > i
    BY <1>1, <2>1, <2>2
  <2>4. input[fd] # "none"
    BY <2>1, <2>3 DEF Inv, Unread, Ahead
  <2> QED
    BY <2>1, <2>3, <2>4, <1>0
<1> QED
  BY <1>1, <1>2 DEF Unread, NoReuse

-----------------------------------------------------------------------------
(* The steps                                                               *)

LEMMA WorldKeeps ==
  ASSUME Inv, World
  PROVE  Inv'
<1>1. UNCHANGED <<clients, sets, pass, status>>
  BY DEF World, Connect, Abort, Speak, Leave, Read
<1>2. /\ backlog' \in 0 .. MaxBacklog /\ room' \subseteq Fds
      /\ input' \in [Fds -> {"none", "text", "hangup"}]
      /\ \A fd \in Fds : input[fd] # "none" => input'[fd] # "none"
  <2>1. MaxBacklog \in Nat /\ backlog \in 0 .. MaxBacklog /\ room \subseteq Fds
        /\ input \in [Fds -> {"none", "text", "hangup"}]
    BY FdAssumption DEF Inv, TypeOK
  <2>2. CASE Connect
    BY <2>1, <2>2 DEF Connect
  <2>3. CASE Abort
    BY <2>1, <2>3 DEF Abort
  <2>4. CASE \E c \in Fds : Speak(c) \/ Leave(c) \/ Read(c)
    BY <2>1, <2>4 DEF Speak, Leave, Read
  <2> QED
    BY <2>2, <2>3, <2>4 DEF World
<1>3. TypeOK'
  BY <1>1, <1>2 DEF Inv, TypeOK
<1> QED
  BY <1>1, <1>2, <1>3, StaysPut DEF Inv, Idle

LEMMA SelectKeeps ==
  ASSUME Inv, Select
  PROVE  Inv'
<1>0. /\ Live \subseteq Fds /\ Fds \subseteq Nat /\ listenfd \in Nat \ {0}
      /\ listenfd \notin Fds /\ fdmax \in Nat
      /\ master_set = Live \cup {listenfd}
  BY Descriptors DEF Inv, SetsFollowClients
<1>1. listenfd <= fdmax
  BY <1>0 DEF Inv, SetsFollowClients
<1>2. TypeOK'
  BY <1>0, <1>1 DEF Select, Inv, TypeOK
<1>3. SetsFollowClients'
  BY DEF Select, Inv, SetsFollowClients
<1>4. Unread'
  BY <1>0 DEF Select, Ready, Unread
<1>5. NoReuse'
  BY <1>0 DEF Select, NoReuse
<1> QED
  BY <1>0, <1>2, <1>3, <1>4, <1>5 DEF Select, Inv, Idle

LEMMA WriteKeeps ==
  ASSUME Inv, WriteBranch
  PROVE  Inv'
<1>1. i \in Fds \/ NotWritable
  BY Descriptors DEF WriteBranch, SendLine, SendPart, SendHangsUp, AllSent, Inv,
                     SetsFollowClients
<1>2. TypeOK'
  <2>1. CASE NotWritable
    BY <2>1 DEF NotWritable, Inv, TypeOK
  <2>2. CASE SendLine
    <3>1. queued[i] \in 1 .. MaxQueued
      BY <2>2, <1>1 DEF SendLine, NotWritable, Inv, TypeOK
    <3>2. queued' \in [Fds -> 0 .. MaxQueued]
      <4>1. i \in Fds /\ queued \in [Fds -> 0 .. MaxQueued]
        BY <2>2, <1>1 DEF SendLine, NotWritable, Inv, TypeOK
      <4>2. queued' = [queued EXCEPT ![i] = @ - 1]
        BY <2>2 DEF SendLine
      <4>3. queued[i] - 1 \in 0 .. MaxQueued
        BY <3>1, FdAssumption
      <4> QED
        BY <4>1, <4>2, <4>3
    <3>3. room' \subseteq Fds /\ begun' \subseteq Fds
      BY <2>2 DEF SendLine, Inv, TypeOK
    <3> QED
      BY <2>2, <3>2, <3>3 DEF SendLine, Inv, TypeOK
  <2>3. CASE SendPart
    BY <2>3, <1>1 DEF SendPart, NotWritable, Inv, TypeOK
  <2>4. CASE SendHangsUp
    BY <2>4 DEF SendHangsUp, Inv, TypeOK
  <2>5. CASE AllSent
    BY <2>5 DEF AllSent, Inv, TypeOK
  <2> QED
    BY <2>1, <2>2, <2>3, <2>4, <2>5 DEF WriteBranch
<1>4. i # 0
  BY Descriptors, <1>1 DEF NotWritable, Inv
<1>3. /\ UNCHANGED <<clientList, master_set, read_set, fdmax, i, input>>
      /\ write_set' \subseteq write_set /\ at = "write" /\ at' # "lines"
  BY DEF WriteBranch, NotWritable, SendLine, SendPart, SendHangsUp, AllSent
<1> QED
  BY <1>2, <1>3, <1>4, StaysPut DEF Inv, Idle

LEMMA AcceptKeeps ==
  ASSUME Inv, Accept
  PROVE  Inv'
<1>0. /\ Live \subseteq Fds /\ Fds \subseteq Nat /\ listenfd \in Nat \ {0}
      /\ listenfd \notin Fds /\ fdmax \in Nat /\ i = listenfd
      /\ \A fd \in Fds : fd > listenfd
  BY Descriptors DEF Inv, Accept, AtListen
<1>1. PICK newfd \in Fds :
        /\ LowestFree(newfd)
        /\ clientList' = Append(clientList, newfd)
        /\ master_set' = master_set \cup {newfd}
        /\ fdmax' = IF newfd > fdmax THEN newfd ELSE fdmax
        /\ i' = i + 1
  BY DEF Accept
<1>2. newfd \notin Live
  BY <1>1 DEF LowestFree
<1>3. /\ clientList' \in Seq(Fds) /\ IsInjective(clientList')
      /\ Live' = Live \cup {newfd}
  BY <1>1, <1>2, AddProperties DEF Inv, TypeOK, SetsFollowClients
<1>4. fdmax' \in Fds \cup {listenfd} /\ newfd <= fdmax' /\ fdmax <= fdmax'
  BY <1>0, <1>1 DEF Inv, TypeOK
<1>5. i' \in listenfd .. fdmax'
  BY <1>0, <1>1, <1>4
<1>6. TypeOK'
  <2>1. UNCHANGED <<queued, begun, read_set, write_set, listIndex, lines, input, room,
                    status>> /\ at' = "write"
    BY DEF Accept
  <2>2. backlog' \in 0 .. MaxBacklog
    BY FdAssumption DEF Accept, Inv, TypeOK
  <2> QED
    BY <1>1, <1>3, <1>4, <1>5, <2>1, <2>2 DEF Inv, TypeOK
<1>7. SetsFollowClients'
  <2>1. master_set' = Live' \cup {listenfd} /\ write_set' \subseteq Live'
    BY <1>1, <1>3 DEF Accept, Inv, SetsFollowClients
  <2>2. \A fd \in master_set' : fd <= fdmax'
    <3>1. fdmax' \in Nat /\ newfd \in Nat /\ master_set \subseteq Nat
      BY <1>0, <1>4 DEF Inv, SetsFollowClients
    <3>2. \A fd \in master_set : fd <= fdmax
      BY DEF Inv, SetsFollowClients
    <3> QED
      BY <1>0, <1>1, <1>4, <3>1, <3>2
  <2> QED
    BY <1>3, <2>1, <2>2 DEF SetsFollowClients
<1>8. newfd \notin read_set
  BY <1>0, <1>2 DEF Inv, NoReuse
<1>9. Unread'
  <2>1. ASSUME NEW fd \in read_set' \cap Live', Ahead(fd)' PROVE input'[fd] # "none"
    <3>1. fd \in read_set \cap Live /\ fd \in Fds
      BY <1>0, <1>3, <1>8, <2>1 DEF Accept
    <3>2. Ahead(fd)
      BY <1>0, <3>1 DEF Ahead
    <3> QED
      BY <3>1, <3>2 DEF Accept, Inv, Unread
  <2> QED
    BY <2>1 DEF Unread
<1>10. NoReuse'
  BY <1>0, <1>1 DEF NoReuse
<1> QED
  BY <1>6, <1>7, <1>9, <1>10 DEF Accept, Inv, Idle

LEMMA ReadKeeps ==
  ASSUME Inv, ReadBranch
  PROVE  Inv'
<1>0. /\ Live \subseteq Fds /\ Fds \subseteq Nat /\ listenfd \in Nat \ {0}
      /\ listenfd \notin Fds /\ fdmax \in Nat
      /\ read_set \subseteq Fds \cup {listenfd}
  BY Descriptors DEF Inv, TypeOK
<1>1. CASE NotReadable \/ AcceptFails \/ AcceptDrops \/ ClientGone \/ RecvNoLine
  <2>1. /\ Advance /\ i # 0
        /\ UNCHANGED <<clients, read_set, write_set, fdmax, listIndex, lines, status>>
        /\ backlog' \in 0 .. MaxBacklog
    <3>1. MaxBacklog \in Nat /\ backlog \in 0 .. MaxBacklog
      BY FdAssumption DEF Inv, TypeOK
    <3>2. at = "read" /\ i # 0
      <4>1. i # 0 \/ at # "read"
        BY <1>0 DEF Inv, Idle
      <4> QED
        BY <1>1, <4>1 DEF NotReadable, AcceptFails, AcceptDrops, ClientGone,
                          RecvNoLine, AtListen, AtClient
    <3> QED
      BY <1>1, <3>1, <3>2 DEF NotReadable, AcceptFails, AcceptDrops, ClientGone,
                              RecvNoLine
  <2>2. /\ master_set' = master_set /\ room' = room
        /\ input' \in [Fds -> {"none", "text", "hangup"}]
        /\ \A fd \in Fds : fd = i \/ input'[fd] = input[fd]
    <3>1. CASE ClientGone
      <4>1. i \notin master_set
        BY <3>1 DEF ClientGone, AtClient, Inv, SetsFollowClients
      <4> QED
        BY <3>1, <4>1 DEF ClientGone, Inv, TypeOK
    <3>2. CASE RecvNoLine
      BY <3>2 DEF RecvNoLine, Inv, TypeOK
    <3>3. CASE NotReadable \/ AcceptFails \/ AcceptDrops
      BY <3>3 DEF NotReadable, AcceptFails, AcceptDrops, Inv, TypeOK
    <3> QED
      BY <1>1, <3>1, <3>2, <3>3
  <2>3. Unread' /\ NoReuse' /\ i' \in {0} \cup (listenfd .. fdmax) /\ at' = "write"
    BY <2>1, <2>2, GoesOn
  <2>4. TypeOK'
    BY <2>1, <2>2, <2>3 DEF Inv, TypeOK
  <2>5. SetsFollowClients'
    BY <2>1, <2>2 DEF Inv, SetsFollowClients
  <2> QED
    BY <2>3, <2>4, <2>5 DEF Inv, Idle
<1>2. CASE Accept
  BY <1>2, AcceptKeeps
<1>3. CASE RecvHangsUp
  <2>1. i \in Live /\ remove_client(i) /\ Advance /\ i # 0
        /\ UNCHANGED <<read_set, fdmax, listIndex, lines, backlog, status>>
    <3>1. /\ i \in Live /\ remove_client(i) /\ Advance
          /\ UNCHANGED <<read_set, fdmax, listIndex, lines, backlog, status>>
      BY <1>3 DEF RecvHangsUp
    <3>2. i \in Fds /\ i > listenfd
      BY <3>1, Descriptors DEF Inv
    <3> QED
      BY <3>1, <3>2, <1>0
  <2>2. /\ clientList' \in Seq(Fds) /\ IsInjective(clientList')
        /\ Live' = Live \ {i}
        /\ master_set' = Live' \cup {listenfd} /\ write_set' \subseteq Live'
        /\ queued' \in [Fds -> 0 .. MaxQueued] /\ begun' \subseteq Fds
        /\ input' = [input EXCEPT ![i] = "none"]
        /\ input' \in [Fds -> {"none", "text", "hangup"}] /\ room' \subseteq Fds
    BY <2>1, Removed DEF Inv
  <2>3. Unread' /\ NoReuse' /\ i' \in {0} \cup (listenfd .. fdmax) /\ at' = "write"
    BY <2>1, <2>2, GoesOn
  <2>4. master_set' \subseteq master_set
    BY <2>2 DEF Inv, SetsFollowClients
  <2>5. TypeOK'
    BY <2>1, <2>2, <2>3, <2>4, <1>0 DEF Inv, TypeOK
  <2>6. SetsFollowClients'
    BY <2>1, <2>2, <2>4 DEF Inv, SetsFollowClients
  <2> QED
    BY <2>3, <2>5, <2>6 DEF Inv, Idle
<1>4. CASE RecvLines
  <2>1. /\ i \in Live /\ i # listenfd /\ at = "read" /\ at' = "lines"
        /\ input' = [input EXCEPT ![i] = "none"]
        /\ lines' \in 1 .. MaxBatch
        /\ UNCHANGED <<clients, sets, i, backlog, room, status>>
    BY <1>4 DEF RecvLines, AtClient
  <2>2. listIndex' \in Nat \ {0}
    <3>1. /\ clientList \in Seq(Fds) /\ IsInjective(clientList)
          /\ i \in ToSet(clientList)
      BY <2>1 DEF Inv, TypeOK, SetsFollowClients
    <3>2. listIndex' \in 1 .. Len(clientList)
      BY <1>4, <3>1, IndexOfEntry DEF RecvLines
    <3> QED
      BY <3>1, <3>2, LenProperties
  <2>3. i \in Fds /\ i # 0
    BY <2>1, <1>0, Descriptors DEF Inv
  <2>4. input' \in [Fds -> {"none", "text", "hangup"}] /\ lines' \in 0 .. MaxBatch
    <3>1. input' = [input EXCEPT ![i] = "none"]
          /\ input \in [Fds -> {"none", "text", "hangup"}]
      BY <2>1 DEF Inv, TypeOK
    <3>2. lines' \in 1 .. MaxBatch /\ MaxBatch \in Nat
      BY <2>1, FdAssumption
    <3>3. input' \in [Fds -> {"none", "text", "hangup"}]
      BY <3>1
    <3>4. lines' \in 0 .. MaxBatch
      BY <3>2
    <3> QED
      BY <3>3, <3>4
  <2>5. TypeOK'
    BY <2>1, <2>2, <2>4 DEF Inv, TypeOK
  <2>6. SetsFollowClients' /\ Unread' /\ NoReuse'
    BY <2>1, <1>0, StaysPut DEF Inv, TypeOK
  <2> QED
    BY <2>1, <2>2, <2>3, <2>5, <2>6 DEF Inv, Idle
<1> QED
  BY <1>1, <1>2, <1>3, <1>4 DEF ReadBranch

LEMMA HandlersKeep ==
  ASSUME Inv, Handlers
  PROVE  Inv'
<1>0. /\ Live \subseteq Fds /\ Fds \subseteq Nat /\ listenfd \in Nat \ {0}
      /\ listenfd \notin Fds /\ fdmax \in Nat /\ at = "lines" /\ i # 0
      /\ MaxQueued \in Nat \ {0} /\ lines \in 0 .. MaxBatch /\ MaxBatch \in Nat
  BY Descriptors, FdAssumption
     DEF Inv, Idle, TypeOK, Handlers, LineTalks, LineQuits, LineDangles, EndOfLines,
         HandlingLine
<1>1. CASE LineTalks
  <2>1. /\ UNCHANGED <<clientList, begun, sets, i, at, listIndex, world, status>>
        /\ lines' \in 0 .. MaxBatch
    BY <1>0, <1>1 DEF LineTalks, HandlingLine
  <2>2. queued' \in [Fds -> 0 .. MaxQueued]
    BY <1>0, <1>1 DEF LineTalks, Heard, Inv, TypeOK
  <2>3. TypeOK'
    BY <2>1, <2>2 DEF Inv, TypeOK
  <2> QED
    BY <2>1, <2>3, StaysPut DEF Inv, Idle
<1>2. CASE LineQuits
  <2>1. /\ HandlingLine /\ listIndex <= Len(clientList)
        /\ remove_client(clientList[listIndex])
        /\ lines' \in 0 .. MaxBatch
        /\ UNCHANGED <<read_set, fdmax, i, at, listIndex, backlog, status>>
    BY <1>0, <1>2 DEF LineQuits, HandlingLine
  <2> DEFINE c == clientList[listIndex]
  <2>2. c \in Live
    <3>1. clientList \in Seq(Fds) /\ listIndex \in Nat /\ listIndex # 0
      BY <1>0 DEF Inv, TypeOK, Idle
    <3>2. listIndex \in 1 .. Len(clientList) /\ DOMAIN clientList = 1 .. Len(clientList)
      BY <3>1, <2>1, LenProperties
    <3> QED
      BY <3>2 DEF ToSet
  <2> HIDE DEF c
  <2>3. /\ clientList' \in Seq(Fds) /\ IsInjective(clientList')
        /\ Live' = Live \ {c}
        /\ master_set' = Live' \cup {listenfd} /\ write_set' \subseteq Live'
        /\ queued' \in [Fds -> 0 .. MaxQueued] /\ begun' \subseteq Fds
        /\ input' = [input EXCEPT ![c] = "none"]
        /\ input' \in [Fds -> {"none", "text", "hangup"}] /\ room' \subseteq Fds
    BY <2>1, <2>2, Removed DEF Inv, c
  <2>4. master_set' \subseteq master_set
    BY <2>3 DEF Inv, SetsFollowClients
  <2>5. TypeOK'
    BY <2>1, <2>3, <2>4, <1>0 DEF Inv, TypeOK
  <2>6. SetsFollowClients'
    BY <2>1, <2>3, <2>4 DEF Inv, SetsFollowClients
  <2>7. Unread'
    BY <2>1, <2>3, <1>0 DEF Inv, Unread, Ahead, TypeOK
  <2>8. NoReuse'
    BY <2>1, <1>0 DEF Inv, NoReuse
  <2> QED
    BY <2>1, <2>5, <2>6, <2>7, <2>8 DEF Inv, Idle
<1>3. CASE LineDangles
  BY <1>3, <1>0, StaysPut DEF LineDangles, Inv, TypeOK, Idle
<1>4. CASE EndOfLines
  <2>1. /\ Advance /\ UNCHANGED <<clients, master_set, read_set, fdmax, lines, world, status>>
        /\ write_set' = write_set \cup {c \in Live : queued[c] > 0} /\ listIndex' = 0
    BY <1>4 DEF EndOfLines
  <2>2. Unread' /\ NoReuse' /\ i' \in {0} \cup (listenfd .. fdmax) /\ at' = "write"
    BY <1>0, <2>1, GoesOn
  <2>3. TypeOK'
    BY <1>0, <2>1, <2>2 DEF Inv, TypeOK
  <2>4. SetsFollowClients'
    BY <2>1 DEF Inv, SetsFollowClients
  <2> QED
    BY <2>2, <2>3, <2>4 DEF Inv, Idle
<1> QED
  BY <1>1, <1>2, <1>3, <1>4 DEF Handlers

(* What main knows in the middle of a pass over the descriptors            *)
(* (sircd.c:204-347) is kept by every step of it and of the peers.         *)
THEOREM InvInvariant == Spec => []Inv
<1>1. Init => Inv
  <2> SUFFICES ASSUME Init PROVE Inv
    OBVIOUS
  <2>1. clientList = <<>> /\ Live = {}
    BY DEF Init, ToSet
  <2>2. TypeOK
    BY FdAssumption, <2>1 DEF Init, TypeOK
  <2>3. SetsFollowClients
    BY FdAssumption, <2>1 DEF Init, SetsFollowClients, IsInjective
  <2> QED
    BY <2>1, <2>2, <2>3, FdAssumption DEF Init, Inv, Unread, NoReuse, Idle
<1>2. ASSUME Inv, [Next]_vars PROVE Inv'
  <2>1. CASE UNCHANGED vars
    <3>1. UNCHANGED <<clients, sets, pass, world, status>>
      BY <2>1
    <3>2. TypeOK' /\ SetsFollowClients'
      BY <1>2, <3>1 DEF Inv, TypeOK, SetsFollowClients
    <3>3. Unread'
      BY <1>2, <3>1 DEF Inv, Unread, Ahead
    <3>4. NoReuse' /\ Idle'
      BY <1>2, <3>1 DEF Inv, NoReuse, Idle
    <3> QED
      BY <3>2, <3>3, <3>4 DEF Inv
  <2> QED
    BY <1>2, <2>1, WorldKeeps, SelectKeeps, WriteKeeps, ReadKeeps, HandlersKeep
       DEF Next, Server
<1> QED
  BY <1>1, <1>2, PTL DEF Spec

(* Every variable keeps to its type: the pass stays between the listening  *)
(* descriptor and fdmax.                                                   *)
THEOREM TypeCorrect == Spec => []TypeOK
<1>1. Inv => TypeOK
  BY DEF Inv
<1> QED
  BY <1>1, InvInvariant, PTL

(* However clients come and go in the middle of a pass, select watches     *)
(* exactly the open sockets and the write branch only meets clients.       *)
THEOREM SetsFollow == Spec => []SetsFollowClients
<1>1. Inv => SetsFollowClients
  BY DEF Inv
<1> QED
  BY <1>1, InvInvariant, PTL

(* The server never waits in recv for a client, with any number of         *)
(* clients, whatever descriptors are closed and handed out again.          *)
THEOREM NeverWaits == Spec => []NeverWaitsInRecv
<1>1. Inv => NeverWaitsInRecv
  <2> SUFFICES ASSUME Inv, RecvWaits PROVE FALSE
    BY DEF NeverWaitsInRecv
  <2>1. i \in read_set \cap Live /\ at = "read" /\ i # 0 /\ input[i] = "none"
    BY Descriptors DEF RecvWaits, AtClient, Inv
  <2> QED
    BY <2>1 DEF Inv, Unread, Ahead
<1> QED
  BY <1>1, InvInvariant, PTL

-----------------------------------------------------------------------------
(* The interest in the sockets                                             *)

(* A descriptor that is nobody's has nothing queued.                       *)
Silent == \A c \in Fds : c \notin Live => queued[c] = 0

(* A client that is removed takes its queued text with it; the others keep *)
(* theirs, and their bits.                                                 *)
LEMMA RemovedIsSilent ==
  ASSUME Inv, Silent, NEW c \in Live, remove_client(c)
  PROVE  /\ Silent'
         /\ \A d \in Fds : queued'[d] > 0 => queued'[d] = queued[d]
                          /\ (d \in write_set => d \in write_set')
<1>1. Live' = Live \ {c}
  BY Removed DEF Inv
<1>2. queued' = [queued EXCEPT ![c] = 0] /\ write_set' = write_set \ {c}
  BY DEF remove_client
<1>3. queued \in [Fds -> 0 .. MaxQueued]
  BY DEF Inv, TypeOK
<1>4. \A d \in Fds : queued'[d] = IF d = c THEN 0 ELSE queued[d]
  BY <1>2, <1>3
<1> QED
  BY <1>1, <1>2, <1>4 DEF Silent

LEMMA InterestStays ==
  ASSUME Inv, Silent, [Next]_vars
  PROVE  /\ Silent'
         /\ \A c \in Fds : Watched(c) /\ (i # 0 \/ c \in room) => Watched(c)'
<1>0. /\ clientList \in Seq(Fds) /\ IsInjective(clientList) /\ Live \subseteq Fds
      /\ queued \in [Fds -> 0 .. MaxQueued] /\ MaxQueued \in Nat
  BY Descriptors, FdAssumption DEF Inv, TypeOK, SetsFollowClients
<1>1. CASE World \/ UNCHANGED vars
  <2>1. UNCHANGED <<clientList, queued, write_set, at>>
    BY <1>1 DEF World, Connect, Abort, Speak, Leave, Read
  <2> QED
    BY <2>1 DEF Silent, Watched
<1>2. CASE Select
  <2>1. i = 0 /\ at # "lines" /\ write_set' = write_set \cap room
        /\ UNCHANGED clients
    BY <1>2 DEF Select, Inv, Idle
  <2> QED
    BY <2>1 DEF Silent, Watched
<1>3. CASE WriteBranch
  <2>0. at # "lines" /\ clientList' = clientList
    BY <1>3 DEF WriteBranch, NotWritable, SendLine, SendPart, SendHangsUp, AllSent
  <2>1. CASE SendLine
    <3>1. i \in Live /\ queued[i] > 0 /\ queued' = [queued EXCEPT ![i] = @ - 1]
          /\ write_set' = write_set /\ i \in write_set
      BY <2>1 DEF SendLine, Inv, SetsFollowClients
    <3>2. \A c \in Fds : c # i => queued'[c] = queued[c]
      BY <1>0, <3>1
    <3> QED
      BY <2>0, <3>1, <3>2 DEF Silent, Watched
  <2>2. CASE AllSent
    <3>1. queued[i] = 0 /\ queued' = queued /\ write_set' = write_set \ {i}
      BY <2>2 DEF AllSent
    <3> QED
      BY <2>0, <3>1, <1>0 DEF Silent, Watched
  <2>3. CASE NotWritable \/ SendPart \/ SendHangsUp
    <3>1. queued' = queued /\ write_set' = write_set
      BY <2>3 DEF NotWritable, SendPart, SendHangsUp
    <3> QED
      BY <2>0, <3>1 DEF Silent, Watched
  <2> QED
    BY <1>3, <2>1, <2>2, <2>3 DEF WriteBranch
<1>4. CASE ReadBranch
  <2>0. at # "lines"
    BY <1>4 DEF ReadBranch, NotReadable, Accept, AcceptFails, AcceptDrops, ClientGone,
                RecvHangsUp, RecvNoLine, RecvLines, AtListen, AtClient
  <2>1. CASE Accept
    <3>1. PICK newfd \in Fds : LowestFree(newfd) /\ clientList' = Append(clientList, newfd)
      BY <2>1 DEF Accept
    <3>2. Live' = Live \cup {newfd}
      BY <1>0, <3>1, AddProperties DEF LowestFree
    <3>3. queued' = queued /\ write_set' = write_set
      BY <2>1 DEF Accept
    <3> QED
      BY <2>0, <3>2, <3>3 DEF Silent, Watched
  <2>2. CASE RecvHangsUp
    <3>1. i \in Live /\ remove_client(i)
      BY <2>2 DEF RecvHangsUp
    <3>2. /\ Silent'
          /\ \A d \in Fds : queued'[d] > 0 => queued'[d] = queued[d]
                           /\ (d \in write_set => d \in write_set')
      BY <3>1, RemovedIsSilent
    <3> QED
      BY <2>0, <3>2 DEF Watched
  <2>3. CASE NotReadable \/ AcceptFails \/ AcceptDrops \/ ClientGone \/ RecvNoLine
             \/ RecvLines
    <3>1. UNCHANGED <<clientList, queued, write_set>>
      BY <2>3 DEF NotReadable, AcceptFails, AcceptDrops, ClientGone, RecvNoLine,
                  RecvLines
    <3> QED
      BY <2>0, <3>1 DEF Silent, Watched
  <2> QED
    BY <1>4, <2>1, <2>2, <2>3 DEF ReadBranch
<1>5. CASE Handlers
  <2>0. at = "lines" /\ listIndex # 0 /\ listIndex \in Nat
    BY <1>5 DEF Handlers, LineTalks, LineQuits, LineDangles, EndOfLines, HandlingLine,
                Inv, Idle, TypeOK
  <2>1. CASE LineTalks
    <3>1. PICK S \in SUBSET Live : queued' = Heard(S)
      BY <2>1 DEF LineTalks
    <3>2. \A c \in Fds : c \notin S => queued'[c] = queued[c]
      BY <1>0, <3>1 DEF Heard
    <3>3. at' = "lines" /\ clientList' = clientList
      BY <2>0, <2>1 DEF LineTalks
    <3> QED
      BY <3>1, <3>2, <3>3 DEF Silent, Watched
  <2>2. CASE LineQuits
    <3>1. remove_client(clientList[listIndex]) /\ at' = "lines"
          /\ listIndex <= Len(clientList)
      BY <2>0, <2>2 DEF LineQuits
    <3>2. clientList[listIndex] \in Live
      <4>1. listIndex \in 1 .. Len(clientList)
            /\ DOMAIN clientList = 1 .. Len(clientList)
        BY <1>0, <2>0, <3>1, LenProperties
      <4> QED
        BY <4>1 DEF ToSet
    <3>3. Silent'
      BY <3>1, <3>2, RemovedIsSilent
    <3> QED
      BY <3>1, <3>3 DEF Watched
  <2>3. CASE LineDangles
    BY <2>3 DEF LineDangles, Silent, Watched
  <2>4. CASE EndOfLines
    <3>1. /\ clientList' = clientList /\ queued' = queued
          /\ write_set' = write_set \cup {c \in Live : queued[c] > 0}
      BY <2>4 DEF EndOfLines
    <3>2. \A c \in Fds : queued[c] > 0 => c \in Live
      BY <1>0 DEF Silent
    <3> QED
      BY <3>1, <3>2 DEF Silent, Watched
  <2> QED
    BY <1>5, <2>1, <2>2, <2>3, <2>4 DEF Handlers
<1> QED
  BY <1>1, <1>2, <1>3, <1>4, <1>5 DEF Next, Server

LEMMA SilentInvariant == Spec => []Silent
<1>1. Init => Silent
  BY DEF Init, Silent
<1>2. Inv /\ Silent /\ [Next]_vars => Silent'
  BY InterestStays
<1> QED
  BY <1>1, <1>2, InvInvariant, PTL DEF Spec

(* A client to which something is to be sent is forgotten in select, and   *)
(* when its socket has no room, not anywhere else in main (sircd.c:205,    *)
(* 214-252, 334-339).                                                      *)
THEOREM InterestIsKept == Spec => OnlySelectForgets
<1>1. Inv /\ Silent /\ [Next]_vars
        => [\A c \in Fds : Watched(c) /\ (i # 0 \/ c \in room) => Watched(c)']_vars
  BY InterestStays
<1> QED
  BY <1>1, InvInvariant, SilentInvariant, PTL DEF Spec, OnlySelectForgets

(* So where the sockets always have room, nobody with something queued is  *)
(* ever missing from write_set but while lines are handled.                *)
THEOREM WithRoomAllWatched ==
  Spec => ([](room = Fds) => [](\A c \in Fds : Watched(c)))
<1> DEFINE All == \A c \in Fds : Watched(c)
<1>1. Init => All
  BY DEF Init, Watched
<1>2. Inv /\ Silent /\ room = Fds /\ All /\ [Next]_vars => All'
  BY InterestStays
<1> HIDE DEF All
<1>3. Spec => ([](room = Fds) => []All)
  BY <1>1, <1>2, InvInvariant, SilentInvariant, PTL DEF Spec
<1> QED
  BY <1>3 DEF All

=============================================================================
