------------------------------ MODULE IrcProto ------------------------------
(***************************************************************************)
(* The command handlers of irc_proto.c with the client and channel lists   *)
(* of common.c that they keep, driven by the loop of sircd.c's main that   *)
(* hands the lines received on one socket to handle_line one by one.       *)
(*                                                                         *)
(* One step is one pass of main over a connection event, one handled line, *)
(* or, for PART, PRIVMSG and WHO, one target of the line's comma list (an  *)
(* iteration of the handler's loop; nothing else can run in between).      *)
(*                                                                         *)
(* A client_t lives exactly as long as its socket is open and is named by  *)
(* that descriptor.  A channel_t is named by its address.  What a handler  *)
(* appends to the clients' outbufs is kept for the last step only, in      *)
(* queued.  status becomes "failed" when the process traps or goes on with *)
(* a dangling pointer: nothing is said about it from then on.              *)
(***************************************************************************)
EXTENDS Naturals, ArraylistOps

CONSTANTS
  Fds,        \* the descriptors accept may return
  ChanIds,    \* the addresses malloc may return for a channel_t
  Nobody,     \* no descriptor; as the source of a message, the server
  Words,      \* the words a parameter may be or be split into
  Empty,      \* the word ""
  Nicks,      \* the words isValidNick accepts
  Channames,  \* the words isValidChanname accepts
  FullNames,  \* those of exactly MAX_CHANNAME characters
  Overlong,   \* a full name |-> the name followed by one stray character
  Folded,     \* strcasecmp compares nicknames by their folded form
  Params,     \* first parameters of JOIN, PART, PRIVMSG and WHO
  Trapping,   \* those that splitByDelimStr(_, ",", _, NULL) traps on
  Tokens      \* what it returns for the others, <<>> standing for NULL

ASSUME ConstAssumption ==
  /\ Nobody \notin Fds
  /\ Empty \in Words
  /\ Nicks \subseteq Words /\ Empty \notin Nicks
  /\ Channames \subseteq Words /\ FullNames \subseteq Channames
  /\ Overlong \in [FullNames -> Words \ Channames]
  /\ Empty \notin Channames
  /\ \A n \in FullNames : Overlong[n] # Empty
  /\ DOMAIN Folded = Nicks
  /\ Trapping \subseteq Params
  /\ Tokens \in [Params \ Trapping -> Seq(Words)]

VARIABLES
  status,       \* "running" or "failed"
  clientList,   \* main's clientList
  nick,         \* client_t.nick
  user,         \* whether client_t.user is non-empty
  registered,   \* client_t.registered
  chanlist,     \* client_t.chanlist
  channelList,  \* main's channelList
  channame,     \* channel_t.name
  userlist,     \* channel_t.userlist
  serving,      \* main's i while lines of that socket are handled, or Nobody
  listIndex,    \* main's listIndex, taken before the first of those lines
  todo,         \* the loop over targets inside the current handler
  queued        \* what the last step appended to each client's outbuf

clientVars == <<clientList, nick, user, registered>>
roomVars == <<chanlist, channelList, channame, userlist>>
vars == <<status, clientVars, roomVars, serving, listIndex, todo, queued>>

Commands == {"NICK", "USER", "QUIT", "JOIN", "PART", "LIST", "PRIVMSG", "WHO"}

(* The dispatch table.                                                     *)
needreg(cmd) == cmd \notin {"NICK", "USER"}
minparams(cmd) ==
  CASE cmd = "USER" -> 4
    [] cmd \in {"JOIN", "PART"} -> 1
    [] OTHER -> 0

(* A handler in its loop: the words it has left, and for PRIVMSG whether   *)
(* the line had the second parameter that is sent to them.                 *)
NoCall == [cmd |-> "none", targets |-> <<>>, text |-> FALSE]
Calls == {NoCall} \cup [cmd: {"PART", "PRIVMSG", "WHO"},
                        targets: Seq(Words) \ {<<>>}, text: BOOLEAN]

Kinds == {"NICK", "QUIT", "JOIN", "PRIVMSG", "MOTD", "RPL_NAMREPLY",
          "RPL_ENDOFNAMES", "RPL_LISTSTART", "RPL_LIST", "RPL_LISTEND",
          "RPL_WHOREPLY", "RPL_ENDOFWHO", "ERR_NOSUCHNICK",
          "ERR_NOSUCHCHANNEL", "ERR_TOOMANYCHANNELS", "ERR_NORECIPIENT",
          "ERR_NOTEXTTOSEND", "ERR_UNKNOWNCOMMAND", "ERR_ERRONEOUSNICKNAME",
          "ERR_NICKNAMEINUSE", "ERR_NONICKNAMEGIVEN", "ERR_NOTONCHANNEL",
          "ERR_NOTREGISTERED", "ERR_NEEDMOREPARAMS", "ERR_ALREADYREGISTRED"}

(* A message: its command or numeric, whose it is, and the clients or      *)
(* channels a listing names (consecutive lines of one listing are one).    *)
Messages == [kind: Kinds, from: Fds \cup {Nobody},
             about: SUBSET (Fds \cup ChanIds)]
Msg(kind, from, about) == [kind |-> kind, from |-> from, about |-> about]

-----------------------------------------------------------------------------
(* Helpers over the state.                                                 *)

Live == ToSet(clientList)
Channels == ToSet(channelList)
Members(ch) == ToSet(userlist[ch])
Joined(c) == ToSet(chanlist[c])

(* CLIENT_GET(clientList, srcIndex) at the head of every handler.          *)
Sender == clientList[listIndex]

FindFirst(list, Test(_)) ==
  IF \E i \in DOMAIN list : Test(list[i])
  THEN CHOOSE i \in DOMAIN list :
         Test(list[i]) /\ \A j \in 1 .. i - 1 : ~Test(list[j])
  ELSE 0
findClientIndexByNick(w) ==
  FindFirst(clientList, LAMBDA c : nick[c] = w)

(* Mutant: the search begins at the second channel.                        *)
findChannelIndexByChanname_SkipsFirst(w) ==
  IF channelList = <<>> THEN 0
  ELSE LET i == FindFirst(Tail(channelList), LAMBDA ch : channame[ch] = w)
       IN  IF i = 0 THEN 0 ELSE i + 1

findChannelIndexByChanname(w) ==
  FindFirst(channelList, LAMBDA ch : channame[ch] = w)

Silence == [c \in Fds |-> <<>>]
To(receivers, msg) ==
  [c \in Fds |-> IF c \in receivers THEN <<msg>> ELSE <<>>]
(* Once for each entry of list.                                            *)
Copies(n, msg) == [i \in 1 .. n |-> msg]
ToEach(list, msg) ==
  [r \in Fds |-> Copies(Cardinality({j \in DOMAIN list : list[j] = r}), msg)]
(* Mutant: the sender is a receiver too.                                   *)
ToPeers_Self(c, msg) ==
  [r \in Fds |-> Copies(Cardinality({i \in DOMAIN chanlist[c] :
                                       r \in Members(chanlist[c][i])}), msg)]

(* The two nested loops over sender->chanlist and each of their userlists, *)
(* with receiver != sender.                                                *)
ToPeers(c, msg) ==
  [r \in Fds |->
     IF r = c
     THEN <<>>
     ELSE Copies(Cardinality({i \in DOMAIN chanlist[c] :
                                r \in Members(chanlist[c][i])}), msg)]
Both(first, second) == [c \in Fds |-> first[c] \o second[c]]
Numeric(kind, about) == To({Sender}, Msg(kind, Nobody, about))

Running == status = "running"
AtRest == Running /\ serving = Nobody
InHandler == Running /\ todo # NoCall

(* handle_line is called on a live client and reaches the handler of cmd.  *)
AtLine == Running /\ serving # Nobody /\ todo = NoCall
          /\ listIndex \in DOMAIN clientList

(* Mutant: needreg is not looked at.                                       *)
Dispatched_Unregistered(cmd, n_params) == AtLine /\ n_params >= minparams(cmd)

Dispatched(cmd, n_params) ==
  /\ AtLine
  /\ needreg(cmd) => registered[Sender]
  /\ n_params >= minparams(cmd)

(* The step queues messages and changes nothing else.                      *)
Answer(messages) ==
  /\ queued' = messages
  /\ UNCHANGED <<status, clientVars, roomVars, serving, listIndex, todo>>

Fail ==
  /\ status' = "failed"
  /\ queued' = Silence
  /\ UNCHANGED <<clientVars, roomVars, serving, listIndex, todo>>

-----------------------------------------------------------------------------
Init ==
  /\ status = "running"
  /\ clientList = <<>>
  /\ nick = [c \in Fds |-> Empty]
  /\ user = [c \in Fds |-> FALSE]
  /\ registered = [c \in Fds |-> FALSE]
  /\ chanlist = [c \in Fds |-> <<>>]
  /\ channelList = <<>>
  /\ channame = [ch \in ChanIds |-> Empty]
  /\ userlist = [ch \in ChanIds |-> <<>>]
  /\ serving = Nobody
  /\ listIndex = 0
  /\ todo = NoCall
  /\ queued = Silence

-----------------------------------------------------------------------------
(* main: connections and the lines they bring.                             *)

(* handle_incoming_conn and addClientToList; an accept, or the malloc of a *)
(* client_t, that fails changes nothing.  Lists are assumed to grow.       *)
Accept(c) ==
  /\ AtRest
  /\ c \notin Live
  /\ clientList' = Append(clientList, c)
  /\ nick' = [nick EXCEPT ![c] = Empty]
  /\ user' = [user EXCEPT ![c] = FALSE]
  /\ registered' = [registered EXCEPT ![c] = FALSE]
  /\ chanlist' = [chanlist EXCEPT ![c] = <<>>]
  /\ queued' = Silence
  /\ UNCHANGED <<status, channelList, channame, userlist, serving, listIndex,
                 todo>>

(* recv returned data on socket c: main looks its index up once, for all   *)
(* the lines it is going to hand over.                                     *)
Receive(c) ==
  /\ AtRest
  /\ c \in Live
  /\ serving' = c
  /\ listIndex' = arraylist_index_of(clientList, c)
  /\ queued' = Silence
  /\ UNCHANGED <<status, clientVars, roomVars, todo>>

(* Cutting the received text into lines traps.                             *)
ReceiveTraps(c) == AtRest /\ c \in Live /\ Fail

(* send failed with EPIPE or ECONNRESET: after remove_client the loop goes *)
(* on with the outbuf that was just freed.                                 *)
SendFails(c) == AtRest /\ c \in Live /\ Fail

(* The last line of this recv has been handled.                            *)
EndOfLines ==
  /\ Running /\ serving # Nobody /\ todo = NoCall
  /\ serving' = Nobody
  /\ listIndex' = 0
  /\ queued' = Silence
  /\ UNCHANGED <<status, clientVars, roomVars, todo>>

(* Mutant: the client's channels are not told to forget it.                *)
remove_client_StaysMember(c) ==
  /\ clientList' = arraylist_remove(clientList, c)
  /\ nick' = [nick EXCEPT ![c] = Empty]
  /\ user' = [user EXCEPT ![c] = FALSE]
  /\ registered' = [registered EXCEPT ![c] = FALSE]
  /\ chanlist' = [chanlist EXCEPT ![c] = <<>>]
  /\ UNCHANGED <<userlist, channelList, channame>>

(* remove_client; freed fields go back to their initial values.            *)
remove_client(c) ==
  /\ userlist' = [ch \in ChanIds |-> IF ch \in Joined(c)
                                     THEN arraylist_remove(userlist[ch], c)
                                     ELSE userlist[ch]]
  /\ clientList' = arraylist_remove(clientList, c)
  /\ nick' = [nick EXCEPT ![c] = Empty]
  /\ user' = [user EXCEPT ![c] = FALSE]
  /\ registered' = [registered EXCEPT ![c] = FALSE]
  /\ chanlist' = [chanlist EXCEPT ![c] = <<>>]
  /\ UNCHANGED <<channelList, channame>>

(* recv returned 0, or failed with ECONNRESET or EPIPE.                    *)
HangUp(c) ==
  /\ AtRest
  /\ c \in Live
  /\ remove_client(c)
  /\ queued' = Silence
  /\ UNCHANGED <<status, serving, listIndex, todo>>

(* A line is left after QUIT has taken the last entry off clientList: the  *)
(* slot listIndex points at still holds the client_t that was freed.       *)
DanglingLine ==
  /\ Running /\ serving # Nobody /\ todo = NoCall
  /\ listIndex \notin DOMAIN clientList
  /\ Fail

-----------------------------------------------------------------------------
(* handle_line: lines that reach no handler.                               *)

UnknownCommand ==
  AtLine /\ Answer(Numeric("ERR_UNKNOWNCOMMAND", {}))

NotRegistered(cmd) ==
  /\ AtLine
  /\ needreg(cmd) /\ ~registered[Sender]
  /\ Answer(Numeric("ERR_NOTREGISTERED", {}))

NeedMoreParams(cmd, n_params) ==
  /\ AtLine
  /\ needreg(cmd) => registered[Sender]
  /\ n_params < minparams(cmd)
  /\ Answer(Numeric("ERR_NEEDMOREPARAMS", {}))

-----------------------------------------------------------------------------
(* NICK, USER and QUIT.                                                    *)

NoNicknameGiven ==
  Dispatched("NICK", 0) /\ Answer(Numeric("ERR_NONICKNAMEGIVEN", {}))

(* Mutant: strcmp for strcasecmp.                                          *)
NickInUse_CaseSensitive(newNick) == \E other \in Live : nick[other] = newNick

NickInUse(newNick) ==
  \E other \in Live : nick[other] # Empty
                      /\ Folded[nick[other]] = Folded[newNick]

NickRefused(newNick) ==
  /\ Dispatched("NICK", 1)
  /\ \/ /\ newNick \notin Nicks
        /\ Answer(Numeric("ERR_ERRONEOUSNICKNAME", {}))
     \/ /\ newNick \in Nicks
        /\ NickInUse(newNick)
        /\ Answer(Numeric("ERR_NICKNAMEINUSE", {}))

cmd_nick(newNick) ==
  /\ Dispatched("NICK", 1)
  /\ newNick \in Nicks
  /\ ~NickInUse(newNick)
  /\ nick' = [nick EXCEPT ![Sender] = newNick]
  /\ registered' = [registered EXCEPT ![Sender] = @ \/ user[Sender]]
  /\ queued' = Both(IF registered[Sender]
                    THEN ToPeers(Sender, Msg("NICK", Sender, {}))
                    ELSE Silence,
                    IF ~registered[Sender] /\ user[Sender]
                    THEN Numeric("MOTD", {})
                    ELSE Silence)
  /\ UNCHANGED <<status, clientList, user, roomVars, serving, listIndex, todo>>

AlreadyRegistered ==
  /\ Dispatched("USER", 4)
  /\ user[Sender]
  /\ Answer(Numeric("ERR_ALREADYREGISTRED", {}))

(* Mutant: USER registers a client that has not given its nickname yet.    *)
cmd_user_Registers ==
  /\ Dispatched("USER", 4)
  /\ ~user[Sender]
  /\ user' = [user EXCEPT ![Sender] = TRUE]
  /\ registered' = [registered EXCEPT ![Sender] = TRUE]
  /\ queued' = Silence
  /\ UNCHANGED <<status, clientList, nick, roomVars, serving, listIndex, todo>>

cmd_user ==
  /\ Dispatched("USER", 4)
  /\ ~user[Sender]
  /\ user' = [user EXCEPT ![Sender] = TRUE]
  /\ registered' = [registered EXCEPT ![Sender] = @ \/ nick[Sender] # Empty]
  /\ queued' = IF ~registered[Sender] /\ nick[Sender] # Empty
               THEN Numeric("MOTD", {})
               ELSE Silence
  /\ UNCHANGED <<status, clientList, nick, roomVars, serving, listIndex, todo>>

(* Mutant: the channels are told after the client is out of them.          *)
cmd_quit_TooLate ==
  /\ Dispatched("QUIT", 0)
  /\ remove_client(Sender)
  /\ queued' = Silence
  /\ UNCHANGED <<status, serving, listIndex, todo>>

(* main goes on with the next line and the same listIndex.                 *)
cmd_quit ==
  /\ Dispatched("QUIT", 0)
  /\ remove_client(Sender)
  /\ queued' = ToPeers(Sender, Msg("QUIT", Sender, {}))
  /\ UNCHANGED <<status, serving, listIndex, todo>>

-----------------------------------------------------------------------------
(* JOIN.  Only the first name of the list is used.                         *)

(* The names channel_alloc_init may leave in name[MAX_CHANNAME + 1]: its   *)
(* strncpy of MAX_CHANNAME characters terminates only shorter ones.        *)
StoredNames(w) == IF w \in FullNames THEN {w, Overlong[w]} ELSE {w}

Named(list) == list \notin Trapping /\ Tokens[list] # <<>>

(* splitByDelimStr traps, or returns the NULL that channames[0] reads.     *)
JoinTraps(list) ==
  /\ Dispatched("JOIN", 1)
  /\ ~Named(list)
  /\ Fail

JoinReaches(list, w, chanIndex) ==
  /\ Dispatched("JOIN", 1)
  /\ Named(list)
  /\ w = Head(Tokens[list])
  /\ chanIndex = findChannelIndexByChanname(w)

AlreadyJoined(list) ==
  \E w \in Words, chanIndex \in DOMAIN channelList :
    /\ JoinReaches(list, w, chanIndex)
    /\ channelList[chanIndex] \in Joined(Sender)
    /\ Answer(Silence)

(* An unknown name that is no channel name, or no memory for the channel.  *)
JoinRefused(list) ==
  \E w \in Words :
    /\ JoinReaches(list, w, 0)
    /\ \/ w \notin Channames /\ Answer(Numeric("ERR_NOSUCHCHANNEL", {}))
       \/ w \in Channames /\ Answer(Numeric("ERR_TOOMANYCHANNELS", {}))

(* arraylist_remove on userlist and chanlist, then on the channel list and *)
(* free when nobody is left, as in part_client_given_channel.              *)

(* Mutant: the user stays in the channel's userlist.                       *)
Without_Kept(users, c, ch) == users

Without(users, c, ch) == [users EXCEPT ![ch] = arraylist_remove(@, c)]

(* Mutants: the empty channel stays listed; the test is inverted.          *)
Kept_Always(list, users, ch) == list
Kept_Inverted(list, users, ch) ==
  IF users[ch] # <<>> THEN arraylist_remove(list, ch) ELSE list

Kept(list, users, ch) ==
  IF users[ch] = <<>> THEN arraylist_remove(list, ch) ELSE list
Freed(names, users, ch) ==
  IF users[ch] = <<>> THEN [names EXCEPT ![ch] = Empty] ELSE names

(* Mutant: the sender stays in the channel it was in.                      *)
EnterFirst_Stays(ch, chanIndex, list, names) ==
  /\ userlist' = [userlist EXCEPT ![ch] = Append(@, Sender)]
  /\ chanlist' = [chanlist EXCEPT ![Sender] = Append(@, ch)]
  /\ channelList' = list
  /\ channame' = names
  /\ queued' = Silence

(* The end of cmd_join: the sender enters channel ch, found or appended at *)
(* chanIndex of list, and leaves the channel it was in.  The announcement  *)
(* goes to the channel that chanIndex designates after that.               *)
EnterFirst(ch, chanIndex, list, names) ==
  LET users == [userlist EXCEPT ![ch] = Append(@, Sender)]
  IN  /\ chanlist[Sender] = <<>>
      /\ userlist' = users
      /\ chanlist' = [chanlist EXCEPT ![Sender] = <<ch>>]
      /\ channelList' = list
      /\ channame' = names
      /\ queued' = Both(Both(Numeric("RPL_NAMREPLY", ToSet(users[ch])),
                             Numeric("RPL_ENDOFNAMES", {ch})),
                        ToEach(users[list[chanIndex]],
                               Msg("JOIN", Sender, {ch})))

EnterNext(ch, chanIndex, list, names) ==
  LET old == Head(chanlist[Sender])
      entered == [userlist EXCEPT ![ch] = Append(@, Sender)]
      users == Without(entered, Sender, old)
      announced == IF users[old] = <<>>
                   THEN SlotAfterRemove(list, old, chanIndex)
                   ELSE list[chanIndex]
  IN  /\ chanlist[Sender] # <<>>
      /\ userlist' = users
      /\ chanlist' = [chanlist EXCEPT
                        ![Sender] = Append(arraylist_remove(@, old), ch)]
      /\ channelList' = Kept(list, users, old)
      /\ channame' = Freed(names, users, old)
      /\ queued' = Both(Both(ToEach(entered[old], Msg("QUIT", Sender, {})),
                             Both(Numeric("RPL_NAMREPLY", ToSet(users[ch])),
                                  Numeric("RPL_ENDOFNAMES", {ch}))),
                        ToEach(users[announced], Msg("JOIN", Sender, {ch})))

Enter(ch, chanIndex, list, names) ==
  /\ \/ EnterFirst(ch, chanIndex, list, names)
     \/ EnterNext(ch, chanIndex, list, names)
  /\ UNCHANGED <<status, clientVars, serving, listIndex, todo>>

JoinExisting(list) ==
  \E w \in Words, chanIndex \in DOMAIN channelList :
    /\ JoinReaches(list, w, chanIndex)
    /\ channelList[chanIndex] \notin Joined(Sender)
    /\ Enter(channelList[chanIndex], chanIndex, channelList, channame)

JoinNew(list, ch) ==
  \E w \in Channames :
    /\ JoinReaches(list, w, 0)
    /\ ch \notin Channels
    /\ \E name \in StoredNames(w) :
         Enter(ch, Len(channelList) + 1, Append(channelList, ch),
               [channame EXCEPT ![ch] = name])

-----------------------------------------------------------------------------
(* PART, PRIVMSG and WHO: splitting the list, then a loop over its words.  *)

(* The handler enters its loop; an empty list leaves the count undefined,  *)
(* so that the loop is skipped or dereferences NULL.                       *)
Loop(cmd, list, text, messages) ==
  \/ list \in Trapping /\ Fail
  \/ /\ list \notin Trapping
     /\ \/ Tokens[list] = <<>> /\ Fail
        \/ Tokens[list] = <<>> /\ Answer(messages)
        \/ /\ Tokens[list] # <<>>
           /\ todo' = [cmd |-> cmd, targets |-> Tokens[list], text |-> text]
           /\ queued' = messages
           /\ UNCHANGED <<status, clientVars, roomVars, serving, listIndex>>

(* Mutant: the loop runs once more than there are words.                   *)
NextTarget_OneTooMany == todo' = [todo EXCEPT !.targets = Tail(@)]

(* The loop moves on to its next word, or the handler returns.             *)
NextTarget ==
  todo' = IF Len(todo.targets) = 1
          THEN NoCall
          ELSE [todo EXCEPT !.targets = Tail(@)]

Designates(w, ch) ==
  \E i \in DOMAIN channelList :
    i = findChannelIndexByChanname(w) /\ channelList[i] = ch

AtTarget(cmd) == InHandler /\ todo.cmd = cmd

cmd_part(list) == Dispatched("PART", 1) /\ Loop("PART", list, FALSE, Silence)

PartNoSuchChannel ==
  /\ AtTarget("PART")
  /\ findChannelIndexByChanname(Head(todo.targets)) = 0
  /\ NextTarget
  /\ queued' = Numeric("ERR_NOSUCHCHANNEL", {})
  /\ UNCHANGED <<status, clientVars, roomVars, serving, listIndex>>

(* part_client_given_channel: the check that the sender is on the channel  *)
(* only adds a reply.                                                      *)
part_client(ch) ==
  LET users == Without(userlist, Sender, ch)
  IN  /\ AtTarget("PART")
      /\ Designates(Head(todo.targets), ch)
      /\ userlist' = users
      /\ chanlist' = [chanlist EXCEPT ![Sender] = arraylist_remove(@, ch)]
      /\ channelList' = Kept(channelList, users, ch)
      /\ channame' = Freed(channame, users, ch)
      /\ queued' = Both(IF Sender \in Members(ch)
                        THEN Silence
                        ELSE Numeric("ERR_NOTONCHANNEL", {ch}),
                        ToEach(userlist[ch], Msg("QUIT", Sender, {})))
      /\ NextTarget
      /\ UNCHANGED <<status, clientVars, serving, listIndex>>

(* params[0] is read, and split, before n_params is checked, and neither   *)
(* error reply returns: without a recipient the handler goes on with an    *)
(* uninitialized pointer, to a parameter of some other line or to nothing. *)
cmd_privmsg(list, n_params) ==
  /\ Dispatched("PRIVMSG", n_params)
  /\ \/ n_params = 0 /\ Fail
     \/ Loop("PRIVMSG", list, n_params = 2,
             CASE n_params = 0 -> Numeric("ERR_NORECIPIENT", {})
               [] n_params = 1 -> Numeric("ERR_NOTEXTTOSEND", {})
               [] OTHER -> Silence)

(* sendPRIVMSG formats params[1], which is uninitialized when text is      *)
(* FALSE: it points at some other text or nowhere.                         *)
Deliver(messages) ==
  \/ /\ queued' = messages
     /\ NextTarget
     /\ UNCHANGED <<status, clientVars, roomVars, serving, listIndex>>
  \/ ~todo.text /\ Fail

PrivmsgToClient(c) ==
  /\ AtTarget("PRIVMSG")
  /\ \E i \in DOMAIN clientList :
       i = findClientIndexByNick(Head(todo.targets)) /\ clientList[i] = c
  /\ Deliver(To({c}, Msg("PRIVMSG", Sender, {})))

PrivmsgToChannel(ch) ==
  /\ AtTarget("PRIVMSG")
  /\ findClientIndexByNick(Head(todo.targets)) = 0
  /\ Designates(Head(todo.targets), ch)
  /\ Deliver(ToEach(userlist[ch], Msg("PRIVMSG", Sender, {ch})))

PrivmsgNoSuchNick ==
  /\ AtTarget("PRIVMSG")
  /\ findClientIndexByNick(Head(todo.targets)) = 0
  /\ findChannelIndexByChanname(Head(todo.targets)) = 0
  /\ NextTarget
  /\ queued' = Numeric("ERR_NOSUCHNICK", {})
  /\ UNCHANGED <<status, clientVars, roomVars, serving, listIndex>>

-----------------------------------------------------------------------------
(* LIST and WHO.                                                           *)

cmd_list ==
  /\ Dispatched("LIST", 0)
  /\ Answer(Both(Both(Numeric("RPL_LISTSTART", {}),
                      Numeric("RPL_LIST", Channels)),
                 Numeric("RPL_LISTEND", {})))

Strangers(c) == {other \in Live : Joined(c) \cap Joined(other) = {}}

cmd_who ==
  /\ Dispatched("WHO", 0)
  /\ Answer(Both(Numeric("RPL_WHOREPLY", Strangers(Sender)),
                 Numeric("RPL_ENDOFWHO", {})))

cmd_who_names(list) ==
  Dispatched("WHO", 1) /\ Loop("WHO", list, FALSE, Silence)

WhoReply(about) ==
  /\ AtTarget("WHO")
  /\ NextTarget
  /\ queued' = Both(Numeric("RPL_WHOREPLY", about),
                    Numeric("RPL_ENDOFWHO", {}))
  /\ UNCHANGED <<status, clientVars, roomVars, serving, listIndex>>

WhoMembers(ch) == WhoReply(Members(ch)) /\ Designates(Head(todo.targets), ch)
WhoNothing ==
  WhoReply({}) /\ findChannelIndexByChanname(Head(todo.targets)) = 0

-----------------------------------------------------------------------------
Connections ==
  \E c \in Fds : \/ Accept(c)
                \/ Receive(c)
                \/ ReceiveTraps(c)
                \/ SendFails(c)
                \/ HangUp(c)

Refusals ==
  \/ UnknownCommand
  \/ \E cmd \in Commands :
       \/ NotRegistered(cmd)
       \/ \E n_params \in 0 .. 3 : NeedMoreParams(cmd, n_params)

Identity ==
  \/ NoNicknameGiven
  \/ \E newNick \in Words : NickRefused(newNick) \/ cmd_nick(newNick)
  \/ AlreadyRegistered
  \/ cmd_user
  \/ cmd_quit

Join ==
  \E list \in Params :
    \/ JoinTraps(list)
    \/ AlreadyJoined(list)
    \/ JoinRefused(list)
    \/ JoinExisting(list)
    \/ \E ch \in ChanIds : JoinNew(list, ch)

Part ==
  \/ \E list \in Params : cmd_part(list)
  \/ PartNoSuchChannel
  \/ \E ch \in ChanIds : part_client(ch)

Privmsg ==
  \/ \E list \in Params, n_params \in 0 .. 2 : cmd_privmsg(list, n_params)
  \/ \E c \in Fds : PrivmsgToClient(c)
  \/ \E ch \in ChanIds : PrivmsgToChannel(ch)
  \/ PrivmsgNoSuchNick

Listings ==
  \/ cmd_list
  \/ cmd_who
  \/ \E list \in Params : cmd_who_names(list)
  \/ \E ch \in ChanIds : WhoMembers(ch)
  \/ WhoNothing

Next ==
  \/ Connections \/ EndOfLines \/ DanglingLine
  \/ Refusals \/ Identity \/ Join \/ Part \/ Privmsg \/ Listings

Spec == Init /\ [][Next]_vars

-----------------------------------------------------------------------------
(* Properties.                                                             *)

(* Every variable has its type.                                            *)
TypeOK ==
  /\ status \in {"running", "failed"}
  /\ clientList \in Seq(Fds)
  /\ nick \in [Fds -> Nicks \cup {Empty}]
  /\ user \in [Fds -> BOOLEAN]
  /\ registered \in [Fds -> BOOLEAN]
  /\ chanlist \in [Fds -> Seq(ChanIds)]
  /\ channelList \in Seq(ChanIds)
  /\ channame \in [ChanIds -> Words]
  /\ userlist \in [ChanIds -> Seq(Fds)]
  /\ serving \in Fds \cup {Nobody}
  /\ listIndex \in Nat
  /\ todo \in Calls
  /\ queued \in [Fds -> Seq(Messages)]

(* A handler that is in its loop still has its sender at srcIndex, and     *)
(* that sender is registered: PART, PRIVMSG and WHO never outlive it.      *)
HandlerHasSender ==
  todo # NoCall => /\ serving # Nobody
                   /\ listIndex \in DOMAIN clientList
                   /\ registered[Sender]

(* The two halves of a membership, an entry of channel_t.userlist and an   *)
(* entry of client_t.chanlist, are written by different statements of      *)
(* JOIN, PART, QUIT and remove_client, and always agree.                   *)
MembershipAgrees ==
  \A c \in Fds, ch \in ChanIds : c \in Members(ch) <=> ch \in Joined(c)

(* No list points to freed memory: whoever is in a userlist is still in    *)
(* clientList, and whatever is in a chanlist still in channelList.         *)
NoStaleReferences ==
  /\ \A ch \in ChanIds : Members(ch) \subseteq Live
  /\ \A c \in Fds : Joined(c) \subseteq Channels

(* arraylist_remove takes one entry out: no list holds anything twice, and *)
(* no client is in two channels ("only one channel allowed for now").      *)
SingleEntries ==
  /\ IsInjective(clientList)
  /\ IsInjective(channelList)
  /\ \A ch \in ChanIds : IsInjective(userlist[ch])
  /\ \A c \in Fds : Len(chanlist[c]) <= 1

(* Whatever the order of NICK and USER, a client is registered when it has *)
(* given both, and only registered clients are in channels.                *)
RegistrationGates ==
  /\ \A c \in Live : registered[c] <=> (nick[c] # Empty /\ user[c])
  /\ \A ch \in ChanIds : \A c \in Members(ch) : registered[c]

(* No two clients answer to one nickname, in any spelling of its case.     *)
NicksUnique ==
  \A c, d \in Live :
    nick[c] # Empty /\ nick[d] # Empty /\ Folded[nick[c]] = Folded[nick[d]]
    => c = d

(* No two channels have one name, as far as their names are names that     *)
(* isValidChanname accepts: one of MAX_CHANNAME characters is stored       *)
(* without a terminator and becomes another.                               *)
NamesUnique ==
  \A ch, other \in Channels :
    channame[ch] = channame[other] /\ channame[ch] \in Channames => ch = other

(* What a handler says goes to the outbuf of a client that is still there  *)
(* when the handler returns.                                               *)
OutbufsAreLive == \A c \in Fds : queued[c] # <<>> => c \in Live

Count(c, msg) == Cardinality({i \in DOMAIN queued'[c] : queued'[c][i] = msg})

(* A client leaves a channel by QUIT, PART or JOIN: each of those who      *)
(* remain in it is told once, by a QUIT in the name of the one that left.  *)
DepartureAnnounced ==
  [][\A c \in Fds, ch \in ChanIds :
       serving # Nobody /\ c \in Members(ch) /\ c \notin Members(ch)'
       => \A r \in Members(ch)' : Count(r, Msg("QUIT", c, {})) = 1]_vars

(* A registered client changes its nickname: those, and only those, who    *)
(* share its channel are told, once, and the client itself is not.         *)
RenameAnnounced ==
  [][\A c \in Live \cap Live' :
       nick'[c] # nick[c]
       => \A r \in Fds :
            Count(r, Msg("NICK", c, {})) =
              IF r # c /\ Joined(c) \cap Joined(r) # {} THEN 1 ELSE 0]_vars

(* The last member leaves a channel by PART or JOIN: the channel is off    *)
(* channelList when the handler returns.                                   *)
PartedChannelVanishes ==
  [][\A ch \in Channels :
       Members(ch) # {} /\ Members(ch)' = {} => \/ ch \notin Channels'
                                               \/ Live' # Live]_vars

(* One step changes the memberships of one client at most, and a channel   *)
(* is taken off channelList only when it has no member left.               *)
OneMemberMoves ==
  [][/\ \A c, d \in Fds : Joined(c)' # Joined(c) /\ Joined(d)' # Joined(d)
                          => c = d
     /\ \A ch \in Channels \ Channels' : Members(ch)' = {}]_vars

(* The lists implement the sets of Presence: every step of the server is   *)
(* one arrival, registration, move or departure there, or none.            *)
Abstraction ==
  INSTANCE Presence WITH
    Clients <- Fds,
    Rooms <- ChanIds,
    online <- Live,
    known <- {c \in Fds : registered[c]},
    open <- Channels,
    members <- [ch \in ChanIds |-> Members(ch)]
ImplementsPresence == Abstraction!Spec

-----------------------------------------------------------------------------
(* What comments and replies of the program say, and the code does not do. *)

(* irc_proto.c:76: handle_line gets an index "so you know who to dispatch  *)
(* on".  After QUIT has shortened clientList the rest of the batch is      *)
(* handled as lines of the next client in the list.                        *)
LineFromOwner ==
  Running /\ serving # Nobody /\ listIndex \in DOMAIN clientList
  => Sender = serving

(* message.h:25: sendChannelBroadcast, called with TRUE, lets the sender   *)
(* "receive the message too": the members of the channel a client enters,  *)
(* itself included, hear its JOIN.                                         *)
JoinHeard ==
  [][\A c \in Fds, ch \in ChanIds :
       c \notin Members(ch) /\ c \in Members(ch)'
       => \A r \in Members(ch)' : Count(r, Msg("JOIN", c, {ch})) = 1]_vars

=============================================================================
