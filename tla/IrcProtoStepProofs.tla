------------------------- MODULE IrcProtoStepProofs -------------------------
(***************************************************************************)
(* What one step of the server does, for any numbers of clients, channels  *)
(* and names: whom it talks to, which names it gives, whose membership it  *)
(* changes and who hears of it; and that it is a step of Presence.         *)
(*                                                                         *)
(* The steps fall into a few kinds (StepKinds).  Most are quiet: nothing   *)
(* changes but outbufs and main's own variables.  The others are one       *)
(* arrival, removal, renaming, introduction, entry or parting each.  Every *)
(* property below is shown kind by kind, from the invariant of             *)
(* IrcProtoProofs and, for what names and outbufs were before, from itself.*)
(***************************************************************************)
EXTENDS IrcProtoProofs

-----------------------------------------------------------------------------
(* Who is talked to.                                                       *)

Heard(messages) == \A c \in Fds : messages[c] # <<>> => c \in Live

LEMMA SilenceHeard == Heard(Silence)
BY DEF Heard, Silence

LEMMA ToHeard ==
  ASSUME NEW receivers, receivers \subseteq Live, NEW msg
  PROVE  Heard(To(receivers, msg))
BY DEF Heard, To

LEMMA NumericHeard ==
  ASSUME Sender \in Live, NEW kind, NEW about
  PROVE  Heard(Numeric(kind, about))
BY ToHeard DEF Numeric

LEMMA BothHeard ==
  ASSUME NEW first, NEW second, Heard(first), Heard(second)
  PROVE  Heard(Both(first, second))
<1> SUFFICES ASSUME NEW c \in Fds, c \notin Live
             PROVE  Both(first, second)[c] = <<>>
  BY DEF Heard
<1>1. first[c] = <<>> /\ second[c] = <<>>
  BY DEF Heard
<1>2. <<>> \o <<>> = <<>>
  OBVIOUS
<1> QED
  BY <1>1, <1>2 DEF Both

LEMMA NoCopies ==
  ASSUME NEW msg \in Messages
  PROVE  Copies(0, msg) = <<>>
<1>1. Copies(0, msg) \in Seq(Messages)
  BY CopiesType
<1>2. Len(Copies(0, msg)) = 0
  BY DEF Copies
<1> QED
  BY <1>1, <1>2, EmptySeq

LEMMA ToEachHeard ==
  ASSUME NEW list, ToSet(list) \subseteq Live, NEW msg \in Messages
  PROVE  Heard(ToEach(list, msg))
<1> SUFFICES ASSUME NEW r \in Fds, r \notin Live
             PROVE  ToEach(list, msg)[r] = <<>>
  BY DEF Heard
<1>1. {j \in DOMAIN list : list[j] = r} = {}
  BY DEF ToSet
<1>2. Cardinality({j \in DOMAIN list : list[j] = r}) = 0
  BY <1>1, FS_EmptySet
<1> QED
  BY <1>2, NoCopies DEF ToEach

LEMMA ToPeersHeard ==
  ASSUME IInv, NEW c \in Fds, NEW msg \in Messages
  PROVE  Heard(ToPeers(c, msg))
<1> SUFFICES ASSUME NEW r \in Fds, r \notin Live, r # c
             PROVE  ToPeers(c, msg)[r] = <<>>
  BY DEF Heard, ToPeers
<1>1. \A i \in DOMAIN chanlist[c] : chanlist[c][i] \in ChanIds
  BY LenProperties, ElementOfSeq DEF IInv, TypeOK
<1>2. {i \in DOMAIN chanlist[c] : r \in Members(chanlist[c][i])} = {}
  BY <1>1 DEF IInv, NoStaleReferences
<1>3. Cardinality({i \in DOMAIN chanlist[c] :
                     r \in Members(chanlist[c][i])}) = 0
  BY <1>2, FS_EmptySet
<1> QED
  BY <1>3, NoCopies DEF ToPeers

-----------------------------------------------------------------------------
(* The kinds of steps.                                                     *)

Quiet == UNCHANGED <<clientVars, roomVars>> /\ Heard(queued')

LEMMA AnswerQuiet ==
  ASSUME NEW messages, Heard(messages), Answer(messages)
  PROVE  Quiet
BY DEF Answer, Quiet

LEMMA FailQuiet ==
  ASSUME Fail
  PROVE  Quiet
BY SilenceHeard DEF Fail, Quiet

LEMMA LoopQuiet ==
  ASSUME NEW cmd, NEW list, NEW text, NEW messages, Heard(messages),
         Loop(cmd, list, text, messages)
  PROVE  Quiet
BY AnswerQuiet, FailQuiet DEF Loop, Quiet

LEMMA DeliverQuiet ==
  ASSUME NEW messages, Heard(messages), Deliver(messages)
  PROVE  Quiet
BY FailQuiet DEF Deliver, Quiet

LEMMA LineSender ==
  ASSUME IInv, NEW cmd, NEW n_params, Dispatched(cmd, n_params)
  PROVE  Sender \in Live /\ Sender \in Fds
BY SenderIsLive DEF Dispatched, AtLine

LEMMA ConnectionKinds ==
  ASSUME Connections
  PROVE  Quiet \/ \E c \in Fds : Accept(c) \/ HangUp(c)
<1>1. ASSUME NEW c \in Fds, Receive(c) PROVE Quiet
  BY <1>1, SilenceHeard DEF Receive, Quiet
<1> QED
  BY <1>1, FailQuiet DEF Connections, ReceiveTraps, SendFails

LEMMA RefusalKinds ==
  ASSUME IInv, Refusals
  PROVE  Quiet
<1>1. AtLine /\ \E kind : Answer(Numeric(kind, {}))
  BY DEF Refusals, UnknownCommand, NotRegistered, NeedMoreParams
<1>2. Sender \in Live
  BY <1>1, SenderIsLive DEF AtLine
<1> QED
  BY <1>1, <1>2, NumericHeard, AnswerQuiet

LEMMA IdentityKinds ==
  ASSUME IInv, Identity
  PROVE  \/ Quiet \/ cmd_user \/ cmd_quit
         \/ \E newNick \in Words : cmd_nick(newNick)
<1>1. ASSUME \/ NoNicknameGiven
             \/ \E newNick \in Words : NickRefused(newNick)
             \/ AlreadyRegistered
      PROVE  Quiet
  <2>1. \E cmd, n_params : Dispatched(cmd, n_params)
    BY <1>1 DEF NoNicknameGiven, NickRefused, AlreadyRegistered
  <2>2. \E kind : Answer(Numeric(kind, {}))
    BY <1>1 DEF NoNicknameGiven, NickRefused, AlreadyRegistered
  <2> QED
    BY <2>1, <2>2, LineSender, NumericHeard, AnswerQuiet
<1> QED
  BY <1>1 DEF Identity

LEMMA JoinKinds ==
  ASSUME IInv, Join
  PROVE  \/ Quiet
         \/ \E list \in Params : \/ JoinExisting(list)
                                 \/ \E ch \in ChanIds : JoinNew(list, ch)
<1>1. ASSUME NEW list, AlreadyJoined(list) \/ JoinRefused(list)
      PROVE  Quiet
  <2>1. Dispatched("JOIN", 1)
    BY <1>1 DEF AlreadyJoined, JoinRefused, JoinReaches
  <2>2. Answer(Silence) \/ \E kind : Answer(Numeric(kind, {}))
    BY <1>1 DEF AlreadyJoined, JoinRefused
  <2> QED
    BY <2>1, <2>2, LineSender, NumericHeard, SilenceHeard, AnswerQuiet
<1> QED
  BY <1>1, FailQuiet DEF Join, JoinTraps

LEMMA PartKinds ==
  ASSUME IInv, Part
  PROVE  Quiet \/ \E ch \in ChanIds : part_client(ch)
<1>1. ASSUME NEW list, cmd_part(list) PROVE Quiet
  BY <1>1, SilenceHeard, LoopQuiet DEF cmd_part
<1>2. ASSUME PartNoSuchChannel PROVE Quiet
  <2>1. Sender \in Live
    BY <1>2, TargetSender DEF PartNoSuchChannel, AtTarget
  <2> QED
    BY <1>2, <2>1, NumericHeard DEF PartNoSuchChannel, Quiet
<1> QED
  BY <1>1, <1>2 DEF Part

LEMMA PrivmsgKinds ==
  ASSUME IInv, Privmsg
  PROVE  Quiet
<1>1. ASSUME NEW list, NEW n_params \in 0 .. 2, cmd_privmsg(list, n_params)
      PROVE  Quiet
  <2> DEFINE messages == CASE n_params = 0 -> Numeric("ERR_NORECIPIENT", {})
                           [] n_params = 1 -> Numeric("ERR_NOTEXTTOSEND", {})
                           [] OTHER -> Silence
  <2>1. Sender \in Live
    BY <1>1, LineSender DEF cmd_privmsg
  <2>2. Heard(messages)
    BY <2>1, NumericHeard, SilenceHeard
  <2>3. Fail \/ Loop("PRIVMSG", list, n_params = 2, messages)
    BY <1>1 DEF cmd_privmsg
  <2> HIDE DEF messages
  <2> QED
    BY <2>2, <2>3, FailQuiet, LoopQuiet
<1>2. ASSUME NEW c, PrivmsgToClient(c) PROVE Quiet
  <2>1. {c} \subseteq Live
    BY <1>2 DEF PrivmsgToClient, Live, ToSet
  <2> QED
    BY <1>2, <2>1, ToHeard, DeliverQuiet DEF PrivmsgToClient
<1>3. ASSUME NEW ch \in ChanIds, PrivmsgToChannel(ch) PROVE Quiet
  <2>1. Msg("PRIVMSG", Sender, {ch}) \in Messages
    BY <1>3, TargetSender, MsgType DEF PrivmsgToChannel, AtTarget, Kinds
  <2>2. ToSet(userlist[ch]) \subseteq Live
    BY DEF IInv, NoStaleReferences, Members
  <2> QED
    BY <1>3, <2>1, <2>2, ToEachHeard, DeliverQuiet DEF PrivmsgToChannel
<1>4. ASSUME PrivmsgNoSuchNick PROVE Quiet
  <2>1. Sender \in Live
    BY <1>4, TargetSender DEF PrivmsgNoSuchNick, AtTarget
  <2> QED
    BY <1>4, <2>1, NumericHeard DEF PrivmsgNoSuchNick, Quiet
<1> QED
  BY <1>1, <1>2, <1>3, <1>4 DEF Privmsg

LEMMA ListingKinds ==
  ASSUME IInv, Listings
  PROVE  Quiet
<1>1. ASSUME cmd_list PROVE Quiet
  <2>1. Sender \in Live
    BY <1>1, LineSender DEF cmd_list
  <2>2. /\ Numeric("RPL_LISTSTART", {}) \in Outputs
        /\ Numeric("RPL_LIST", Channels) \in Outputs
        /\ Numeric("RPL_LISTEND", {}) \in Outputs
    BY SetsNamed, NumericType DEF Kinds
  <2> QED
    BY <1>1, <2>1, <2>2, NumericHeard, BothType, BothHeard, AnswerQuiet
    DEF cmd_list
<1>2. ASSUME cmd_who PROVE Quiet
  <2>1. Sender \in Live
    BY <1>2, LineSender DEF cmd_who
  <2>2. /\ Numeric("RPL_WHOREPLY", Strangers(Sender)) \in Outputs
        /\ Numeric("RPL_ENDOFWHO", {}) \in Outputs
    BY SetsNamed, NumericType DEF Kinds, Strangers
  <2> QED
    BY <1>2, <2>1, <2>2, NumericHeard, BothHeard, AnswerQuiet DEF cmd_who
<1>3. ASSUME NEW list, cmd_who_names(list) PROVE Quiet
  BY <1>3, SilenceHeard, LoopQuiet DEF cmd_who_names
<1>4. ASSUME NEW about \in SUBSET (Fds \cup ChanIds), WhoReply(about)
      PROVE  Quiet
  <2>1. Sender \in Live
    BY <1>4, TargetSender DEF WhoReply, AtTarget
  <2>2. /\ Numeric("RPL_WHOREPLY", about) \in Outputs
        /\ Numeric("RPL_ENDOFWHO", {}) \in Outputs
    BY NumericType DEF Kinds
  <2> QED
    BY <1>4, <2>1, <2>2, NumericHeard, BothHeard DEF WhoReply, Quiet
<1>5. \A ch \in ChanIds : Members(ch) \in SUBSET (Fds \cup ChanIds)
  BY SetsNamed
<1>6. {} \in SUBSET (Fds \cup ChanIds)
  OBVIOUS
<1> QED
  BY <1>1, <1>2, <1>3, <1>4, <1>5, <1>6 DEF Listings, WhoMembers, WhoNothing

(* Every step that is not quiet is one of these.                           *)
LEMMA StepKinds ==
  ASSUME ConstAssumption, IInv, Next
  PROVE  \/ Quiet
         \/ \E c \in Fds : Accept(c) \/ HangUp(c)
         \/ cmd_quit \/ cmd_user
         \/ \E newNick \in Words : cmd_nick(newNick)
         \/ \E ch \in ChanIds : part_client(ch)
         \/ \E list \in Params : \/ JoinExisting(list)
                                 \/ \E ch \in ChanIds : JoinNew(list, ch)
<1>1. EndOfLines => Quiet
  BY SilenceHeard DEF EndOfLines, Quiet
<1>2. DanglingLine => Quiet
  BY FailQuiet DEF DanglingLine
<1> QED
  BY <1>1, <1>2, ConnectionKinds, RefusalKinds, IdentityKinds, JoinKinds,
     PartKinds, PrivmsgKinds, ListingKinds DEF Next

(* What the sender of a JOIN and the two channels concerned are told.      *)
Welcome(ch) == Both(Numeric("RPL_NAMREPLY", Members(ch)'),
                    Numeric("RPL_ENDOFNAMES", {ch}))
Farewell == ToEach(userlist[Head(chanlist[Sender])], Msg("QUIT", Sender, {}))
EnterSays(ch) ==
  \E x \in ChanIds :
    LET announcement == ToEach(userlist'[x], Msg("JOIN", Sender, {ch}))
    IN  \/ /\ Joined(Sender) = {}
           /\ queued' = Both(Welcome(ch), announcement)
        \/ /\ Joined(Sender) = {Head(chanlist[Sender])}
           /\ Head(chanlist[Sender]) \in ChanIds
           /\ queued' = Both(Both(Farewell, Welcome(ch)), announcement)

LEMMA EnteredSays ==
  ASSUME IInv, NEW ch, NEW chanIndex, NEW list, NEW names,
         Entered(ch, chanIndex, list, names)
  PROVE  EnterSays(ch)
<1>1. EntryOK(ch, chanIndex, list, names) /\ Enter(ch, chanIndex, list, names)
  BY DEF Entered
<1>2. /\ Len(list) \in Nat /\ DOMAIN list = 1 .. Len(list)
      /\ chanIndex \in 1 .. Len(list)
      /\ \A i \in 1 .. Len(list) : list[i] \in ChanIds
  BY <1>1, LenProperties, ElementOfSeq DEF EntryOK
<1>3. CASE EnterFirst(ch, chanIndex, list, names)
  <2>1. Joined(Sender) = {}
    BY <1>3 DEF EnterFirst, Joined, ToSet
  <2>2. queued' = Both(Both(Numeric("RPL_NAMREPLY", Members(ch)'),
                            Numeric("RPL_ENDOFNAMES", {ch})),
                       ToEach(userlist'[list[chanIndex]],
                              Msg("JOIN", Sender, {ch})))
    BY <1>3 DEF EnterFirst, Members
  <2> QED
    BY <1>2, <2>1, <2>2 DEF EnterSays, Welcome
<1>4. CASE EnterNext(ch, chanIndex, list, names)
  <2> DEFINE old == Head(chanlist[Sender])
             entered == [userlist EXCEPT ![ch] = Append(@, Sender)]
             announced == IF userlist'[old] = <<>>
                          THEN SlotAfterRemove(list, old, chanIndex)
                          ELSE list[chanIndex]
  <2>1. /\ chanlist[Sender] \in Seq(ChanIds) /\ chanlist[Sender] # <<>>
        /\ Len(chanlist[Sender]) <= 1
    BY <1>1, <1>4 DEF EntryOK, EnterNext, IInv, TypeOK, SingleEntries
  <2>2. Joined(Sender) = {old} /\ old \in ChanIds /\ old # ch
    BY <1>1, <2>1, ShortList DEF Joined, EntryOK
  <2>3. announced \in ChanIds
    <3>1. SlotAfterRemove(list, old, chanIndex) \in ChanIds
      BY <1>2 DEF SlotAfterRemove
    <3> QED
      BY <1>2, <3>1
  <2>4. queued' = Both(Both(ToEach(entered[old], Msg("QUIT", Sender, {})),
                            Both(Numeric("RPL_NAMREPLY", Members(ch)'),
                                 Numeric("RPL_ENDOFNAMES", {ch}))),
                       ToEach(userlist'[announced],
                              Msg("JOIN", Sender, {ch})))
    BY <1>4 DEF EnterNext, Members
  <2>5. entered[old] = userlist[old]
    BY <2>2 DEF IInv, TypeOK
  <2> HIDE DEF announced
  <2> QED
    BY <2>2, <2>3, <2>4, <2>5 DEF EnterSays, Welcome, Farewell
<1> QED
  BY <1>1, <1>3, <1>4 DEF Enter

LEMMA EnterHeard ==
  ASSUME IInv, IInv', NEW ch, NEW chanIndex, NEW list, NEW names,
         Entered(ch, chanIndex, list, names)
  PROVE  Heard(queued')
<1>1. EnterSays(ch) /\ Sender \in Live /\ Sender \in Fds /\ ch \in ChanIds
  BY EnteredSays DEF Entered, EntryOK
<1>2. Live' = Live
  BY DEF Entered, Enter, clientVars, Live
<1>3. /\ Msg("QUIT", Sender, {}) \in Messages
      /\ Msg("JOIN", Sender, {ch}) \in Messages
  BY <1>1, MsgType DEF Kinds
<1>4. Heard(Welcome(ch))
  BY <1>1, NumericHeard, BothHeard DEF Welcome
<1>5. PICK x \in ChanIds :
        \/ queued' = Both(Welcome(ch),
                          ToEach(userlist'[x], Msg("JOIN", Sender, {ch})))
        \/ /\ Head(chanlist[Sender]) \in ChanIds
           /\ queued' = Both(Both(Farewell, Welcome(ch)),
                             ToEach(userlist'[x], Msg("JOIN", Sender, {ch})))
  BY <1>1 DEF EnterSays
<1>6. Heard(ToEach(userlist'[x], Msg("JOIN", Sender, {ch})))
  <2>1. ToSet(userlist'[x]) \subseteq Live
    BY <1>2 DEF IInv, NoStaleReferences, Members
  <2> QED
    BY <1>3, <2>1, ToEachHeard
<1>7. Head(chanlist[Sender]) \in ChanIds => Heard(Farewell)
  BY <1>3, ToEachHeard DEF IInv, NoStaleReferences, Members, Farewell
<1> QED
  BY <1>4, <1>5, <1>6, <1>7, BothHeard

LEMMA ToPeersSkipsSelf ==
  ASSUME NEW c \in Fds, NEW msg
  PROVE  ToPeers(c, msg)[c] = <<>>
BY DEF ToPeers

(* Whatever a step says is said to clients that are there after it.        *)
LEMMA StepHeard ==
  ASSUME ConstAssumption, IInv, IInv', Next
  PROVE  OutbufsAreLive'
<1>1. ASSUME Live' = Live, Heard(queued') PROVE OutbufsAreLive'
  BY <1>1 DEF Heard, OutbufsAreLive
<1>2. ASSUME queued' = Silence PROVE OutbufsAreLive'
  BY <1>2 DEF Silence, OutbufsAreLive
<1>3. CASE Quiet
  BY <1>3, <1>1 DEF Quiet, clientVars, Live
<1>4. CASE \E c \in Fds : Accept(c) \/ HangUp(c)
  BY <1>4, <1>2 DEF Accept, HangUp
<1>5. CASE cmd_quit
  <2>1. Sender \in Fds
    BY <1>5, LineSender DEF cmd_quit
  <2>2. Msg("QUIT", Sender, {}) \in Messages
    BY <2>1, MsgType DEF Kinds
  <2>3. Heard(queued') /\ queued'[Sender] = <<>>
    BY <1>5, <2>1, <2>2, ToPeersHeard, ToPeersSkipsSelf DEF cmd_quit
  <2>4. Live' = Live \ {Sender}
    BY <1>5, QuitStep DEF RemoveEffect
  <2> QED
    BY <2>3, <2>4 DEF Heard, OutbufsAreLive
<1>6. CASE cmd_user
  <2>1. Sender \in Live
    BY <1>6, LineSender DEF cmd_user
  <2> QED
    BY <1>6, <1>1, <2>1, NumericHeard, SilenceHeard DEF cmd_user, Live
<1>7. ASSUME NEW newNick \in Words, cmd_nick(newNick)
      PROVE  OutbufsAreLive'
  <2>1. Sender \in Live /\ Sender \in Fds
    BY <1>7, LineSender DEF cmd_nick
  <2>2. Heard(ToPeers(Sender, Msg("NICK", Sender, {})))
    BY <2>1, MsgType, ToPeersHeard DEF Kinds
  <2>3. Heard(queued')
    BY <1>7, <2>1, <2>2, NumericHeard, SilenceHeard, BothHeard DEF cmd_nick
  <2> QED
    BY <1>7, <1>1, <2>3 DEF cmd_nick, Live
<1>8. ASSUME NEW ch \in ChanIds, part_client(ch)
      PROVE  OutbufsAreLive'
  <2>1. Sender \in Live /\ Sender \in Fds
    BY <1>8, TargetSender DEF part_client, AtTarget
  <2>2. Heard(ToEach(userlist[ch], Msg("QUIT", Sender, {})))
    BY <2>1, MsgType, ToEachHeard
    DEF Kinds, IInv, NoStaleReferences, Members
  <2>3. Heard(queued')
    BY <1>8, <2>1, <2>2, NumericHeard, SilenceHeard, BothHeard
    DEF part_client
  <2> QED
    BY <1>8, <1>1, <2>3 DEF part_client, clientVars, Live
<1>9. ASSUME NEW ch, NEW chanIndex, NEW list, NEW names,
             Entered(ch, chanIndex, list, names)
      PROVE  OutbufsAreLive'
  <2>1. Heard(queued')
    BY <1>9, EnterHeard
  <2> QED
    BY <1>9, <1>1, <2>1 DEF Entered, Enter, clientVars, Live
<1> QED
  BY <1>3, <1>4, <1>5, <1>6, <1>7, <1>8, <1>9, StepKinds, JoinExistingEnters,
     JoinNewEnters

(* No handler writes to the outbuf of a client that has gone: whoever a    *)
(* message is queued for (message.c:9-31) is in clientList afterwards.     *)
THEOREM SpeaksToTheLiving == Spec => []OutbufsAreLive
<1>1. Init => OutbufsAreLive
  BY DEF Init, Silence, OutbufsAreLive
<1>2. OutbufsAreLive /\ IInv /\ IInv' /\ [Next]_vars => OutbufsAreLive'
  <2>1. UNCHANGED vars => UNCHANGED <<queued, clientList>>
    BY DEF vars, clientVars
  <2> QED
    BY <2>1, ConstAssumption, StepHeard DEF OutbufsAreLive, Live
<1> QED
  BY <1>1, <1>2, Invariance, PTL DEF Spec

-----------------------------------------------------------------------------
(* Names.                                                                  *)

LEMMA FewerNicksUnique ==
  ASSUME IInv, NicksUnique, NEW c \in Fds, Live' \subseteq Live \cup {c},
         nick' = [nick EXCEPT ![c] = Empty]
  PROVE  NicksUnique'
<1>1. nick'[c] = Empty /\ \A d \in Fds \ {c} : nick'[d] = nick[d]
  BY DEF IInv, TypeOK
<1>2. Live \subseteq Fds
  BY SetsNamed
<1> QED
  BY <1>1, <1>2 DEF NicksUnique

LEMMA NicksStep ==
  ASSUME ConstAssumption, IInv, IInv', NicksUnique, Next
  PROVE  NicksUnique'
<1>1. ASSUME UNCHANGED <<clientList, nick>> PROVE NicksUnique'
  BY <1>1 DEF NicksUnique, Live
<1>2. CASE Quiet \/ cmd_user
  BY <1>1, <1>2 DEF Quiet, clientVars, cmd_user
<1>3. ASSUME NEW c \in Fds, Accept(c) PROVE NicksUnique'
  <2>1. Live' = Live \cup {c}
    BY <1>3, AddProperties DEF Accept, Live, IInv, TypeOK, SingleEntries
  <2> QED
    BY <1>3, <2>1, FewerNicksUnique DEF Accept
<1>4. ASSUME NEW c \in Fds, HangUp(c) PROVE NicksUnique'
  <2>1. Live' = Live \ {c}
    BY <1>4, HangUpStep DEF RemoveEffect
  <2> QED
    BY <1>4, <2>1, FewerNicksUnique DEF HangUp, remove_client
<1>5. CASE cmd_quit
  <2>1. Live' = Live \ {Sender} /\ Sender \in Fds
    BY <1>5, QuitStep, LineSender DEF RemoveEffect, cmd_quit
  <2> QED
    BY <1>5, <2>1, FewerNicksUnique DEF cmd_quit, remove_client
<1>6. ASSUME NEW newNick \in Words, cmd_nick(newNick)
      PROVE  NicksUnique'
  <2>1. Live' = Live /\ Sender \in Fds
    BY <1>6, LineSender DEF cmd_nick, Live
  <2>2. nick'[Sender] = newNick /\ \A d \in Fds \ {Sender} : nick'[d] = nick[d]
    BY <1>6, <2>1 DEF cmd_nick, IInv, TypeOK
  <2>3. \A other \in Live : nick[other] # Empty =>
          Folded[nick[other]] # Folded[newNick]
    BY <1>6 DEF cmd_nick, NickInUse
  <2>4. Live \subseteq Fds
    BY SetsNamed
  <2> QED
    BY <2>1, <2>2, <2>3, <2>4 DEF NicksUnique
<1>7. ASSUME NEW ch \in ChanIds, part_client(ch) PROVE NicksUnique'
  BY <1>1, <1>7 DEF part_client, clientVars
<1>8. ASSUME NEW ch, NEW chanIndex, NEW list, NEW names,
             Entered(ch, chanIndex, list, names)
      PROVE  NicksUnique'
  BY <1>1, <1>8 DEF Entered, Enter, clientVars
<1> QED
  BY <1>2, <1>3, <1>4, <1>5, <1>6, <1>7, <1>8, StepKinds, JoinExistingEnters,
     JoinNewEnters

(* cmd_nick compares with everybody, whatever the order in which clients   *)
(* come, name themselves and go: no two have one nickname.                 *)
THEOREM NicknamesDiffer == Spec => []NicksUnique
<1>1. Init => NicksUnique
  BY DEF Init, NicksUnique, Live, ToSet
<1>2. NicksUnique /\ IInv /\ IInv' /\ [Next]_vars => NicksUnique'
  <2>1. UNCHANGED vars => UNCHANGED <<nick, clientList>>
    BY DEF vars, clientVars
  <2>2. NicksUnique /\ UNCHANGED vars => NicksUnique'
    BY <2>1 DEF NicksUnique, Live
  <2> QED
    BY <2>2, ConstAssumption, NicksStep
<1> QED
  BY <1>1, <1>2, Invariance, PTL DEF Spec

(* findChannelIndexByChanname misses no channel.                           *)
LEMMA NotFound ==
  ASSUME IInv, NEW w, findChannelIndexByChanname(w) = 0
  PROVE  \A ch \in Channels : channame[ch] # w
<1> DEFINE T == {k \in DOMAIN channelList : channame[channelList[k]] = w}
<1>1. DOMAIN channelList = 1 .. Len(channelList) /\ Len(channelList) \in Nat
  BY LenProperties DEF IInv, TypeOK
<1> SUFFICES ASSUME NEW ch \in Channels, channame[ch] = w
             PROVE  FALSE
  OBVIOUS
<1>2. T \in SUBSET Nat /\ T # {}
  BY <1>1 DEF Channels, ToSet
<1>3. PICK m \in T : \A n \in T : m <= n
  BY <1>2, LeastNumber
<1>4. /\ m \in DOMAIN channelList /\ channame[channelList[m]] = w
      /\ \A j \in 1 .. m - 1 : ~(channame[channelList[j]] = w)
  BY <1>1, <1>3
<1>5. findChannelIndexByChanname(w) \in DOMAIN channelList
  BY <1>4 DEF findChannelIndexByChanname, FindFirst
<1> QED
  BY <1>1, <1>5

(* Of the names, an entry sets the one of a new channel and clears the one *)
(* of a freed channel.                                                     *)
LEMMA EnteredNames ==
  ASSUME NEW ch, NEW chanIndex, NEW list, NEW names,
         Entered(ch, chanIndex, list, names)
  PROVE  \A x \in ChanIds : channame'[x] \in {names[x], Empty}
<1>1. names \in [ChanIds -> Words]
  BY DEF Entered, EntryOK
<1>2. channame' = names \/ \E users, old : channame' = Freed(names, users, old)
  BY DEF Entered, Enter, EnterFirst, EnterNext
<1> QED
  BY <1>1, <1>2 DEF Freed

LEMMA NamesStep ==
  ASSUME ConstAssumption, IInv, IInv', NamesUnique, Next
  PROVE  NamesUnique'
<1>1. ASSUME Channels' \subseteq Channels,
             \A x \in ChanIds : channame'[x] \in {channame[x], Empty}
      PROVE  NamesUnique'
  BY <1>1, SetsNamed DEF NamesUnique, ConstAssumption
<1>2. ASSUME UNCHANGED <<channelList, channame>> PROVE NamesUnique'
  BY <1>2 DEF NamesUnique, Channels
<1>3. CASE Quiet
  BY <1>2, <1>3 DEF Quiet, roomVars
<1>4. CASE \E c \in Fds : Accept(c) \/ HangUp(c)
  BY <1>2, <1>4 DEF Accept, HangUp, remove_client
<1>5. CASE cmd_quit
  BY <1>2, <1>5 DEF cmd_quit, remove_client
<1>6. CASE cmd_user
  BY <1>2, <1>6 DEF cmd_user, roomVars
<1>7. ASSUME NEW newNick \in Words, cmd_nick(newNick) PROVE NamesUnique'
  BY <1>2, <1>7 DEF cmd_nick, roomVars
<1>8. ASSUME NEW ch \in ChanIds, part_client(ch) PROVE NamesUnique'
  <2>1. Channels' \subseteq Channels
    BY <1>8, PartStep DEF PartEffect
  <2>2. \A x \in ChanIds : channame'[x] \in {channame[x], Empty}
    BY <1>8 DEF part_client, Freed, IInv, TypeOK
  <2> QED
    BY <1>1, <2>1, <2>2
<1>9. ASSUME NEW list \in Params, JoinExisting(list) PROVE NamesUnique'
  <2>1. PICK ch, chanIndex : Entered(ch, chanIndex, channelList, channame)
    BY <1>9, JoinExistingEnters
  <2>2. ToSet(channelList) = Channels \cup {ch}
    BY <2>1 DEF Entered, EntryOK
  <2>3. Channels' \subseteq Channels
    BY <2>1, <2>2, EnteredStep DEF EnterEffect, Channels
  <2> QED
    BY <1>1, <2>1, <2>3, EnteredNames
<1>10. ASSUME NEW list \in Params, NEW ch \in ChanIds, JoinNew(list, ch)
       PROVE  NamesUnique'
  <2> PICK w \in Channames : \E name \in StoredNames(w) :
        /\ findChannelIndexByChanname(w) = 0 /\ ch \notin Channels
        /\ Entered(ch, Len(channelList) + 1, Append(channelList, ch),
                   [channame EXCEPT ![ch] = name])
    BY <1>10, JoinNewEnters
  <2>1. PICK name \in StoredNames(w) :
          /\ findChannelIndexByChanname(w) = 0 /\ ch \notin Channels
          /\ Entered(ch, Len(channelList) + 1, Append(channelList, ch),
                     [channame EXCEPT ![ch] = name])
    OBVIOUS
  <2>2. Channels' \subseteq Channels \cup {ch}
    BY <2>1, EnteredStep DEF EnterEffect
  <2>3. \A x \in Channels : channame[x] # w
    BY <2>1, NotFound
  <2>4. name \in Channames => name = w
    BY DEF StoredNames, ConstAssumption
  <2>5. channame'[ch] \in {name, Empty}
        /\ \A x \in Channels : channame'[x] \in {channame[x], Empty}
    <3>1. \A x \in ChanIds :
            channame'[x] \in {[channame EXCEPT ![ch] = name][x], Empty}
      BY <2>1, EnteredNames
    <3> QED
      BY <2>1, <3>1, SetsNamed DEF IInv, TypeOK
  <2> QED
    BY <2>2, <2>3, <2>4, <2>5 DEF NamesUnique, ConstAssumption
<1> QED
  BY <1>3, <1>4, <1>5, <1>6, <1>7, <1>8, <1>9, <1>10, StepKinds

(* A channel is made only for a name that no channel has.                  *)
THEOREM ChannelNamesDiffer == Spec => []NamesUnique
<1>1. Init => NamesUnique
  BY DEF Init, NamesUnique, Channels, ToSet
<1>2. NamesUnique /\ IInv /\ IInv' /\ [Next]_vars => NamesUnique'
  <2>1. UNCHANGED vars => UNCHANGED <<channame, channelList>>
    BY DEF vars, roomVars
  <2>2. NamesUnique /\ UNCHANGED vars => NamesUnique'
    BY <2>1 DEF NamesUnique, Channels
  <2> QED
    BY <2>2, ConstAssumption, NamesStep
<1> QED
  BY <1>1, <1>2, Invariance, PTL DEF Spec

-----------------------------------------------------------------------------
(* Memberships: what a step does to the sets behind the lists.             *)

SetsStay ==
  /\ \A x \in ChanIds : Members(x)' = Members(x)
  /\ \A c \in Fds : Joined(c)' = Joined(c)
  /\ Channels' = Channels

Arrives(c) ==
  /\ c \notin Live /\ Live' = Live \cup {c}
  /\ registered' = [registered EXCEPT ![c] = FALSE]
  /\ SetsStay

Introduces(c) ==
  /\ c \in Live /\ Live' = Live
  /\ registered' \in {registered, [registered EXCEPT ![c] = TRUE]}
  /\ SetsStay

Departs(c) ==
  /\ c \in Live
  /\ registered' = [registered EXCEPT ![c] = FALSE]
  /\ RemoveEffect(c)

Moves(c, ch) ==
  /\ c = Sender /\ c \in Live /\ registered[c]
  /\ Live' = Live /\ registered' = registered
  /\ \/ ch \notin Joined(c) /\ EnterEffect(ch)
     \/ PartEffect(ch)

LEMMA ListsStay ==
  ASSUME UNCHANGED roomVars
  PROVE  SetsStay
BY DEF roomVars, SetsStay, Members, Joined, Channels

LEMMA AcceptArrives ==
  ASSUME IInv, NEW c \in Fds, Accept(c)
  PROVE  Arrives(c)
<1>1. Live' = Live \cup {c} /\ c \notin Live
  BY AddProperties DEF Accept, Live, IInv, TypeOK, SingleEntries
<1>2. Joined(c) = {}
  BY <1>1, NoMembershipOutside
<1>3. \A d \in Fds : chanlist'[d] = IF d = c THEN <<>> ELSE chanlist[d]
  BY DEF Accept, IInv, TypeOK
<1>4. ToSet(<<>>) = {}
  BY DEF ToSet
<1>5. \A d \in Fds : Joined(d)' = Joined(d)
  BY <1>2, <1>3, <1>4 DEF Joined
<1> QED
  BY <1>1, <1>5 DEF Accept, Arrives, SetsStay, Members, Channels

LEMMA NickIntroduces ==
  ASSUME IInv, NEW newNick, cmd_nick(newNick)
  PROVE  Introduces(Sender)
<1>1. Sender \in Live /\ Sender \in Fds
  BY LineSender DEF cmd_nick
<1>2. /\ registered' = [registered EXCEPT ![Sender] = @ \/ user[Sender]]
      /\ UNCHANGED <<clientList, roomVars>>
  BY DEF cmd_nick
<1>3. registered' \in {registered, [registered EXCEPT ![Sender] = TRUE]}
  BY <1>1, <1>2 DEF IInv, TypeOK
<1> QED
  BY <1>1, <1>2, <1>3, ListsStay DEF Introduces, Live

LEMMA UserIntroduces ==
  ASSUME IInv, cmd_user
  PROVE  Introduces(Sender)
<1>1. Sender \in Live /\ Sender \in Fds
  BY LineSender DEF cmd_user
<1>2. /\ registered' = [registered EXCEPT ![Sender] = @ \/ nick[Sender] # Empty]
      /\ UNCHANGED <<clientList, roomVars>>
  BY DEF cmd_user
<1>3. registered' \in {registered, [registered EXCEPT ![Sender] = TRUE]}
  BY <1>1, <1>2 DEF IInv, TypeOK
<1> QED
  BY <1>1, <1>2, <1>3, ListsStay DEF Introduces, Live

LEMMA EnteredMoves ==
  ASSUME ConstAssumption, IInv, NEW ch, NEW chanIndex, NEW list, NEW names,
         Entered(ch, chanIndex, list, names)
  PROVE  ch \in ChanIds /\ Moves(Sender, ch)
BY EnteredStep DEF Entered, EntryOK, Enter, clientVars, Moves, Live

LEMMA PartMoves ==
  ASSUME ConstAssumption, IInv, NEW ch \in ChanIds, part_client(ch)
  PROVE  Moves(Sender, ch)
<1>1. Sender \in Live /\ registered[Sender]
  BY TargetSender DEF part_client, AtTarget, InHandler, IInv, HandlerHasSender
<1> QED
  BY <1>1, PartStep DEF part_client, clientVars, Moves, Live

(* Every step is one arrival, introduction, departure or move, or none.    *)
LEMMA StepMoves ==
  ASSUME ConstAssumption, IInv, [Next]_vars
  PROVE  \/ UNCHANGED <<Live, registered>> /\ SetsStay
         \/ \E c \in Fds : Arrives(c) \/ Introduces(c) \/ Departs(c)
         \/ \E ch \in ChanIds : Moves(Sender, ch)
<1>1. CASE UNCHANGED vars \/ Quiet
  <2>1. UNCHANGED <<clientVars, roomVars>>
    BY <1>1 DEF vars, Quiet
  <2> QED
    BY <2>1, ListsStay DEF clientVars, Live
<1>2. ASSUME NEW c \in Fds, Accept(c) \/ HangUp(c)
      PROVE  Arrives(c) \/ Departs(c)
  BY <1>2, AcceptArrives, HangUpStep DEF HangUp, remove_client, Departs
<1>3. CASE cmd_quit
  <2>1. Sender \in Live /\ Sender \in Fds
    BY <1>3, LineSender DEF cmd_quit
  <2>2. Departs(Sender)
    BY <1>3, <2>1, QuitStep DEF cmd_quit, remove_client, Departs
  <2> QED
    BY <2>1, <2>2
<1>4. CASE cmd_user \/ \E newNick \in Words : cmd_nick(newNick)
  <2>1. Introduces(Sender)
    BY <1>4, NickIntroduces, UserIntroduces
  <2>2. Sender \in Fds
    BY <2>1, SetsNamed DEF Introduces
  <2> QED
    BY <2>1, <2>2
<1>5. ASSUME NEW list \in Params,
             JoinExisting(list) \/ \E ch \in ChanIds : JoinNew(list, ch)
      PROVE  \E ch \in ChanIds : Moves(Sender, ch)
  <2>1. \E ch, chanIndex, entries, names : Entered(ch, chanIndex, entries, names)
    BY <1>5, JoinExistingEnters, JoinNewEnters
  <2> QED
    BY <2>1, EnteredMoves
<1> QED
  BY <1>1, <1>2, <1>3, <1>4, <1>5, PartMoves, StepKinds

(* JOIN, PART, QUIT and a hang-up change the lists of one client, and only *)
(* an empty channel is freed.                                              *)
THEOREM MovesOneMember == Spec => OneMemberMoves
<1>1. ASSUME ConstAssumption, IInv, [Next]_vars
      PROVE  [/\ \A c, d \in Fds : Joined(c)' # Joined(c) /\ Joined(d)' # Joined(d)
                                   => c = d
              /\ \A ch \in Channels \ Channels' : Members(ch)' = {}]_vars
  <2>1. CASE SetsStay
    BY <2>1 DEF SetsStay
  <2>2. ASSUME NEW c \in Fds, Departs(c)
        PROVE  /\ \A d \in Fds \ {c} : Joined(d)' = Joined(d)
               /\ Channels' = Channels
    BY <2>2 DEF Departs, RemoveEffect
  <2>3. ASSUME NEW ch \in ChanIds, Moves(Sender, ch)
        PROVE  /\ \A d \in Fds \ {Sender} : Joined(d)' = Joined(d)
               /\ \A x \in Channels \ Channels' : Members(x)' = {}
    <3>1. Sender \in Fds /\ Channels \subseteq ChanIds
      BY <1>1, <2>3, SetsNamed DEF Moves
    <3>2. CASE ch \notin Joined(Sender) /\ EnterEffect(ch)
      <4>1. Sender \notin Members(ch)
        BY <1>1, <3>1, <3>2 DEF IInv, MembershipAgrees
      <4>2. \A x \in Channels \ Channels' : Members(x) = {Sender} /\ x # ch
        BY <3>1, <3>2, <4>1 DEF EnterEffect
      <4> QED
        BY <3>1, <3>2, <4>2 DEF EnterEffect
    <3>3. CASE PartEffect(ch)
      BY <3>1, <3>3 DEF PartEffect
    <3> QED
      BY <2>3, <3>2, <3>3 DEF Moves
  <2> QED
    BY <1>1, <2>1, <2>2, <2>3, StepMoves DEF Arrives, Introduces
<1> QED
  BY <1>1, ConstAssumption, Invariance, PTL DEF Spec, OneMemberMoves

(* PART and JOIN free the channel they leave empty.                        *)
THEOREM EmptyChannelGoes == Spec => PartedChannelVanishes
<1>1. ASSUME ConstAssumption, IInv, [Next]_vars
      PROVE  [\A ch \in Channels :
                Members(ch) # {} /\ Members(ch)' = {} => \/ ch \notin Channels'
                                                        \/ Live' # Live]_vars
  <2>1. Channels \subseteq ChanIds
    BY <1>1, SetsNamed
  <2>2. CASE SetsStay
    BY <2>1, <2>2 DEF SetsStay
  <2>3. ASSUME NEW c \in Fds, Departs(c)
        PROVE  Live' # Live
    BY <2>3 DEF Departs, RemoveEffect
  <2>4. ASSUME NEW ch \in ChanIds, Moves(Sender, ch)
        PROVE  \A x \in Channels : Members(x) # {} /\ Members(x)' = {}
                                   => x \notin Channels'
    BY <2>1, <2>4 DEF Moves, EnterEffect, PartEffect
  <2> QED
    BY <1>1, <2>2, <2>3, <2>4, StepMoves DEF Arrives, Introduces
<1> QED
  BY <1>1, ConstAssumption, Invariance, PTL DEF Spec, PartedChannelVanishes

-----------------------------------------------------------------------------
(* The lists implement Presence.                                           *)

(* A descriptor that accept returns has no registration left from before.  *)
GoneAreUnknown == \A c \in Fds : registered[c] => c \in Live

LEMMA KnownStep ==
  ASSUME ConstAssumption, IInv, GoneAreUnknown, [Next]_vars
  PROVE  GoneAreUnknown'
<1>1. registered \in [Fds -> BOOLEAN]
  BY DEF IInv, TypeOK
<1>2. ASSUME NEW c \in Fds, Arrives(c) \/ Introduces(c) \/ Departs(c)
      PROVE  GoneAreUnknown'
  BY <1>1, <1>2 DEF GoneAreUnknown, Arrives, Introduces, Departs, RemoveEffect
<1> QED
  BY <1>2, StepMoves DEF GoneAreUnknown, Moves

members == [ch \in ChanIds |-> Members(ch)]
known == {c \in Fds : registered[c]}

LEMMA StepPresence ==
  ASSUME ConstAssumption, IInv, GoneAreUnknown, [Next]_vars
  PROVE  [Abstraction!Next]_(Abstraction!vars)
<1> USE DEF members, known
<1>1. registered \in [Fds -> BOOLEAN]
  BY DEF IInv, TypeOK
<1>2. SetsStay => members' = members /\ Channels' = Channels
  BY DEF SetsStay
<1>3. CASE UNCHANGED <<Live, registered>> /\ SetsStay
  BY <1>2, <1>3 DEF Abstraction!vars
<1>4. ASSUME NEW c \in Fds, Arrives(c)
      PROVE  Abstraction!Arrive(c)
  <2>1. known' = known
    BY <1>1, <1>4 DEF Arrives, GoneAreUnknown
  <2> QED
    BY <1>2, <1>4, <2>1 DEF Arrives, Abstraction!Arrive
<1>5. ASSUME NEW c \in Fds, Introduces(c)
      PROVE  Abstraction!Introduce(c) \/ UNCHANGED Abstraction!vars
  <2>1. CASE registered' = registered
    BY <1>2, <1>5, <2>1 DEF Introduces, Abstraction!vars
  <2>2. CASE registered' # registered
    <3>1. ~registered[c] /\ registered' = [registered EXCEPT ![c] = TRUE]
      BY <1>1, <1>5, <2>2 DEF Introduces
    <3>2. known' = known \cup {c} /\ c \notin known
      BY <1>1, <3>1
    <3> QED
      BY <1>2, <1>5, <3>2 DEF Introduces, Abstraction!Introduce
  <2> QED
    BY <2>1, <2>2
<1>6. ASSUME NEW c \in Fds, Departs(c)
      PROVE  Abstraction!Depart(c)
  <2>1. known' = known \ {c}
    BY <1>1, <1>6 DEF Departs
  <2>2. members' = [ch \in ChanIds |-> members[ch] \ {c}]
    BY <1>6 DEF Departs, RemoveEffect
  <2> QED
    BY <1>6, <2>1, <2>2 DEF Departs, RemoveEffect, Abstraction!Depart
<1>7. ASSUME NEW ch \in ChanIds, Moves(Sender, ch)
      PROVE  \/ Abstraction!Enter(Sender, ch) \/ Abstraction!Leave(Sender, ch)
             \/ Abstraction!Close(ch) \/ UNCHANGED Abstraction!vars
  <2>1. /\ known' = known /\ Live' = Live
        /\ Sender \in known /\ Sender \in Fds
    BY <1>7, SetsNamed DEF Moves
  <2>2. CASE ch \notin Joined(Sender) /\ EnterEffect(ch)
    <3>1. Sender \notin members[ch]
      BY <2>1, <2>2 DEF IInv, MembershipAgrees
    <3>2. members' = [x \in ChanIds |-> IF x = ch
                                        THEN members[x] \cup {Sender}
                                        ELSE members[x] \ {Sender}]
      BY <2>2 DEF EnterEffect
    <3>3. Channels' = (Channels \cup {ch}) \ {x \in ChanIds : members[x] = {Sender}}
      BY <2>2 DEF EnterEffect
    <3> QED
      BY <2>1, <3>1, <3>2, <3>3 DEF Abstraction!Enter
  <2>3. CASE PartEffect(ch)
    <3>1. members' = [members EXCEPT ![ch] = @ \ {Sender}]
      BY <2>3 DEF PartEffect
    <3>2. CASE Sender \in Members(ch)
      <4>1. Channels' = IF members[ch] = {Sender} THEN Channels \ {ch}
                        ELSE Channels
        BY <2>3, <3>2 DEF PartEffect
      <4> QED
        BY <2>1, <3>1, <3>2, <4>1 DEF Abstraction!Leave
    <3>3. CASE Sender \notin Members(ch)
      <4>1. members' = members
        <5>1. \A x \in ChanIds : Members(x)' = Members(x)
          BY <2>3, <3>3 DEF PartEffect
        <5> QED
          BY <5>1
      <4>2. Channels' = IF members[ch] = {} THEN Channels \ {ch} ELSE Channels
        BY <2>3, <3>3 DEF PartEffect
      <4> QED
        BY <2>1, <4>1, <4>2 DEF Abstraction!Close, Abstraction!vars
    <3> QED
      BY <3>2, <3>3
  <2> QED
    BY <1>7, <2>2, <2>3 DEF Moves
<1>8. ASSUME NEW ch \in ChanIds, Moves(Sender, ch)
      PROVE  Sender \in Fds
  BY <1>8, SetsNamed DEF Moves
<1> QED
  BY <1>3, <1>4, <1>5, <1>6, <1>7, <1>8, StepMoves DEF Abstraction!Next

(* The handlers keep the promise of Presence.                              *)
THEOREM PresenceImplemented == Spec => ImplementsPresence
<1>1. Init => Abstraction!Init /\ GoneAreUnknown
  <2> SUFFICES ASSUME Init PROVE Abstraction!Init /\ GoneAreUnknown
    OBVIOUS
  <2>1. ToSet(<<>>) = {}
    BY DEF ToSet
  <2>2. Live = {} /\ Channels = {} /\ \A ch \in ChanIds : Members(ch) = {}
    BY <2>1 DEF Init, Live, Channels, Members
  <2> QED
    BY <2>2 DEF Init, Abstraction!Init, GoneAreUnknown
<1>2. IInv /\ GoneAreUnknown /\ [Next]_vars => GoneAreUnknown'
  BY ConstAssumption, KnownStep
<1>3. IInv /\ GoneAreUnknown /\ [Next]_vars
        => [Abstraction!Next]_(Abstraction!vars)
  BY ConstAssumption, StepPresence
<1> QED
  BY <1>1, <1>2, <1>3, Invariance, PTL
  DEF Spec, ImplementsPresence, Abstraction!Spec

(* What Presence promises follows: nobody is in two channels, and whoever  *)
(* is in one is registered and connected and finds it in channelList.      *)
THEOREM PresenceConsistent == Spec => []Abstraction!Consistent
<1>1. Init => GoneAreUnknown
  BY DEF Init, GoneAreUnknown
<1>2. IInv /\ GoneAreUnknown /\ [Next]_vars => GoneAreUnknown'
  BY ConstAssumption, KnownStep
<1>3. ASSUME IInv, GoneAreUnknown PROVE Abstraction!Consistent
  <2>1. \A ch, other \in ChanIds :
          ch # other => Members(ch) \cap Members(other) = {}
    <3> SUFFICES ASSUME NEW ch \in ChanIds, NEW other \in ChanIds,
                        NEW c \in Members(ch) \cap Members(other)
                 PROVE  ch = other
      OBVIOUS
    <3>1. c \in Fds /\ ch \in Joined(c) /\ other \in Joined(c)
      BY <1>3, SetsNamed DEF IInv, MembershipAgrees
    <3>2. chanlist[c] \in Seq(ChanIds) /\ Len(chanlist[c]) <= 1
          /\ chanlist[c] # <<>>
      BY <1>3, <3>1 DEF IInv, TypeOK, SingleEntries, Joined, ToSet
    <3> QED
      BY <3>1, <3>2, ShortList DEF Joined
  <2>2. \A ch \in ChanIds : Members(ch) \subseteq {c \in Fds : registered[c]}
    BY <1>3, SetsNamed DEF IInv, RegistrationGates
  <2>3. {c \in Fds : registered[c]} \subseteq Live
    BY <1>3 DEF GoneAreUnknown
  <2>4. \A ch \in ChanIds : Members(ch) # {} => ch \in Channels
    BY <1>3, SetsNamed DEF IInv, MembershipAgrees, NoStaleReferences
  <2> QED
    BY <2>1, <2>2, <2>3, <2>4 DEF Abstraction!Consistent
<1> QED
  BY <1>1, <1>2, <1>3, Invariance, PTL DEF Spec

-----------------------------------------------------------------------------
(* Announcements: how often a message is among those a step queues.        *)

Told(messages, r, msg) == Times(messages[r], msg)

LEMMA ToldBoth ==
  ASSUME NEW first \in Outputs, NEW second \in Outputs, NEW r \in Fds, NEW msg
  PROVE  Told(Both(first, second), r, msg)
           = Told(first, r, msg) + Told(second, r, msg)
<1>1. first[r] \in Seq(Messages) /\ second[r] \in Seq(Messages)
  BY DEF Outputs
<1> QED
  BY <1>1, TimesConcat DEF Told, Both

LEMMA ToldSilence ==
  ASSUME NEW r \in Fds, NEW msg
  PROVE  Told(Silence, r, msg) = 0
BY TimesAbsent DEF Told, Silence, ToSet

LEMMA ToldNumeric ==
  ASSUME NEW r \in Fds, NEW kind, NEW about, NEW msg, kind # msg.kind
  PROVE  Told(Numeric(kind, about), r, msg) = 0
<1>1. Msg(kind, Nobody, about) # msg
  BY DEF Msg
<1>2. Numeric(kind, about)[r] \in {<<>>, <<Msg(kind, Nobody, about)>>}
  BY DEF Numeric, To
<1>3. msg \notin ToSet(Numeric(kind, about)[r])
  BY <1>1, <1>2 DEF ToSet
<1> QED
  BY <1>3, TimesAbsent DEF Told

LEMMA CopiesTimes ==
  ASSUME NEW n \in Nat, NEW other, NEW msg
  PROVE  Times(Copies(n, other), msg) = IF other = msg THEN n ELSE 0
<1>1. CASE other = msg
  <2>1. Occurrences(Copies(n, other), msg) = 1 .. n
    BY <1>1 DEF Occurrences, Copies
  <2>2. Cardinality(1 .. n) = n
    BY FS_Interval
  <2> QED
    BY <1>1, <2>1, <2>2 DEF Times
<1>2. CASE other # msg
  BY <1>2, TimesAbsent DEF Copies, ToSet
<1> QED
  BY <1>1, <1>2

(* A loop over a userlist tells each of its entries once.                  *)
LEMMA ToldEach ==
  ASSUME NEW list \in Seq(Fds), IsInjective(list), NEW r \in Fds, NEW other,
         NEW msg
  PROVE  Told(ToEach(list, other), r, msg)
           = IF other = msg /\ r \in ToSet(list) THEN 1 ELSE 0
<1>1. Times(list, r) = IF r \in ToSet(list) THEN 1 ELSE 0
  BY TimesOnce, TimesAbsent
<1>2. ToEach(list, other)[r] = Copies(Times(list, r), other)
  BY DEF ToEach, Times, Occurrences
<1>3. Times(list, r) \in Nat
  BY <1>1
<1> QED
  BY <1>1, <1>2, <1>3, CopiesTimes DEF Told

(* The loops over chanlist and userlists tell each client that shares the  *)
(* one channel once, and never the client itself.                          *)
LEMMA ToldPeers ==
  ASSUME IInv, NEW c \in Fds, NEW r \in Fds, NEW other, NEW msg
  PROVE  Told(ToPeers(c, other), r, msg)
           = IF other = msg /\ r # c /\ Joined(c) \cap Joined(r) # {}
             THEN 1 ELSE 0
<1> DEFINE shared == {i \in DOMAIN chanlist[c] : r \in Members(chanlist[c][i])}
<1>1. /\ chanlist[c] \in Seq(ChanIds) /\ Len(chanlist[c]) <= 1
      /\ DOMAIN chanlist[c] = 1 .. Len(chanlist[c]) /\ Len(chanlist[c]) \in Nat
      /\ \A i \in DOMAIN chanlist[c] : chanlist[c][i] \in ChanIds
  BY LenProperties, ElementOfSeq DEF IInv, TypeOK, SingleEntries
<1>2. CASE r = c
  <2>1. ToPeers(c, other)[r] = <<>>
    BY <1>2, ToPeersSkipsSelf
  <2> QED
    BY <1>2, <2>1, TimesAbsent DEF Told, ToSet
<1>3. CASE r # c
  <2>1. \A i \in DOMAIN chanlist[c] :
          r \in Members(chanlist[c][i]) <=> chanlist[c][i] \in Joined(r)
    BY <1>1 DEF IInv, MembershipAgrees
  <2>2. shared = {} <=> Joined(c) \cap Joined(r) = {}
    BY <2>1 DEF Joined, ToSet
  <2>3. shared # {} => shared = {1}
    BY <1>1
  <2>4. Cardinality(shared) = IF Joined(c) \cap Joined(r) # {} THEN 1 ELSE 0
    BY <2>2, <2>3, FS_EmptySet, FS_Singleton
  <2>5. ToPeers(c, other)[r] = Copies(Cardinality(shared), other)
    BY <1>3 DEF ToPeers
  <2> HIDE DEF shared
  <2>6. Cardinality(shared) \in Nat
    BY <2>4
  <2> QED
    BY <1>3, <2>4, <2>5, <2>6, CopiesTimes DEF Told
<1> QED
  BY <1>2, <1>3

LEMMA CountTold ==
  ASSUME NEW r, NEW msg
  PROVE  Count(r, msg) = Told(queued', r, msg)
BY DEF Count, Told, Times, Occurrences

(* What a rename queues, whether or not the client was registered.         *)
LEMMA NickTold ==
  ASSUME ConstAssumption, IInv, NEW newNick, cmd_nick(newNick), NEW r \in Fds
  PROVE  Count(r, Msg("NICK", Sender, {})) =
           IF r # Sender /\ Joined(Sender) \cap Joined(r) # {} THEN 1 ELSE 0
<1> DEFINE msg == Msg("NICK", Sender, {})
           first == IF registered[Sender] THEN ToPeers(Sender, msg) ELSE Silence
           second == IF ~registered[Sender] /\ user[Sender]
                     THEN Numeric("MOTD", {}) ELSE Silence
<1>1. Sender \in Live /\ Sender \in Fds
  BY LineSender DEF cmd_nick
<1>2. msg \in Messages
  BY <1>1, MsgType DEF Kinds
<1>3. first \in Outputs /\ second \in Outputs
  BY <1>1, <1>2, ToPeersType, NumericType, SilenceType DEF Kinds, IInv
<1>4. Told(second, r, msg) = 0
  <2>1. "MOTD" # msg.kind
    BY DEF Msg
  <2> QED
    BY <2>1, ToldNumeric, ToldSilence
<1>5. Told(first, r, msg) =
        IF r # Sender /\ Joined(Sender) \cap Joined(r) # {} THEN 1 ELSE 0
  <2>1. CASE registered[Sender]
    BY <1>1, <2>1, ToldPeers
  <2>2. CASE ~registered[Sender]
    <3>1. \A ch \in ChanIds : Sender \notin Members(ch)
      BY <2>2 DEF IInv, RegistrationGates
    <3>2. Joined(Sender) = {}
      <4>1. Joined(Sender) \subseteq ChanIds
        BY <1>1, LenProperties, ElementOfSeq DEF IInv, TypeOK, Joined, ToSet
      <4> QED
        BY <1>1, <3>1, <4>1 DEF IInv, MembershipAgrees
    <3> QED
      BY <2>2, <3>2, ToldSilence
  <2> QED
    BY <2>1, <2>2
<1>6. queued' = Both(first, second)
  BY DEF cmd_nick
<1> HIDE DEF first, second, msg
<1>7. Told(Both(first, second), r, msg) = Told(first, r, msg) + Told(second, r, msg)
  BY <1>3, ToldBoth
<1>8. Count(r, msg) = Told(first, r, msg)
  BY <1>4, <1>5, <1>6, <1>7, CountTold
<1> QED
  BY <1>5, <1>8 DEF msg

(* A nickname changes in cmd_nick only, while its client is connected.     *)
LEMMA RenamedByNick ==
  ASSUME ConstAssumption, IInv, Next, NEW c \in Live \cap Live',
         nick'[c] # nick[c]
  PROVE  c = Sender /\ \E newNick \in Words : cmd_nick(newNick)
<1>1. c \in Fds
  BY SetsNamed
<1>2. nick \in [Fds -> Nicks \cup {Empty}]
  BY DEF IInv, TypeOK
<1>3. ~ UNCHANGED nick
  OBVIOUS
<1>4. ~ Quiet /\ ~ cmd_user
  BY <1>3 DEF Quiet, clientVars, cmd_user
<1>5. ASSUME NEW d \in Fds, Accept(d) PROVE FALSE
  <2>1. d # c /\ nick' = [nick EXCEPT ![d] = Empty]
    BY <1>5 DEF Accept
  <2> QED
    BY <1>1, <1>2, <2>1
<1>6. ASSUME NEW d \in Fds, RemoveEffect(d), remove_client(d) PROVE FALSE
  <2>1. d # c /\ nick' = [nick EXCEPT ![d] = Empty]
    BY <1>6 DEF RemoveEffect, remove_client
  <2> QED
    BY <1>1, <1>2, <2>1
<1>7. ~ \E d \in Fds : HangUp(d)
  BY <1>6, HangUpStep DEF HangUp
<1>8. ~ cmd_quit
  BY <1>6, QuitStep, LineSender DEF cmd_quit
<1>9. ~ \E ch \in ChanIds : part_client(ch)
  BY <1>3 DEF part_client, clientVars
<1>10. ~ \E ch, chanIndex, list, names : Entered(ch, chanIndex, list, names)
  BY <1>3 DEF Entered, Enter, clientVars
<1>11. \E newNick \in Words : cmd_nick(newNick)
  BY <1>4, <1>5, <1>7, <1>8, <1>9, <1>10, StepKinds, JoinExistingEnters,
     JoinNewEnters
<1>12. c = Sender
  BY <1>1, <1>2, <1>11 DEF cmd_nick
<1> QED
  BY <1>11, <1>12

(* Everybody who shares the channel of a client that renames itself hears  *)
(* of it exactly once, and nobody else does.                               *)
THEOREM RenamesAreHeard == Spec => RenameAnnounced
<1>1. ASSUME ConstAssumption, IInv, Next, NEW c \in Live \cap Live',
             nick'[c] # nick[c], NEW r \in Fds
      PROVE  Count(r, Msg("NICK", c, {})) =
               IF r # c /\ Joined(c) \cap Joined(r) # {} THEN 1 ELSE 0
  BY <1>1, RenamedByNick, NickTold
<1>2. IInv /\ [Next]_vars =>
        [\A c \in Live \cap Live' :
           nick'[c] # nick[c]
           => \A r \in Fds :
                Count(r, Msg("NICK", c, {})) =
                  IF r # c /\ Joined(c) \cap Joined(r) # {} THEN 1 ELSE 0]_vars
  BY <1>1, ConstAssumption
<1> QED
  BY <1>2, Invariance, PTL DEF Spec, RenameAnnounced

Announced(c, ch) == \A r \in Members(ch)' : Count(r, Msg("QUIT", c, {})) = 1

LEMMA QuitTold ==
  ASSUME ConstAssumption, IInv, cmd_quit, NEW ch \in ChanIds, Sender \in Members(ch)
  PROVE  Announced(Sender, ch)
<1>1. Sender \in Live /\ Sender \in Fds
  BY LineSender DEF cmd_quit
<1>2. Members(ch)' = Members(ch) \ {Sender} /\ Members(ch) \subseteq Fds
  BY QuitStep, SetsNamed DEF RemoveEffect
<1>3. \A r \in Members(ch) : ch \in Joined(Sender) \cap Joined(r)
  BY <1>1, <1>2 DEF IInv, MembershipAgrees
<1>4. ASSUME NEW r \in Members(ch)'
      PROVE  Told(ToPeers(Sender, Msg("QUIT", Sender, {})), r,
                  Msg("QUIT", Sender, {})) = 1
  BY <1>1, <1>2, <1>3, <1>4, ToldPeers
<1> QED
  BY <1>4, CountTold DEF cmd_quit, Announced

LEMMA PartTold ==
  ASSUME ConstAssumption, IInv, NEW ch \in ChanIds, part_client(ch),
         Sender \in Members(ch)
  PROVE  Announced(Sender, ch)
<1> DEFINE msg == Msg("QUIT", Sender, {})
<1>1. Sender \in Live /\ Sender \in Fds
  BY TargetSender DEF part_client, AtTarget
<1>2. msg \in Messages
  BY <1>1, MsgType DEF Kinds
<1>3. userlist[ch] \in Seq(Fds) /\ IsInjective(userlist[ch])
  BY DEF IInv, TypeOK, SingleEntries
<1>4. queued' = Both(Silence, ToEach(userlist[ch], msg))
  BY DEF part_client
<1>5. Members(ch)' = Members(ch) \ {Sender} /\ Members(ch) \subseteq Fds
  BY PartStep, SetsNamed DEF PartEffect
<1>6. Silence \in Outputs /\ ToEach(userlist[ch], msg) \in Outputs
  BY <1>2, <1>3, SilenceType, ToEachType
<1> HIDE DEF msg
<1>7. ASSUME NEW r \in Members(ch)' PROVE Count(r, msg) = 1
  <2>1. r \in Fds /\ r \in ToSet(userlist[ch])
    BY <1>5, <1>7 DEF Members
  <2>2. Told(Silence, r, msg) = 0 /\ Told(ToEach(userlist[ch], msg), r, msg) = 1
    BY <1>3, <2>1, ToldSilence, ToldEach
  <2>3. Told(queued', r, msg) = 0 + 1
    BY <1>4, <1>6, <2>1, <2>2, ToldBoth
  <2> QED
    BY <2>3, CountTold
<1> QED
  BY <1>7 DEF Announced, msg

LEMMA EnteredTold ==
  ASSUME ConstAssumption, IInv, NEW new, NEW chanIndex, NEW list, NEW names,
         Entered(new, chanIndex, list, names),
         NEW ch \in ChanIds, Sender \in Members(ch), ch # new
  PROVE  Announced(Sender, ch)
<1> DEFINE msg == Msg("QUIT", Sender, {})
<1>1. Sender \in Live /\ Sender \in Fds /\ new \in ChanIds
  BY DEF Entered, EntryOK
<1>2. ch \in Joined(Sender) /\ Members(ch) \subseteq Fds
  BY <1>1, SetsNamed DEF IInv, MembershipAgrees
<1>3. PICK x \in ChanIds :
        /\ ch = Head(chanlist[Sender])
        /\ queued' = Both(Both(ToEach(userlist[ch], msg), Welcome(new)),
                          ToEach(userlist'[x], Msg("JOIN", Sender, {new})))
  BY <1>2, EnteredSays DEF EnterSays, Farewell
<1>4. IInv' /\ Members(ch)' = Members(ch) \ {Sender}
  BY EnteredStep DEF EnterEffect
<1> DEFINE farewell == ToEach(userlist[ch], msg)
           names_about == Numeric("RPL_NAMREPLY", Members(new)')
           names_end == Numeric("RPL_ENDOFNAMES", {new})
           announcement == ToEach(userlist'[x], Msg("JOIN", Sender, {new}))
<1>5. /\ userlist[ch] \in Seq(Fds) /\ IsInjective(userlist[ch])
      /\ userlist'[x] \in Seq(Fds) /\ IsInjective(userlist'[x])
      /\ Members(new)' \subseteq Fds
  <2>1. Members(new)' \subseteq Fds
    BY <1>1, <1>4, LenProperties, ElementOfSeq DEF IInv, TypeOK, Members, ToSet
  <2> QED
    BY <1>4, <2>1 DEF IInv, TypeOK, SingleEntries
<1>6. /\ farewell \in Outputs /\ names_about \in Outputs
      /\ names_end \in Outputs /\ announcement \in Outputs
  BY <1>1, <1>5, MsgType, ToEachType, NumericType DEF Kinds
<1>7. msg # Msg("JOIN", Sender, {new}) /\ msg.kind = "QUIT"
  BY DEF Msg
<1>8. queued' = Both(Both(farewell, Both(names_about, names_end)), announcement)
  BY <1>3 DEF Welcome
<1> HIDE DEF msg, names_about, names_end
<1>9. ASSUME NEW r \in Members(ch)' PROVE Count(r, msg) = 1
  <2>1. r \in Fds /\ r \in ToSet(userlist[ch])
    BY <1>2, <1>4, <1>9 DEF Members
  <2>2. Told(farewell, r, msg) = 1 /\ Told(announcement, r, msg) = 0
    BY <1>5, <1>7, <2>1, ToldEach
  <2>3. Told(names_about, r, msg) = 0 /\ Told(names_end, r, msg) = 0
    BY <1>7, <2>1, ToldNumeric DEF names_about, names_end
  <2> HIDE DEF farewell, announcement
  <2>4. /\ Both(names_about, names_end) \in Outputs
        /\ Both(farewell, Both(names_about, names_end)) \in Outputs
    BY <1>6, BothType
  <2>5. Told(Both(names_about, names_end), r, msg) = 0
    BY <1>6, <2>1, <2>3, ToldBoth
  <2>6. Told(Both(farewell, Both(names_about, names_end)), r, msg) = 1
    BY <1>6, <2>1, <2>2, <2>4, <2>5, ToldBoth
  <2>7. Told(queued', r, msg) = 1
    BY <1>6, <1>8, <2>1, <2>2, <2>4, <2>6, ToldBoth
  <2> QED
    BY <2>7, CountTold
<1> QED
  BY <1>9 DEF Announced, msg

LEMMA LeaverTold ==
  ASSUME ConstAssumption, IInv, Next, serving # Nobody,
         NEW c \in Fds, NEW ch \in ChanIds,
         c \in Members(ch), c \notin Members(ch)'
  PROVE  Announced(c, ch)
<1>1. ~ UNCHANGED roomVars
  BY DEF roomVars, Members
<1>2. ~ Quiet /\ ~ cmd_user /\ ~ \E newNick \in Words : cmd_nick(newNick)
  BY <1>1 DEF Quiet, cmd_user, cmd_nick
<1>3. ~ \E d \in Fds : Accept(d) \/ HangUp(d)
  BY DEF Accept, HangUp, AtRest
<1>4. ASSUME cmd_quit PROVE Announced(c, ch)
  <2>1. c = Sender
    BY <1>4, QuitStep DEF RemoveEffect
  <2> QED
    BY <1>4, <2>1, QuitTold
<1>5. ASSUME NEW x \in ChanIds, part_client(x) PROVE Announced(c, ch)
  <2>1. c = Sender /\ ch = x
    BY <1>5, PartStep DEF PartEffect
  <2> QED
    BY <1>5, <2>1, PartTold
<1>6. ASSUME NEW new, NEW chanIndex, NEW list, NEW names,
             Entered(new, chanIndex, list, names)
      PROVE  Announced(c, ch)
  <2>1. c = Sender /\ ch # new
    BY <1>6, EnteredStep DEF EnterEffect
  <2> QED
    BY <1>6, <2>1, EnteredTold
<1> QED
  BY <1>2, <1>3, <1>4, <1>5, <1>6, StepKinds, JoinExistingEnters, JoinNewEnters

(* Whoever leaves a channel by a command is heard leaving it exactly once  *)
(* by each of those who remain, before or after the lists have changed.    *)
THEOREM DeparturesAreHeard == Spec => DepartureAnnounced
<1>1. IInv /\ [Next]_vars =>
        [\A c \in Fds, ch \in ChanIds :
           serving # Nobody /\ c \in Members(ch) /\ c \notin Members(ch)'
           => \A r \in Members(ch)' : Count(r, Msg("QUIT", c, {})) = 1]_vars
  BY ConstAssumption, LeaverTold DEF Announced
<1> QED
  BY <1>1, Invariance, PTL DEF Spec, DepartureAnnounced

=============================================================================
