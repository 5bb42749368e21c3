--------------------------- MODULE IrcProtoProofs ---------------------------
(***************************************************************************)
(* The lists of the server stay consistent, for any numbers of clients,    *)
(* channels and names: TypeOK, HandlerHasSender, MembershipAgrees,         *)
(* NoStaleReferences, SingleEntries and RegistrationGates hold of every    *)
(* behaviour of IrcProto.                                                  *)
(*                                                                         *)
(* None of them is inductive alone.  arraylist_remove takes out the first  *)
(* entry only, so the two halves of a membership agree after PART only     *)
(* because of SingleEntries.  remove_client walks through the client's own *)
(* chanlist, so no userlist keeps a freed client only because              *)
(* MembershipAgrees.  A client is registered while it is in a channel only *)
(* because no line can reach JOIN before.  IInv is their conjunction.      *)
(***************************************************************************)
EXTENDS IrcProto, ListLemmas, FiniteSetTheorems

IInv ==
  /\ TypeOK
  /\ HandlerHasSender
  /\ MembershipAgrees
  /\ NoStaleReferences
  /\ SingleEntries
  /\ RegistrationGates

Outputs == [Fds -> Seq(Messages)]

-----------------------------------------------------------------------------
(* What the handlers queue is well formed.                                 *)

LEMMA MsgType ==
  ASSUME NEW kind \in Kinds, NEW from \in Fds \cup {Nobody},
         NEW about \in SUBSET (Fds \cup ChanIds)
  PROVE  Msg(kind, from, about) \in Messages
BY DEF Msg, Messages

LEMMA CopiesType ==
  ASSUME NEW n \in Nat, NEW msg \in Messages
  PROVE  Copies(n, msg) \in Seq(Messages)
<1>1. [i \in 1 .. n |-> msg] \in [1 .. n -> Messages]
  OBVIOUS
<1> QED
  BY <1>1, SeqDef DEF Copies

LEMMA ToType ==
  ASSUME NEW receivers, NEW msg \in Messages
  PROVE  To(receivers, msg) \in Outputs
<1>1. <<>> \in Seq(Messages) /\ <<msg>> \in Seq(Messages)
  OBVIOUS
<1> QED
  BY <1>1 DEF To, Outputs

LEMMA SilenceType == Silence \in Outputs
BY DEF Silence, Outputs

LEMMA BothType ==
  ASSUME NEW first \in Outputs, NEW second \in Outputs
  PROVE  Both(first, second) \in Outputs
<1>1. \A c \in Fds : first[c] \in Seq(Messages) /\ second[c] \in Seq(Messages)
  BY DEF Outputs
<1>2. \A c \in Fds : first[c] \o second[c] \in Seq(Messages)
  BY <1>1, ConcatProperties
<1> QED
  BY <1>2 DEF Both, Outputs

LEMMA NumericType ==
  ASSUME NEW kind \in Kinds, NEW about \in SUBSET (Fds \cup ChanIds)
  PROVE  Numeric(kind, about) \in Outputs
BY MsgType, ToType DEF Numeric

LEMMA ToEachType ==
  ASSUME NEW S, NEW list \in Seq(S), NEW msg \in Messages
  PROVE  ToEach(list, msg) \in Outputs
<1>1. \A r : Cardinality({j \in DOMAIN list : list[j] = r}) \in Nat
  <2> TAKE r
  <2>1. IsFiniteSet(DOMAIN list)
    BY LenProperties, FS_Interval
  <2>2. {j \in DOMAIN list : list[j] = r} \in SUBSET DOMAIN list
    OBVIOUS
  <2>3. IsFiniteSet({j \in DOMAIN list : list[j] = r})
    BY <2>1, <2>2, FS_Subset
  <2> QED
    BY <2>3, FS_CardinalityType
<1> QED
  BY <1>1, CopiesType DEF ToEach, Outputs

LEMMA ToPeersType ==
  ASSUME TypeOK, NEW c \in Fds, NEW msg \in Messages
  PROVE  ToPeers(c, msg) \in Outputs
<1>1. IsFiniteSet(DOMAIN chanlist[c])
  <2>1. chanlist[c] \in Seq(ChanIds)
    BY DEF TypeOK
  <2> QED
    BY <2>1, LenProperties, FS_Interval
<1>2. \A r : Cardinality({i \in DOMAIN chanlist[c] :
                            r \in Members(chanlist[c][i])}) \in Nat
  <2> TAKE r
  <2>1. {i \in DOMAIN chanlist[c] : r \in Members(chanlist[c][i])}
          \in SUBSET DOMAIN chanlist[c]
    OBVIOUS
  <2>2. IsFiniteSet({i \in DOMAIN chanlist[c] : r \in Members(chanlist[c][i])})
    BY <1>1, <2>1, FS_Subset
  <2> QED
    BY <2>2, FS_CardinalityType
<1>3. <<>> \in Seq(Messages)
  OBVIOUS
<1> QED
  BY <1>2, <1>3, CopiesType DEF ToPeers, Outputs

-----------------------------------------------------------------------------
(* Steps that leave the lists alone.                                       *)

(* The handler's loop moves, or nothing but the outbufs changes.           *)
LEMMA QuietStep ==
  ASSUME IInv,
         UNCHANGED <<status, clientVars, roomVars, serving, listIndex>>,
         queued' \in Outputs,
         todo' \in Calls,
         todo' # NoCall => /\ serving # Nobody
                           /\ listIndex \in DOMAIN clientList
                           /\ registered[Sender]
  PROVE  IInv'
<1> USE DEF clientVars, roomVars
<1>1. TypeOK'
  BY DEF IInv, TypeOK, Outputs
<1>2. HandlerHasSender'
  BY DEF HandlerHasSender, Sender
<1>3. MembershipAgrees' /\ NoStaleReferences' /\ SingleEntries'
  BY DEF IInv, MembershipAgrees, NoStaleReferences, SingleEntries, Members,
         Joined, Live, Channels
<1>4. RegistrationGates'
  BY DEF IInv, RegistrationGates, Live, Members
<1> QED
  BY <1>1, <1>2, <1>3, <1>4 DEF IInv

LEMMA AnswerStep ==
  ASSUME IInv, NEW messages \in Outputs, Answer(messages)
  PROVE  IInv'
<1>1. todo' = todo /\ queued' = messages
      /\ UNCHANGED <<status, clientVars, roomVars, serving, listIndex>>
  BY DEF Answer
<1>2. todo \in Calls
  BY DEF IInv, TypeOK
<1>3. todo # NoCall => /\ serving # Nobody
                       /\ listIndex \in DOMAIN clientList
                       /\ registered[Sender]
  BY DEF IInv, HandlerHasSender
<1> QED
  BY <1>1, <1>2, <1>3, QuietStep

LEMMA FailStep ==
  ASSUME IInv, Fail
  PROVE  IInv'
<1> USE DEF clientVars, roomVars, Fail
<1>1. TypeOK'
  BY SilenceType DEF IInv, TypeOK, Outputs
<1>2. HandlerHasSender'
  BY DEF IInv, HandlerHasSender, Sender
<1>3. MembershipAgrees' /\ NoStaleReferences' /\ SingleEntries'
  BY DEF IInv, MembershipAgrees, NoStaleReferences, SingleEntries, Members,
         Joined, Live, Channels
<1>4. RegistrationGates'
  BY DEF IInv, RegistrationGates, Live, Members
<1> QED
  BY <1>1, <1>2, <1>3, <1>4 DEF IInv

(* A dispatched line has a live, and where it matters registered, sender.  *)
LEMMA SenderIsLive ==
  ASSUME IInv, listIndex \in DOMAIN clientList
  PROVE  Sender \in Live /\ Sender \in Fds
<1>1. clientList \in Seq(Fds)
  BY DEF IInv, TypeOK
<1> QED
  BY <1>1, LenProperties, ElementOfSeq DEF Sender, Live, ToSet

LEMMA LoopStep ==
  ASSUME IInv, ConstAssumption,
         NEW cmd \in {"PART", "PRIVMSG", "WHO"}, NEW list \in Params,
         NEW text \in BOOLEAN, NEW messages \in Outputs, NEW n_params,
         Dispatched(cmd, n_params), Loop(cmd, list, text, messages)
  PROVE  IInv'
<1>1. CASE Fail
  BY <1>1, FailStep
<1>2. CASE Answer(messages)
  BY <1>2, AnswerStep
<1>3. CASE /\ list \notin Trapping
           /\ Tokens[list] # <<>>
           /\ todo' = [cmd |-> cmd, targets |-> Tokens[list], text |-> text]
           /\ queued' = messages
           /\ UNCHANGED <<status, clientVars, roomVars, serving, listIndex>>
  <2>1. Tokens[list] \in Seq(Words) \ {<<>>}
    BY <1>3 DEF ConstAssumption
  <2>2. todo' \in Calls
    BY <1>3, <2>1 DEF Calls
  <2>3. /\ serving # Nobody
        /\ listIndex \in DOMAIN clientList
        /\ registered[Sender]
    BY DEF Dispatched, AtLine, needreg
  <2> QED
    BY <1>3, <2>2, <2>3, QuietStep
<1> QED
  BY <1>1, <1>2, <1>3 DEF Loop

(* NextTarget keeps todo well formed, and starts no loop.                  *)
LEMMA NextTargetType ==
  ASSUME IInv, InHandler, NextTarget
  PROVE  todo' \in Calls
<1>1. todo \in Calls /\ todo # NoCall
  BY DEF IInv, TypeOK, InHandler
<1>2. CASE Len(todo.targets) = 1
  BY <1>2 DEF NextTarget, Calls
<1>3. CASE Len(todo.targets) # 1
  <2>1. /\ todo \in [cmd: {"PART", "PRIVMSG", "WHO"},
                    targets: Seq(Words) \ {<<>>}, text: BOOLEAN]
        /\ todo.targets \in Seq(Words) /\ todo.targets # <<>>
    BY <1>1 DEF Calls
  <2>2. /\ Tail(todo.targets) \in Seq(Words)
        /\ Len(Tail(todo.targets)) = Len(todo.targets) - 1
    BY <2>1, HeadTailProperties
  <2>3. Len(todo.targets) \in Nat \ {0}
    BY <2>1, EmptySeq
  <2>4. Len(todo.targets) - 1 # 0
    BY <2>3, <1>3
  <2>5. Tail(todo.targets) # <<>>
    <3>1. Len(Tail(todo.targets)) # 0
      BY <2>2, <2>4
    <3> QED
      BY <2>2, <3>1, EmptySeq
  <2>6. todo' = [todo EXCEPT !.targets = Tail(@)]
    BY <1>3 DEF NextTarget
  <2> QED
    BY <2>1, <2>2, <2>5, <2>6 DEF Calls
<1> QED
  BY <1>2, <1>3

LEMMA NextTargetStep ==
  ASSUME IInv, InHandler, NextTarget, queued' \in Outputs,
         UNCHANGED <<status, clientVars, roomVars, serving, listIndex>>
  PROVE  IInv'
<1>1. todo \in Calls /\ todo # NoCall
  BY DEF IInv, TypeOK, InHandler
<1>2. todo' \in Calls
  BY NextTargetType
<1>3. /\ serving # Nobody
      /\ listIndex \in DOMAIN clientList
      /\ registered[Sender]
  BY <1>1 DEF IInv, HandlerHasSender
<1> QED
  BY <1>2, <1>3, QuietStep

-----------------------------------------------------------------------------
(* Connections.                                                            *)

LEMMA NoMembershipOutside ==
  ASSUME IInv
  PROVE  /\ \A c \in Fds \ Live : Joined(c) = {}
         /\ \A ch \in ChanIds \ Channels : Members(ch) = {}
<1>1. \A c \in Fds : Joined(c) \subseteq ChanIds
  BY LenProperties, ElementOfSeq DEF IInv, TypeOK, Joined, ToSet
<1>2. \A ch \in ChanIds : Members(ch) \subseteq Fds
  BY LenProperties, ElementOfSeq DEF IInv, TypeOK, Members, ToSet
<1> QED
  BY <1>1, <1>2 DEF IInv, MembershipAgrees, NoStaleReferences

LEMMA AcceptStep ==
  ASSUME IInv, ConstAssumption, NEW c \in Fds, Accept(c)
  PROVE  IInv'
<1>1. /\ clientList \in Seq(Fds) /\ IsInjective(clientList)
      /\ c \notin ToSet(clientList)
  BY DEF IInv, TypeOK, SingleEntries, Accept, Live
<1>2. /\ clientList' \in Seq(Fds) /\ IsInjective(clientList')
      /\ Live' = Live \cup {c}
  BY <1>1, AddProperties DEF Accept, Live
<1>3. chanlist' = [chanlist EXCEPT ![c] = <<>>] /\ userlist' = userlist
      /\ channelList' = channelList
  BY DEF Accept
<1>4. /\ \A d \in Fds : Joined(d)' = Joined(d)
      /\ \A ch \in ChanIds : Members(ch)' = Members(ch)
      /\ Channels' = Channels
  <2>1. Joined(c) = {} /\ Joined(c)' = {}
    <3>1. Joined(c) = {}
      BY <1>1, NoMembershipOutside DEF Live
    <3>2. chanlist'[c] = <<>>
      BY <1>3 DEF IInv, TypeOK
    <3>3. ToSet(<<>>) = {}
      BY DEF ToSet
    <3> QED
      BY <3>1, <3>2, <3>3 DEF Joined
  <2>2. \A d \in Fds \ {c} : Joined(d)' = Joined(d)
    BY <1>3 DEF Joined, IInv, TypeOK
  <2> QED
    BY <2>1, <2>2, <1>3 DEF Members, Channels
<1>5. TypeOK'
  <2>1. /\ nick' \in [Fds -> Nicks \cup {Empty}]
        /\ user' \in [Fds -> BOOLEAN]
        /\ registered' \in [Fds -> BOOLEAN]
    BY DEF IInv, TypeOK, Accept
  <2>2. chanlist' \in [Fds -> Seq(ChanIds)]
    BY EmptySeq DEF IInv, TypeOK, Accept
  <2>3. queued' \in [Fds -> Seq(Messages)]
    BY SilenceType DEF Accept, Outputs
  <2> QED
    BY <1>2, <2>1, <2>2, <2>3 DEF IInv, TypeOK, Accept
<1>6. HandlerHasSender'
  BY DEF Accept, AtRest, IInv, HandlerHasSender
<1>7. MembershipAgrees'
  BY <1>4 DEF IInv, MembershipAgrees
<1>8. NoStaleReferences'
  BY <1>2, <1>4 DEF IInv, NoStaleReferences
<1>9. SingleEntries'
  <2>1. \A d \in Fds : Len(chanlist'[d]) <= 1
    BY <1>3 DEF IInv, TypeOK, SingleEntries
  <2> QED
    BY <2>1, <1>2, <1>3 DEF IInv, SingleEntries
<1>10. RegistrationGates'
  <2>1. /\ nick'[c] = Empty /\ ~registered'[c]
        /\ \A d \in Fds \ {c} : /\ nick'[d] = nick[d]
                               /\ user'[d] = user[d]
                               /\ registered'[d] = registered[d]
    BY DEF Accept, IInv, TypeOK
  <2>2. \A ch \in ChanIds : c \notin Members(ch)
    BY <1>1 DEF IInv, NoStaleReferences, Live
  <2>3. Live \subseteq Fds
    BY <1>1, LenProperties, ElementOfSeq DEF Live, ToSet
  <2>4. \A ch \in ChanIds : Members(ch) \subseteq Live
    BY DEF IInv, NoStaleReferences
  <2> QED
    BY <2>1, <2>2, <2>3, <2>4, <1>2, <1>4 DEF IInv, RegistrationGates
<1> QED
  BY <1>5, <1>6, <1>7, <1>8, <1>9, <1>10 DEF IInv

LEMMA ReceiveStep ==
  ASSUME IInv, NEW c \in Fds, Receive(c)
  PROVE  IInv'
<1> USE DEF clientVars, roomVars, Receive
<1>1. listIndex' \in Nat
  <2>1. c \in ToSet(clientList)
    BY DEF Live
  <2>2. arraylist_index_of(clientList, c) \in 1 .. Len(clientList)
    BY <2>1, IndexOfEntry DEF IInv, TypeOK, SingleEntries
  <2> QED
    BY <2>2
<1>2. TypeOK'
  BY <1>1, SilenceType DEF IInv, TypeOK, Outputs
<1>3. HandlerHasSender'
  BY DEF AtRest, IInv, HandlerHasSender
<1>4. MembershipAgrees' /\ NoStaleReferences' /\ SingleEntries'
  BY DEF IInv, MembershipAgrees, NoStaleReferences, SingleEntries, Members,
         Joined, Live, Channels
<1>5. RegistrationGates'
  BY DEF IInv, RegistrationGates, Live, Members
<1> QED
  BY <1>2, <1>3, <1>4, <1>5 DEF IInv

LEMMA EndOfLinesStep ==
  ASSUME IInv, EndOfLines
  PROVE  IInv'
<1> USE DEF clientVars, roomVars, EndOfLines
<1>1. TypeOK'
  BY SilenceType DEF IInv, TypeOK, Outputs
<1>2. HandlerHasSender'
  BY DEF HandlerHasSender
<1>3. MembershipAgrees' /\ NoStaleReferences' /\ SingleEntries'
  BY DEF IInv, MembershipAgrees, NoStaleReferences, SingleEntries, Members,
         Joined, Live, Channels
<1>4. RegistrationGates'
  BY DEF IInv, RegistrationGates, Live, Members
<1> QED
  BY <1>1, <1>2, <1>3, <1>4 DEF IInv

(* What remove_client does to the sets.                                    *)
RemoveEffect(c) ==
  /\ Live' = Live \ {c} /\ Channels' = Channels
  /\ \A x \in ChanIds : Members(x)' = Members(x) \ {c}
  /\ \A d \in Fds : Joined(d)' = IF d = c THEN {} ELSE Joined(d)

(* remove_client leaves consistent lists, whoever calls it.                *)
LEMMA RemoveClientLists ==
  ASSUME IInv, ConstAssumption, NEW c \in Live, remove_client(c),
         queued' \in Outputs, todo = NoCall,
         UNCHANGED <<status, serving, listIndex, todo>>
  PROVE  IInv' /\ RemoveEffect(c)
<1>1. /\ clientList \in Seq(Fds) /\ IsInjective(clientList)
      /\ channelList \in Seq(ChanIds)
      /\ userlist \in [ChanIds -> Seq(Fds)]
      /\ chanlist \in [Fds -> Seq(ChanIds)]
      /\ \A ch \in ChanIds : IsInjective(userlist[ch])
  BY DEF IInv, TypeOK, SingleEntries
<1>2. c \in Fds
  BY <1>1, LenProperties, ElementOfSeq DEF Live, ToSet
<1>3. /\ clientList' \in Seq(Fds) /\ IsInjective(clientList')
      /\ Live' = Live \ {c}
  BY <1>1, RemoveProperties DEF remove_client, Live
<1>4. \A ch \in ChanIds : /\ userlist'[ch] \in Seq(Fds)
                          /\ IsInjective(userlist'[ch])
                          /\ Members(ch)' = Members(ch) \ {c}
  <2> TAKE ch \in ChanIds
  <2>1. CASE ch \in Joined(c)
    <3>1. userlist'[ch] = arraylist_remove(userlist[ch], c)
      BY <2>1 DEF remove_client
    <3> QED
      BY <3>1, <1>1, RemoveProperties DEF Members
  <2>2. CASE ch \notin Joined(c)
    <3>1. userlist'[ch] = userlist[ch]
      BY <2>2 DEF remove_client
    <3>2. c \notin Members(ch)
      BY <2>2, <1>2 DEF IInv, MembershipAgrees
    <3> QED
      BY <3>1, <3>2, <1>1 DEF Members
  <2> QED
    BY <2>1, <2>2
<1>5. /\ Joined(c)' = {}
      /\ \A d \in Fds \ {c} : Joined(d)' = Joined(d)
      /\ Channels' = Channels
  BY <1>1, <1>2 DEF remove_client, Joined, ToSet, Channels
<1>6. TypeOK'
  <2>1. userlist' \in [ChanIds -> Seq(Fds)]
    BY <1>4 DEF remove_client
  <2>2. /\ nick' \in [Fds -> Nicks \cup {Empty}]
        /\ user' \in [Fds -> BOOLEAN]
        /\ registered' \in [Fds -> BOOLEAN]
    BY DEF IInv, TypeOK, remove_client
  <2>3. chanlist' \in [Fds -> Seq(ChanIds)]
    BY EmptySeq DEF IInv, TypeOK, remove_client
  <2>4. channelList' = channelList /\ channame' = channame
    BY DEF remove_client
  <2> QED
    BY <1>3, <2>1, <2>2, <2>3, <2>4 DEF IInv, TypeOK, Outputs
<1>7. HandlerHasSender'
  BY DEF HandlerHasSender
<1>8. MembershipAgrees'
  BY <1>2, <1>4, <1>5 DEF IInv, MembershipAgrees
<1>9. NoStaleReferences'
  BY <1>2, <1>3, <1>4, <1>5 DEF IInv, NoStaleReferences
<1>10. SingleEntries'
  <2>1. \A d \in Fds : Len(chanlist'[d]) <= 1
    BY <1>1 DEF IInv, SingleEntries, remove_client
  <2> QED
    BY <2>1, <1>3, <1>4 DEF IInv, SingleEntries, remove_client
<1>11. RegistrationGates'
  <2>1. \A d \in Fds \ {c} : /\ nick'[d] = nick[d]
                            /\ user'[d] = user[d]
                            /\ registered'[d] = registered[d]
    BY DEF remove_client, IInv, TypeOK
  <2>2. Live \subseteq Fds
    BY <1>1, LenProperties, ElementOfSeq DEF Live, ToSet
  <2>3. \A ch \in ChanIds : Members(ch) \subseteq Live
    BY DEF IInv, NoStaleReferences
  <2> QED
    BY <2>1, <2>2, <2>3, <1>3, <1>4 DEF IInv, RegistrationGates
<1>12. RemoveEffect(c)
  BY <1>3, <1>4, <1>5 DEF RemoveEffect
<1> QED
  BY <1>6, <1>7, <1>8, <1>9, <1>10, <1>11, <1>12 DEF IInv

LEMMA HangUpStep ==
  ASSUME IInv, ConstAssumption, NEW c \in Fds, HangUp(c)
  PROVE  IInv' /\ RemoveEffect(c)
<1>1. todo = NoCall
  BY DEF HangUp, AtRest, IInv, HandlerHasSender
<1> QED
  BY <1>1, SilenceType, RemoveClientLists DEF HangUp

LEMMA QuitStep ==
  ASSUME IInv, ConstAssumption, cmd_quit
  PROVE  IInv' /\ RemoveEffect(Sender)
<1>1. todo = NoCall /\ listIndex \in DOMAIN clientList
  BY DEF cmd_quit, Dispatched, AtLine
<1>2. Sender \in Live /\ Sender \in Fds
  BY <1>1, SenderIsLive
<1>3. Msg("QUIT", Sender, {}) \in Messages
  BY <1>2, MsgType DEF Kinds
<1>4. queued' \in Outputs
  BY <1>2, <1>3, ToPeersType DEF cmd_quit, IInv
<1> QED
  BY <1>1, <1>2, <1>4, RemoveClientLists DEF cmd_quit

-----------------------------------------------------------------------------
(* NICK and USER.                                                          *)

(* Registration moves forward only, and leaves the lists alone.            *)
LEMMA IdentityStep ==
  ASSUME IInv, AtLine, UNCHANGED <<clientList, roomVars>>,
         UNCHANGED <<status, serving, listIndex, todo>>,
         nick' \in [Fds -> Nicks \cup {Empty}],
         user' \in [Fds -> BOOLEAN],
         registered' \in [Fds -> BOOLEAN],
         queued' \in Outputs,
         \A c \in Live : /\ registered'[c] <=> (nick'[c] # Empty /\ user'[c])
                         /\ registered[c] => registered'[c]
  PROVE  IInv'
<1> USE DEF roomVars
<1>1. TypeOK'
  BY DEF IInv, TypeOK, Outputs
<1>2. HandlerHasSender'
  BY DEF AtLine, HandlerHasSender
<1>3. MembershipAgrees' /\ NoStaleReferences' /\ SingleEntries'
  BY DEF IInv, MembershipAgrees, NoStaleReferences, SingleEntries, Members,
         Joined, Live, Channels
<1>4. RegistrationGates'
  <2>1. Live' = Live /\ \A ch \in ChanIds : Members(ch)' = Members(ch)
    BY DEF Live, Members
  <2>2. \A ch \in ChanIds : Members(ch) \subseteq Live
    BY DEF IInv, NoStaleReferences
  <2> QED
    BY <2>1, <2>2 DEF IInv, RegistrationGates
<1> QED
  BY <1>1, <1>2, <1>3, <1>4 DEF IInv

LEMMA NickStep ==
  ASSUME IInv, ConstAssumption, NEW newNick \in Words, cmd_nick(newNick)
  PROVE  IInv'
<1>1. AtLine /\ newNick \in Nicks /\ newNick # Empty
  BY DEF cmd_nick, Dispatched, ConstAssumption
<1>2. Sender \in Live /\ Sender \in Fds
  BY <1>1, SenderIsLive DEF AtLine
<1>3. queued' \in Outputs
  <2>1. Msg("NICK", Sender, {}) \in Messages
    BY <1>2, MsgType DEF Kinds
  <2>2. ToPeers(Sender, Msg("NICK", Sender, {})) \in Outputs
    BY <1>2, <2>1, ToPeersType DEF IInv
  <2>3. Numeric("MOTD", {}) \in Outputs
    BY NumericType DEF Kinds
  <2> QED
    BY <2>2, <2>3, SilenceType, BothType DEF cmd_nick
<1>4. /\ nick' \in [Fds -> Nicks \cup {Empty}]
      /\ registered' \in [Fds -> BOOLEAN]
      /\ user' = user
  BY <1>1, <1>2 DEF cmd_nick, IInv, TypeOK
<1>5. ASSUME NEW c \in Live
      PROVE  /\ registered'[c] <=> (nick'[c] # Empty /\ user'[c])
             /\ registered[c] => registered'[c]
  <2>1. c \in Fds
    BY LenProperties, ElementOfSeq DEF IInv, TypeOK, Live, ToSet
  <2>2. registered[c] <=> (nick[c] # Empty /\ user[c])
    BY DEF IInv, RegistrationGates
  <2>3. CASE c = Sender
    <3>1. nick'[c] = newNick /\ registered'[c] = (registered[c] \/ user[c])
      BY <2>1, <2>3 DEF cmd_nick, IInv, TypeOK
    <3> QED
      BY <1>1, <1>4, <2>2, <3>1
  <2>4. CASE c # Sender
    <3>1. nick'[c] = nick[c] /\ registered'[c] = registered[c]
      BY <2>1, <2>4 DEF cmd_nick, IInv, TypeOK
    <3> QED
      BY <1>4, <2>2, <3>1
  <2> QED
    BY <2>3, <2>4
<1>6. user' \in [Fds -> BOOLEAN]
  BY <1>4 DEF IInv, TypeOK
<1> QED
  BY <1>1, <1>3, <1>4, <1>5, <1>6, IdentityStep DEF cmd_nick

LEMMA UserStep ==
  ASSUME IInv, cmd_user
  PROVE  IInv'
<1>1. AtLine
  BY DEF cmd_user, Dispatched
<1>2. Sender \in Live /\ Sender \in Fds
  BY <1>1, SenderIsLive DEF AtLine
<1>3. queued' \in Outputs
  BY NumericType, SilenceType DEF cmd_user, Kinds
<1>4. /\ nick' = nick
      /\ user' \in [Fds -> BOOLEAN]
      /\ registered' \in [Fds -> BOOLEAN]
  BY DEF cmd_user, IInv, TypeOK
<1>5. ASSUME NEW c \in Live
      PROVE  /\ registered'[c] <=> (nick'[c] # Empty /\ user'[c])
             /\ registered[c] => registered'[c]
  <2>1. c \in Fds
    BY LenProperties, ElementOfSeq DEF IInv, TypeOK, Live, ToSet
  <2>2. registered[c] <=> (nick[c] # Empty /\ user[c])
    BY DEF IInv, RegistrationGates
  <2>3. CASE c = Sender
    <3>1. /\ user'[c] = TRUE
          /\ registered'[c] = (registered[c] \/ nick[c] # Empty)
      BY <2>1, <2>3 DEF cmd_user, IInv, TypeOK
    <3> QED
      BY <1>4, <2>2, <3>1
  <2>4. CASE c # Sender
    <3>1. user'[c] = user[c] /\ registered'[c] = registered[c]
      BY <2>1, <2>4 DEF cmd_user, IInv, TypeOK
    <3> QED
      BY <1>4, <2>2, <3>1
  <2> QED
    BY <2>3, <2>4
<1>6. nick' \in [Fds -> Nicks \cup {Empty}]
  BY <1>4 DEF IInv, TypeOK
<1> QED
  BY <1>1, <1>3, <1>4, <1>5, <1>6, IdentityStep DEF cmd_user

-----------------------------------------------------------------------------
(* JOIN and PART.                                                          *)

(* What is left to show of a step that changes the channels only.          *)
LEMMA MoveStep ==
  ASSUME IInv, UNCHANGED <<status, clientVars, serving, listIndex>>,
         todo' \in Calls, todo' # NoCall => todo # NoCall,
         queued' \in Outputs,
         channelList' \in Seq(ChanIds), IsInjective(channelList'),
         channame' \in [ChanIds -> Words],
         userlist' \in [ChanIds -> Seq(Fds)],
         \A ch \in ChanIds : IsInjective(userlist'[ch]),
         chanlist' \in [Fds -> Seq(ChanIds)],
         \A c \in Fds : Len(chanlist'[c]) <= 1,
         MembershipAgrees',
         \A c \in Fds : Joined(c)' \subseteq Channels',
         \A ch \in ChanIds : \A c \in Members(ch)' : c \in Live /\ registered[c]
  PROVE  IInv'
<1> USE DEF clientVars
<1>1. TypeOK'
  BY DEF IInv, TypeOK, Outputs
<1>2. HandlerHasSender'
  BY DEF IInv, HandlerHasSender, Sender
<1>3. Live' = Live
  BY DEF Live
<1>4. NoStaleReferences'
  BY <1>3 DEF NoStaleReferences
<1>5. SingleEntries'
  BY DEF IInv, SingleEntries
<1>6. RegistrationGates'
  BY <1>3 DEF IInv, RegistrationGates
<1> QED
  BY <1>1, <1>2, <1>4, <1>5, <1>6 DEF IInv

LEMMA KeptProperties ==
  ASSUME NEW list \in Seq(ChanIds), IsInjective(list), NEW users,
         NEW ch \in ChanIds
  PROVE  /\ Kept(list, users, ch) \in Seq(ChanIds)
         /\ IsInjective(Kept(list, users, ch))
         /\ ToSet(Kept(list, users, ch)) =
              IF users[ch] = <<>> THEN ToSet(list) \ {ch} ELSE ToSet(list)
BY RemoveProperties DEF Kept

LEMMA FreedType ==
  ASSUME ConstAssumption, NEW names \in [ChanIds -> Words], NEW users, NEW ch
  PROVE  Freed(names, users, ch) \in [ChanIds -> Words]
BY DEF Freed, ConstAssumption

(* A list of at most one channel.                                          *)
LEMMA ShortList ==
  ASSUME NEW S, NEW s \in Seq(S), Len(s) <= 1
  PROVE  /\ IsInjective(s)
         /\ s # <<>> => ToSet(s) = {Head(s)} /\ Head(s) \in S /\ Len(s) = 1
<1>1. Len(s) \in Nat /\ DOMAIN s = 1 .. Len(s)
  BY LenProperties
<1>2. CASE s = <<>>
  BY <1>2 DEF IsInjective
<1>3. CASE s # <<>>
  <2>1. Len(s) = 1 /\ DOMAIN s = {1}
    BY <1>1, <1>3, EmptySeq
  <2>2. Head(s) = s[1] /\ Head(s) \in S
    BY <1>3, HeadTailProperties
  <2> QED
    BY <2>1, <2>2 DEF IsInjective, ToSet
<1> QED
  BY <1>2, <1>3

(* A user added to a userlist, or taken out of one.                        *)
LEMMA AddedUser ==
  ASSUME IInv, NEW c \in Fds, NEW ch \in ChanIds, c \notin Members(ch)
  PROVE  LET users == [userlist EXCEPT ![ch] = Append(@, c)]
         IN  /\ users \in [ChanIds -> Seq(Fds)]
             /\ \A x \in ChanIds : IsInjective(users[x])
             /\ \A x \in ChanIds : ToSet(users[x]) =
                  IF x = ch THEN Members(x) \cup {c} ELSE Members(x)
<1> DEFINE users == [userlist EXCEPT ![ch] = Append(@, c)]
<1>1. userlist \in [ChanIds -> Seq(Fds)]
      /\ \A x \in ChanIds : IsInjective(userlist[x])
  BY DEF IInv, TypeOK, SingleEntries
<1>2. /\ Append(userlist[ch], c) \in Seq(Fds)
      /\ IsInjective(Append(userlist[ch], c))
      /\ ToSet(Append(userlist[ch], c)) = Members(ch) \cup {c}
  BY <1>1, AddProperties DEF Members
<1>3. users[ch] = Append(userlist[ch], c)
      /\ \A x \in ChanIds \ {ch} : users[x] = userlist[x]
  BY <1>1
<1>4. users \in [ChanIds -> Seq(Fds)]
  BY <1>1, <1>2
<1> HIDE DEF users
<1>5. \A x \in ChanIds : /\ IsInjective(users[x])
                         /\ ToSet(users[x]) = IF x = ch THEN Members(x) \cup {c}
                                               ELSE Members(x)
  <2> TAKE x \in ChanIds
  <2>1. CASE x = ch
    BY <2>1, <1>2, <1>3
  <2>2. CASE x # ch
    BY <2>2, <1>1, <1>3 DEF Members
  <2> QED
    BY <2>1, <2>2
<1> QED
  BY <1>4, <1>5 DEF users

LEMMA RemovedUser ==
  ASSUME NEW users \in [ChanIds -> Seq(Fds)], NEW ch \in ChanIds,
         IsInjective(users[ch]), NEW c
  PROVE  /\ Without(users, c, ch) \in [ChanIds -> Seq(Fds)]
         /\ IsInjective(Without(users, c, ch)[ch])
         /\ \A z : z \in ToSet(Without(users, c, ch)[ch])
                     <=> z \in ToSet(users[ch]) /\ z # c
         /\ \A x \in ChanIds \ {ch} : Without(users, c, ch)[x] = users[x]
<1>1. /\ arraylist_remove(users[ch], c) \in Seq(Fds)
      /\ IsInjective(arraylist_remove(users[ch], c))
      /\ ToSet(arraylist_remove(users[ch], c)) = ToSet(users[ch]) \ {c}
  BY RemoveProperties
<1>2. /\ Without(users, c, ch)[ch] = arraylist_remove(users[ch], c)
      /\ \A x \in ChanIds \ {ch} : Without(users, c, ch)[x] = users[x]
      /\ Without(users, c, ch) \in [ChanIds -> Seq(Fds)]
  BY <1>1 DEF Without
<1> QED
  BY <1>1, <1>2

(* What JoinExisting and JoinNew give to Enter.                            *)
EntryOK(ch, chanIndex, list, names) ==
  /\ ch \in ChanIds /\ ch \notin Joined(Sender)
  /\ list \in Seq(ChanIds) /\ IsInjective(list)
  /\ ToSet(list) = Channels \cup {ch}
  /\ chanIndex \in DOMAIN list
  /\ names \in [ChanIds -> Words]
  /\ Sender \in Live /\ Sender \in Fds /\ registered[Sender]

(* What entering ch does to the sets: a client that is in one channel at   *)
(* most leaves that one, and with it the channel goes if it was alone.     *)
EnterEffect(ch) ==
  /\ \A x \in ChanIds : Members(x)' = IF x = ch THEN Members(x) \cup {Sender}
                                      ELSE Members(x) \ {Sender}
  /\ Channels' = (Channels \cup {ch}) \ {x \in ChanIds : Members(x) = {Sender}}
  /\ \A c \in Fds : Joined(c)' = IF c = Sender THEN {ch} ELSE Joined(c)

LEMMA EnterFirstStep ==
  ASSUME IInv, NEW ch, NEW chanIndex, NEW list, NEW names,
         EntryOK(ch, chanIndex, list, names),
         EnterFirst(ch, chanIndex, list, names),
         UNCHANGED <<status, clientVars, serving, listIndex, todo>>
  PROVE  IInv' /\ EnterEffect(ch)
<1> USE DEF EntryOK
<1> DEFINE users == [userlist EXCEPT ![ch] = Append(@, Sender)]
<1>1. Sender \notin Members(ch)
  BY DEF IInv, MembershipAgrees
<1>2. /\ users \in [ChanIds -> Seq(Fds)]
      /\ \A x \in ChanIds : IsInjective(users[x])
      /\ \A x \in ChanIds : ToSet(users[x]) =
           IF x = ch THEN Members(x) \cup {Sender} ELSE Members(x)
  BY <1>1, AddedUser
<1>3. userlist' = users
  BY DEF EnterFirst
<1>4. queued' \in Outputs
  <2>1. list[chanIndex] \in ChanIds
    BY LenProperties, ElementOfSeq
  <2>2. ToEach(users[list[chanIndex]], Msg("JOIN", Sender, {ch})) \in Outputs
    <3>1. Msg("JOIN", Sender, {ch}) \in Messages
      BY MsgType DEF Kinds
    <3>2. users[list[chanIndex]] \in Seq(Fds)
      BY <1>2, <2>1
    <3> QED
      BY <3>1, <3>2, ToEachType
  <2>3. ToSet(users[ch]) \in SUBSET (Fds \cup ChanIds)
    <3>1. users[ch] \in Seq(Fds)
      BY <1>2
    <3> HIDE DEF users
    <3> QED
      BY <3>1, LenProperties, ElementOfSeq DEF ToSet
  <2>4. /\ Numeric("RPL_NAMREPLY", ToSet(users[ch])) \in Outputs
        /\ Numeric("RPL_ENDOFNAMES", {ch}) \in Outputs
    BY <2>3, NumericType DEF Kinds
  <2>5. queued' = Both(Both(Numeric("RPL_NAMREPLY", ToSet(users[ch])),
                            Numeric("RPL_ENDOFNAMES", {ch})),
                       ToEach(users[list[chanIndex]],
                              Msg("JOIN", Sender, {ch})))
    BY DEF EnterFirst
  <2> HIDE DEF users
  <2> QED
    BY <2>2, <2>4, <2>5, BothType
<1> HIDE DEF users
<1>5. /\ channelList' = list /\ channame' = names
      /\ Channels' = Channels \cup {ch}
  BY DEF EnterFirst, Channels
<1>6. /\ chanlist' \in [Fds -> Seq(ChanIds)]
      /\ \A c \in Fds : Len(chanlist'[c]) <= 1
      /\ \A c \in Fds : Joined(c)' = IF c = Sender THEN {ch} ELSE Joined(c)
      /\ Joined(Sender) = {}
  <2>1. /\ <<ch>> \in Seq(ChanIds) /\ Len(<<ch>>) = 1
        /\ ToSet(<<ch>>) = {ch} /\ ToSet(<<>>) = {}
    BY DEF ToSet
  <2>2. chanlist' = [chanlist EXCEPT ![Sender] = <<ch>>]
        /\ chanlist[Sender] = <<>>
    BY DEF EnterFirst
  <2>3. /\ chanlist \in [Fds -> Seq(ChanIds)]
        /\ \A c \in Fds : Len(chanlist[c]) <= 1
    BY DEF IInv, TypeOK, SingleEntries
  <2>4. /\ chanlist'[Sender] = <<ch>>
        /\ \A c \in Fds \ {Sender} : chanlist'[c] = chanlist[c]
    BY <2>2, <2>3
  <2>5. /\ Joined(Sender) = {}
        /\ \A c \in Fds : Joined(c)' = IF c = Sender THEN {ch} ELSE Joined(c)
    <3>1. ToSet(chanlist'[Sender]) = {ch} /\ ToSet(chanlist[Sender]) = {}
      BY <2>1, <2>2, <2>4
    <3>2. \A c \in Fds \ {Sender} : ToSet(chanlist'[c]) = ToSet(chanlist[c])
      BY <2>4
    <3> QED
      BY <3>1, <3>2 DEF Joined
  <2>6. chanlist' \in [Fds -> Seq(ChanIds)]
    BY <2>1, <2>2, <2>3
  <2>7. ASSUME NEW c \in Fds PROVE Len(chanlist'[c]) <= 1
    <3>1. CASE c = Sender
      <4>1. Len(chanlist'[c]) = 1
        BY <2>1, <2>4, <3>1
      <4> QED
        BY <4>1
    <3>2. CASE c # Sender
      BY <2>3, <2>4, <3>2
    <3> QED
      BY <3>1, <3>2
  <2> QED
    BY <2>5, <2>6, <2>7
<1>7. \A x \in ChanIds : Members(x)' =
        IF x = ch THEN Members(x) \cup {Sender} ELSE Members(x)
  BY <1>2, <1>3 DEF Members
<1>8. MembershipAgrees'
  BY <1>6, <1>7 DEF IInv, MembershipAgrees
<1>9. \A c \in Fds : Joined(c)' \subseteq Channels'
  BY <1>5, <1>6 DEF IInv, NoStaleReferences
<1>10. \A x \in ChanIds : \A c \in Members(x)' : c \in Live /\ registered[c]
  BY <1>7 DEF IInv, NoStaleReferences, RegistrationGates
<1>11. todo' \in Calls /\ todo' = todo
  BY DEF IInv, TypeOK
<1>12. \A x \in ChanIds : Sender \notin Members(x)
  BY <1>6 DEF IInv, MembershipAgrees
<1>13. EnterEffect(ch)
  BY <1>5, <1>6, <1>7, <1>12 DEF EnterEffect
<1>14. IInv'
  BY <1>2, <1>3, <1>4, <1>5, <1>6, <1>8, <1>9, <1>10, <1>11, MoveStep
<1> QED
  BY <1>13, <1>14

LEMMA EnterNextStep ==
  ASSUME IInv, ConstAssumption, NEW ch, NEW chanIndex, NEW list, NEW names,
         EntryOK(ch, chanIndex, list, names),
         EnterNext(ch, chanIndex, list, names),
         UNCHANGED <<status, clientVars, serving, listIndex, todo>>
  PROVE  IInv' /\ EnterEffect(ch)
<1> USE DEF EntryOK
<1> DEFINE old == Head(chanlist[Sender])
           entered == [userlist EXCEPT ![ch] = Append(@, Sender)]
           users == Without(entered, Sender, old)
           announced == IF users[old] = <<>>
                        THEN SlotAfterRemove(list, old, chanIndex)
                        ELSE list[chanIndex]
<1>1. Sender \notin Members(ch)
  BY DEF IInv, MembershipAgrees
<1>2. /\ chanlist \in [Fds -> Seq(ChanIds)]
      /\ \A c \in Fds : Len(chanlist[c]) <= 1
      /\ chanlist[Sender] # <<>>
  BY DEF IInv, TypeOK, SingleEntries, EnterNext
<1>3. /\ old \in ChanIds /\ Joined(Sender) = {old} /\ ch # old
      /\ IsInjective(chanlist[Sender]) /\ Len(chanlist[Sender]) = 1
  BY <1>2, ShortList DEF Joined
<1>4. /\ entered \in [ChanIds -> Seq(Fds)]
      /\ \A x \in ChanIds : IsInjective(entered[x])
      /\ \A x \in ChanIds : ToSet(entered[x]) =
           IF x = ch THEN Members(x) \cup {Sender} ELSE Members(x)
  BY <1>1, AddedUser
<1>5. /\ userlist' = users
      /\ chanlist' = [chanlist EXCEPT
                        ![Sender] = Append(arraylist_remove(@, old), ch)]
      /\ channelList' = Kept(list, users, old)
      /\ channame' = Freed(names, users, old)
      /\ queued' = Both(Both(ToEach(entered[old], Msg("QUIT", Sender, {})),
                             Both(Numeric("RPL_NAMREPLY", ToSet(users[ch])),
                                  Numeric("RPL_ENDOFNAMES", {ch}))),
                        ToEach(users[announced], Msg("JOIN", Sender, {ch})))
  BY DEF EnterNext
<1> HIDE DEF old, entered
<1>6. /\ users \in [ChanIds -> Seq(Fds)]
      /\ \A x \in ChanIds : IsInjective(users[x])
      /\ \A x \in ChanIds : ToSet(users[x]) =
           IF x = ch THEN Members(x) \cup {Sender}
           ELSE IF x = old THEN Members(x) \ {Sender} ELSE Members(x)
  <2>1. entered[old] \in Seq(Fds) /\ IsInjective(entered[old])
    BY <1>3, <1>4
  <2>2. /\ users \in [ChanIds -> Seq(Fds)]
        /\ IsInjective(users[old])
        /\ ToSet(users[old]) = ToSet(entered[old]) \ {Sender}
        /\ \A x \in ChanIds \ {old} : users[x] = entered[x]
    <3>1. /\ users \in [ChanIds -> Seq(Fds)]
          /\ IsInjective(users[old])
          /\ \A z : z \in ToSet(users[old])
                      <=> z \in ToSet(entered[old]) /\ z # Sender
          /\ \A x \in ChanIds \ {old} : users[x] = entered[x]
      BY <2>1, <1>3, <1>4, RemovedUser
    <3> HIDE DEF users
    <3> QED
      BY <3>1
  <2> HIDE DEF users
  <2>3. ASSUME NEW x \in ChanIds
        PROVE  /\ IsInjective(users[x])
               /\ ToSet(users[x]) =
                    IF x = ch THEN Members(x) \cup {Sender}
                    ELSE IF x = old THEN Members(x) \ {Sender} ELSE Members(x)
    <3>1. CASE x = old
      BY <3>1, <2>2, <1>3, <1>4
    <3>2. CASE x # old
      BY <3>2, <2>2, <1>3, <1>4
    <3> QED
      BY <3>1, <3>2
  <2> QED
    BY <2>2, <2>3
<1>7. announced \in ChanIds
  <2>1. Len(list) \in Nat /\ DOMAIN list = 1 .. Len(list)
        /\ \A i \in 1 .. Len(list) : list[i] \in ChanIds
    BY LenProperties, ElementOfSeq
  <2>2. SlotAfterRemove(list, old, chanIndex) \in ChanIds
    BY <2>1 DEF SlotAfterRemove
  <2> QED
    BY <2>1, <2>2
<1> HIDE DEF users, announced
<1>8. queued' \in Outputs
  <2>1. /\ Msg("JOIN", Sender, {ch}) \in Messages
        /\ Msg("QUIT", Sender, {}) \in Messages
    BY MsgType DEF Kinds
  <2>2. /\ ToEach(users[announced], Msg("JOIN", Sender, {ch})) \in Outputs
        /\ ToEach(entered[old], Msg("QUIT", Sender, {})) \in Outputs
    <3>1. users[announced] \in Seq(Fds) /\ entered[old] \in Seq(Fds)
      BY <1>3, <1>4, <1>6, <1>7
    <3> QED
      BY <2>1, <3>1, ToEachType
  <2>3. ToSet(users[ch]) \in SUBSET (Fds \cup ChanIds)
    <3>1. users[ch] \in Seq(Fds)
      BY <1>6
    <3> QED
      BY <3>1, LenProperties, ElementOfSeq DEF ToSet
  <2>4. /\ Numeric("RPL_NAMREPLY", ToSet(users[ch])) \in Outputs
        /\ Numeric("RPL_ENDOFNAMES", {ch}) \in Outputs
    BY <2>3, NumericType DEF Kinds
  <2> QED
    BY <1>5, <2>2, <2>4, BothType
<1>9. /\ channelList' \in Seq(ChanIds) /\ IsInjective(channelList')
      /\ Channels' = (Channels \cup {ch}) \
                       (IF users[old] = <<>> THEN {old} ELSE {})
  BY <1>3, <1>5, KeptProperties DEF Channels
<1>10. channame' \in [ChanIds -> Words]
  BY <1>5, FreedType
<1>11. /\ chanlist' \in [Fds -> Seq(ChanIds)]
       /\ \A c \in Fds : Len(chanlist'[c]) <= 1
       /\ \A c \in Fds : Joined(c)' = IF c = Sender THEN {ch} ELSE Joined(c)
  <2> DEFINE rest == arraylist_remove(chanlist[Sender], old)
  <2>1. /\ rest \in Seq(ChanIds) /\ IsInjective(rest)
        /\ ToSet(rest) = {} /\ Len(rest) = 0
    <3>1. chanlist[Sender] \in Seq(ChanIds) /\ ToSet(chanlist[Sender]) = {old}
      BY <1>2, <1>3 DEF Joined
    <3> QED
      BY <1>3, <3>1, RemoveProperties
  <2> HIDE DEF rest
  <2>2. /\ Append(rest, ch) \in Seq(ChanIds)
        /\ ToSet(Append(rest, ch)) = {ch}
        /\ Len(Append(rest, ch)) = 1
    <3>1. /\ Append(rest, ch) \in Seq(ChanIds)
          /\ ToSet(Append(rest, ch)) = ToSet(rest) \cup {ch}
          /\ Len(Append(rest, ch)) = Len(rest) + 1
      <4> HIDE DEF EntryOK
      <4>1. ch \in ChanIds
        BY DEF EntryOK
      <4>2. rest \in Seq(ChanIds) /\ IsInjective(rest)
        BY <2>1
      <4> QED
        BY <4>1, <4>2, AddProperties
    <3> QED
      BY <3>1, <2>1
  <2>3. chanlist' = [chanlist EXCEPT ![Sender] = Append(rest, ch)]
    BY <1>5 DEF rest
  <2>4. /\ chanlist'[Sender] = Append(rest, ch)
        /\ \A c \in Fds \ {Sender} : chanlist'[c] = chanlist[c]
    BY <1>2, <2>3
  <2>5. /\ ToSet(chanlist'[Sender]) = {ch}
        /\ \A c \in Fds \ {Sender} : ToSet(chanlist'[c]) = ToSet(chanlist[c])
    BY <2>2, <2>4
  <2>6. \A c \in Fds : Joined(c)' = IF c = Sender THEN {ch} ELSE Joined(c)
    BY <2>5 DEF Joined
  <2>7. chanlist' \in [Fds -> Seq(ChanIds)]
    BY <1>2, <2>2, <2>3
  <2>8. \A c \in Fds : Len(chanlist'[c]) <= 1
    BY <1>2, <2>2, <2>4
  <2> QED
    BY <2>6, <2>7, <2>8
<1>12. \A x \in ChanIds : Members(x)' =
         IF x = ch THEN Members(x) \cup {Sender}
         ELSE IF x = old THEN Members(x) \ {Sender} ELSE Members(x)
  BY <1>5, <1>6 DEF Members
<1>13. MembershipAgrees'
  <2>1. \A c \in Fds, x \in ChanIds : c \in Members(x) <=> x \in Joined(c)
    BY DEF IInv, MembershipAgrees
  <2> SUFFICES ASSUME NEW c \in Fds, NEW x \in ChanIds
               PROVE  c \in Members(x)' <=> x \in Joined(c)'
    BY DEF MembershipAgrees
  <2>2. CASE c = Sender
    <3>1. Joined(c)' = {ch} /\ Joined(c) = {old}
      BY <2>2, <1>3, <1>11
    <3>2. c \in Members(x)' <=> x = ch
      BY <2>1, <2>2, <3>1, <1>12
    <3> QED
      BY <3>1, <3>2
  <2>3. CASE c # Sender
    <3>1. Joined(c)' = Joined(c)
      BY <2>3, <1>11
    <3>2. c \in Members(x)' <=> c \in Members(x)
      BY <2>3, <1>12
    <3> QED
      BY <2>1, <3>1, <3>2
  <2> QED
    BY <2>2, <2>3
<1>14. \A c \in Fds : Joined(c)' \subseteq Channels'
  <2> TAKE c \in Fds
  <2>1. CASE c = Sender
    BY <2>1, <1>3, <1>9, <1>11
  <2>2. CASE c # Sender
    <3>1. Joined(c) \subseteq Channels
      BY DEF IInv, NoStaleReferences
    <3>2. ASSUME users[old] = <<>> PROVE old \notin Joined(c)
      <4>1. Members(old) \ {Sender} = {}
        BY <1>3, <1>6, <3>2 DEF ToSet
      <4> QED
        BY <4>1, <2>2, <1>3 DEF IInv, MembershipAgrees
    <3> QED
      BY <2>2, <3>1, <3>2, <1>9, <1>11
  <2> QED
    BY <2>1, <2>2
<1>15. \A x \in ChanIds : \A c \in Members(x)' : c \in Live /\ registered[c]
  BY <1>12 DEF IInv, NoStaleReferences, RegistrationGates
<1>16. todo' \in Calls /\ todo' = todo
  BY DEF IInv, TypeOK
<1>17. /\ userlist' \in [ChanIds -> Seq(Fds)]
       /\ \A x \in ChanIds : IsInjective(userlist'[x])
  BY <1>5, <1>6
<1>18. EnterEffect(ch)
  <2>1. \A x \in ChanIds : Sender \in Members(x) <=> x = old
    BY <1>3 DEF IInv, MembershipAgrees
  <2>2. users[old] = <<>> <=> Members(old) = {Sender}
    <3>1. users[old] \in Seq(Fds) /\ ToSet(users[old]) = Members(old) \ {Sender}
      BY <1>3, <1>6
    <3>2. users[old] = <<>> <=> Members(old) \ {Sender} = {}
      BY <3>1, EmptyIffNoEntries
    <3> QED
      BY <2>1, <3>2, <1>3
  <2>3. {x \in ChanIds : Members(x) = {Sender}} =
          IF users[old] = <<>> THEN {old} ELSE {}
    BY <2>1, <2>2, <1>3
  <2>4. \A x \in ChanIds : Members(x)' = IF x = ch THEN Members(x) \cup {Sender}
                                        ELSE Members(x) \ {Sender}
    BY <2>1, <1>12
  <2> QED
    BY <2>3, <2>4, <1>9, <1>11 DEF EnterEffect
<1>19. IInv'
  BY <1>8, <1>9, <1>10, <1>11, <1>13, <1>14, <1>15, <1>16, <1>17, MoveStep
<1> QED
  BY <1>18, <1>19

(* The channels a name may be looked up in.                                *)
LEMMA ChannelAt ==
  ASSUME IInv, NEW i \in DOMAIN channelList
  PROVE  channelList[i] \in ChanIds /\ channelList[i] \in Channels
<1>1. channelList \in Seq(ChanIds)
  BY DEF IInv, TypeOK
<1> QED
  BY <1>1, LenProperties, ElementOfSeq DEF Channels, ToSet

(* JOIN enters a channel, found or new, out of consistent lists.           *)
Entered(ch, chanIndex, list, names) ==
  EntryOK(ch, chanIndex, list, names) /\ Enter(ch, chanIndex, list, names)

LEMMA JoinExistingEnters ==
  ASSUME IInv, ConstAssumption, NEW list \in Params, JoinExisting(list)
  PROVE  \E ch, chanIndex : Entered(ch, chanIndex, channelList, channame)
<1>1. PICK w \in Words, i \in DOMAIN channelList :
        /\ JoinReaches(list, w, i)
        /\ channelList[i] \notin Joined(Sender)
        /\ Enter(channelList[i], i, channelList, channame)
  BY DEF JoinExisting
<1>2. AtLine /\ registered[Sender]
  BY <1>1 DEF JoinReaches, Dispatched, needreg
<1>3. Sender \in Live /\ Sender \in Fds
  BY <1>2, SenderIsLive DEF AtLine
<1>4. /\ channelList \in Seq(ChanIds) /\ IsInjective(channelList)
      /\ channame \in [ChanIds -> Words]
  BY DEF IInv, TypeOK, SingleEntries
<1>5. channelList[i] \in ChanIds /\ channelList[i] \in Channels
  BY ChannelAt
<1>6. EntryOK(channelList[i], i, channelList, channame)
  BY <1>1, <1>2, <1>3, <1>4, <1>5 DEF EntryOK, Channels
<1> QED
  BY <1>1, <1>6 DEF Entered

LEMMA JoinNewEnters ==
  ASSUME IInv, ConstAssumption, NEW list \in Params, NEW ch \in ChanIds,
         JoinNew(list, ch)
  PROVE  \E w \in Channames : \E name \in StoredNames(w) :
           /\ findChannelIndexByChanname(w) = 0 /\ ch \notin Channels
           /\ Entered(ch, Len(channelList) + 1, Append(channelList, ch),
                      [channame EXCEPT ![ch] = name])
<1> DEFINE longer == Append(channelList, ch)
           last == Len(channelList) + 1
<1>1. PICK w \in Channames :
        /\ JoinReaches(list, w, 0)
        /\ ch \notin Channels
        /\ \E name \in StoredNames(w) :
             Enter(ch, last, longer, [channame EXCEPT ![ch] = name])
  BY DEF JoinNew
<1>2. PICK name \in StoredNames(w) :
        Enter(ch, last, longer, [channame EXCEPT ![ch] = name])
  BY <1>1
<1>3. AtLine /\ registered[Sender]
  BY <1>1 DEF JoinReaches, Dispatched, needreg
<1>4. Sender \in Live /\ Sender \in Fds
  BY <1>3, SenderIsLive DEF AtLine
<1>5. /\ longer \in Seq(ChanIds) /\ IsInjective(longer)
      /\ ToSet(longer) = Channels \cup {ch}
      /\ last \in DOMAIN longer
  <2>1. channelList \in Seq(ChanIds) /\ IsInjective(channelList)
        /\ ch \notin ToSet(channelList)
    BY <1>1 DEF IInv, TypeOK, SingleEntries, Channels
  <2>2. /\ longer \in Seq(ChanIds) /\ IsInjective(longer)
        /\ ToSet(longer) = ToSet(channelList) \cup {ch}
        /\ Len(longer) = Len(channelList) + 1
    BY <2>1, AddProperties
  <2>3. Len(channelList) \in Nat /\ DOMAIN longer = 1 .. Len(longer)
    BY <2>1, <2>2, LenProperties
  <2> QED
    BY <2>2, <2>3 DEF Channels
<1>6. [channame EXCEPT ![ch] = name] \in [ChanIds -> Words]
  <2>1. name \in Words
    BY DEF StoredNames, ConstAssumption
  <2> QED
    BY <2>1 DEF IInv, TypeOK
<1>7. ch \notin Joined(Sender)
  BY <1>1, <1>4 DEF IInv, NoStaleReferences
<1> HIDE DEF longer, last
<1>8. EntryOK(ch, last, longer, [channame EXCEPT ![ch] = name])
  BY <1>3, <1>4, <1>5, <1>6, <1>7 DEF EntryOK
<1>9. findChannelIndexByChanname(w) = 0
  BY <1>1 DEF JoinReaches
<1> QED
  BY <1>1, <1>2, <1>8, <1>9 DEF Entered, longer, last

LEMMA EnteredStep ==
  ASSUME IInv, ConstAssumption, NEW ch, NEW chanIndex, NEW list, NEW names,
         Entered(ch, chanIndex, list, names)
  PROVE  IInv' /\ EnterEffect(ch)
BY EnterFirstStep, EnterNextStep DEF Entered, Enter

(* What part_client_given_channel does to the sets; a channel that a hang- *)
(* up left empty goes as well.                                             *)
PartEffect(ch) ==
  /\ \A x \in ChanIds : Members(x)' = IF x = ch THEN Members(x) \ {Sender}
                                      ELSE Members(x)
  /\ Channels' = IF Members(ch) \subseteq {Sender} THEN Channels \ {ch}
                 ELSE Channels
  /\ \A c \in Fds : Joined(c)' = IF c = Sender THEN Joined(c) \ {ch}
                                 ELSE Joined(c)

LEMMA PartStep ==
  ASSUME IInv, ConstAssumption, NEW ch \in ChanIds, part_client(ch)
  PROVE  IInv' /\ PartEffect(ch)
<1> DEFINE users == Without(userlist, Sender, ch)
           left == arraylist_remove(chanlist[Sender], ch)
<1>1. /\ InHandler /\ NextTarget
      /\ UNCHANGED <<status, clientVars, serving, listIndex>>
      /\ userlist' = users
      /\ chanlist' = [chanlist EXCEPT ![Sender] = left]
      /\ channelList' = Kept(channelList, users, ch)
      /\ channame' = Freed(channame, users, ch)
  BY DEF part_client, AtTarget
<1>2. registered[Sender] /\ Sender \in Live /\ Sender \in Fds
  BY <1>1, SenderIsLive DEF InHandler, IInv, HandlerHasSender
<1>3. /\ userlist \in [ChanIds -> Seq(Fds)]
      /\ chanlist \in [Fds -> Seq(ChanIds)]
      /\ channelList \in Seq(ChanIds) /\ IsInjective(channelList)
      /\ channame \in [ChanIds -> Words]
      /\ \A x \in ChanIds : IsInjective(userlist[x])
      /\ \A c \in Fds : Len(chanlist[c]) <= 1
  BY DEF IInv, TypeOK, SingleEntries
<1>4. /\ users \in [ChanIds -> Seq(Fds)]
      /\ IsInjective(users[ch])
      /\ \A z : z \in ToSet(users[ch]) <=> z \in Members(ch) /\ z # Sender
      /\ \A x \in ChanIds \ {ch} : users[x] = userlist[x]
  <2>1. IsInjective(userlist[ch])
    BY <1>3
  <2> QED
    BY <2>1, <1>3, RemovedUser DEF Members
<1>5. /\ left \in Seq(ChanIds)
      /\ \A z : z \in ToSet(left) <=> z \in Joined(Sender) /\ z # ch
      /\ Len(left) <= 1
  <2>1. /\ chanlist[Sender] \in Seq(ChanIds) /\ Len(chanlist[Sender]) <= 1
        /\ Len(chanlist[Sender]) \in Nat
    BY <1>2, <1>3, LenProperties
  <2>2. IsInjective(chanlist[Sender])
    BY <2>1, ShortList
  <2>3. /\ left \in Seq(ChanIds)
        /\ ToSet(left) = ToSet(chanlist[Sender]) \ {ch}
        /\ Len(left) = IF ch \in ToSet(chanlist[Sender])
                       THEN Len(chanlist[Sender]) - 1
                       ELSE Len(chanlist[Sender])
    BY <2>1, <2>2, RemoveProperties
  <2> HIDE DEF left
  <2>4. Len(left) <= 1
    BY <2>1, <2>3
  <2> QED
    BY <2>3, <2>4 DEF Joined
<1> HIDE DEF users, left
<1>6. queued' \in Outputs
  <2>1. /\ userlist[ch] \in Seq(Fds)
        /\ Msg("QUIT", Sender, {}) \in Messages
    BY <1>2, <1>3, MsgType DEF Kinds
  <2>2. /\ ToEach(userlist[ch], Msg("QUIT", Sender, {})) \in Outputs
        /\ Numeric("ERR_NOTONCHANNEL", {ch}) \in Outputs
    BY <2>1, ToEachType, NumericType DEF Kinds
  <2> QED
    BY <2>2, SilenceType, BothType DEF part_client
<1>7. /\ channelList' \in Seq(ChanIds) /\ IsInjective(channelList')
      /\ Channels' = IF users[ch] = <<>> THEN Channels \ {ch} ELSE Channels
  BY <1>1, <1>3, KeptProperties DEF Channels
<1>8. channame' \in [ChanIds -> Words]
  BY <1>1, <1>3, FreedType
<1>9. \A x \in ChanIds : \A z :
        z \in Members(x)' <=> z \in Members(x) /\ ~(x = ch /\ z = Sender)
  BY <1>1, <1>4 DEF Members
<1>10. \A c \in Fds : \A z :
         z \in Joined(c)' <=> z \in Joined(c) /\ ~(z = ch /\ c = Sender)
  BY <1>1, <1>2, <1>3, <1>5 DEF Joined
<1>11. MembershipAgrees'
  BY <1>9, <1>10 DEF IInv, MembershipAgrees
<1>12. \A c \in Fds : Joined(c)' \subseteq Channels'
  <2> SUFFICES ASSUME NEW c \in Fds, NEW z \in Joined(c)'
               PROVE  z \in Channels'
    OBVIOUS
  <2>1. z \in Channels
    BY <1>10 DEF IInv, NoStaleReferences
  <2>2. ASSUME users[ch] = <<>> PROVE z # ch
    <3>1. \A d : d \in Members(ch) => d = Sender
      BY <1>4, <2>2 DEF ToSet
    <3> QED
      BY <3>1, <1>10 DEF IInv, MembershipAgrees
  <2> QED
    BY <2>1, <2>2, <1>7
<1>13. \A x \in ChanIds : \A c \in Members(x)' : c \in Live /\ registered[c]
  BY <1>9 DEF IInv, NoStaleReferences, RegistrationGates
<1>14. todo' \in Calls /\ todo # NoCall
  BY <1>1, NextTargetType DEF InHandler
<1>15. /\ userlist' \in [ChanIds -> Seq(Fds)]
       /\ \A x \in ChanIds : IsInjective(userlist'[x])
  BY <1>1, <1>3, <1>4
<1>16. /\ chanlist' \in [Fds -> Seq(ChanIds)]
       /\ \A c \in Fds : Len(chanlist'[c]) <= 1
  BY <1>1, <1>2, <1>3, <1>5
<1>17. PartEffect(ch)
  <2>1. users[ch] = <<>> <=> Members(ch) \subseteq {Sender}
    <3>1. users[ch] \in Seq(Fds)
      BY <1>4
    <3>2. users[ch] = <<>> <=> ToSet(users[ch]) = {}
      BY <3>1, EmptyIffNoEntries
    <3> QED
      BY <3>2, <1>4
  <2> QED
    BY <2>1, <1>7, <1>9, <1>10 DEF PartEffect
<1>18. IInv'
  BY <1>1, <1>6, <1>7, <1>8, <1>11, <1>12, <1>13, <1>14, <1>15, <1>16,
     MoveStep
<1> QED
  BY <1>17, <1>18

-----------------------------------------------------------------------------
(* The other handlers.                                                     *)

LEMMA DeliverStep ==
  ASSUME IInv, InHandler, NEW messages \in Outputs, Deliver(messages)
  PROVE  IInv'
<1>1. CASE Fail
  BY <1>1, FailStep
<1>2. CASE /\ queued' = messages /\ NextTarget
           /\ UNCHANGED <<status, clientVars, roomVars, serving, listIndex>>
  BY <1>2, NextTargetStep
<1> QED
  BY <1>1, <1>2 DEF Deliver

LEMMA TargetSender ==
  ASSUME IInv, InHandler
  PROVE  Sender \in Live /\ Sender \in Fds
BY SenderIsLive DEF InHandler, IInv, HandlerHasSender

LEMMA PrivmsgStep ==
  ASSUME IInv, ConstAssumption, Privmsg
  PROVE  IInv'
<1>1. ASSUME NEW list \in Params, NEW n_params \in 0 .. 2,
             cmd_privmsg(list, n_params)
      PROVE  IInv'
  <2> DEFINE messages == CASE n_params = 0 -> Numeric("ERR_NORECIPIENT", {})
                           [] n_params = 1 -> Numeric("ERR_NOTEXTTOSEND", {})
                           [] OTHER -> Silence
  <2>1. messages \in Outputs
    BY NumericType, SilenceType DEF Kinds
  <2>2. /\ Dispatched("PRIVMSG", n_params)
        /\ Fail \/ Loop("PRIVMSG", list, n_params = 2, messages)
    BY <1>1 DEF cmd_privmsg
  <2> HIDE DEF messages
  <2>3. (n_params = 2) \in BOOLEAN
    OBVIOUS
  <2> QED
    BY <2>1, <2>2, <2>3, LoopStep, FailStep
<1>2. ASSUME NEW c \in Fds, PrivmsgToClient(c) PROVE IInv'
  <2>1. InHandler /\ Msg("PRIVMSG", Sender, {}) \in Messages
    BY <1>2, TargetSender, MsgType DEF PrivmsgToClient, AtTarget, Kinds
  <2> QED
    BY <1>2, <2>1, ToType, DeliverStep DEF PrivmsgToClient
<1>3. ASSUME NEW ch \in ChanIds, PrivmsgToChannel(ch) PROVE IInv'
  <2>1. InHandler /\ Msg("PRIVMSG", Sender, {ch}) \in Messages
    BY <1>3, TargetSender, MsgType DEF PrivmsgToChannel, AtTarget, Kinds
  <2>2. userlist[ch] \in Seq(Fds)
    BY DEF IInv, TypeOK
  <2>3. ToEach(userlist[ch], Msg("PRIVMSG", Sender, {ch})) \in Outputs
    BY <2>1, <2>2, ToEachType
  <2> QED
    BY <1>3, <2>1, <2>3, DeliverStep DEF PrivmsgToChannel
<1>4. ASSUME PrivmsgNoSuchNick PROVE IInv'
  BY <1>4, NumericType, NextTargetStep DEF PrivmsgNoSuchNick, AtTarget, Kinds
<1> QED
  BY <1>1, <1>2, <1>3, <1>4 DEF Privmsg

LEMMA SetsNamed ==
  ASSUME IInv
  PROVE  /\ Live \subseteq Fds /\ Channels \subseteq ChanIds
         /\ \A ch \in ChanIds : Members(ch) \subseteq Fds
<1>1. /\ clientList \in Seq(Fds) /\ channelList \in Seq(ChanIds)
      /\ \A ch \in ChanIds : userlist[ch] \in Seq(Fds)
  BY DEF IInv, TypeOK
<1> QED
  BY <1>1, LenProperties, ElementOfSeq DEF Live, Channels, Members, ToSet

LEMMA WhoReplyStep ==
  ASSUME IInv, NEW about \in SUBSET (Fds \cup ChanIds), WhoReply(about)
  PROVE  IInv'
<1>1. /\ Numeric("RPL_WHOREPLY", about) \in Outputs
      /\ Numeric("RPL_ENDOFWHO", {}) \in Outputs
  BY NumericType DEF Kinds
<1>2. queued' \in Outputs
  BY <1>1, BothType DEF WhoReply
<1> QED
  BY <1>2, NextTargetStep DEF WhoReply, AtTarget

LEMMA ListingsStep ==
  ASSUME IInv, ConstAssumption, Listings
  PROVE  IInv'
<1>1. ASSUME cmd_list PROVE IInv'
  <2>1. /\ Numeric("RPL_LISTSTART", {}) \in Outputs
        /\ Numeric("RPL_LIST", Channels) \in Outputs
        /\ Numeric("RPL_LISTEND", {}) \in Outputs
    BY SetsNamed, NumericType DEF Kinds
  <2> QED
    BY <1>1, <2>1, BothType, AnswerStep DEF cmd_list
<1>2. ASSUME cmd_who PROVE IInv'
  <2>1. /\ Numeric("RPL_WHOREPLY", Strangers(Sender)) \in Outputs
        /\ Numeric("RPL_ENDOFWHO", {}) \in Outputs
    BY SetsNamed, NumericType DEF Kinds, Strangers
  <2> QED
    BY <1>2, <2>1, BothType, AnswerStep DEF cmd_who
<1>3. ASSUME NEW list \in Params, cmd_who_names(list) PROVE IInv'
  BY <1>3, SilenceType, LoopStep DEF cmd_who_names
<1>4. ASSUME NEW ch \in ChanIds, WhoMembers(ch) PROVE IInv'
  BY <1>4, SetsNamed, WhoReplyStep DEF WhoMembers
<1>5. ASSUME WhoNothing PROVE IInv'
  BY <1>5, WhoReplyStep DEF WhoNothing
<1> QED
  BY <1>1, <1>2, <1>3, <1>4, <1>5 DEF Listings

LEMMA ConnectionsStep ==
  ASSUME IInv, ConstAssumption, Connections
  PROVE  IInv'
<1>1. PICK c \in Fds : \/ Accept(c) \/ Receive(c) \/ HangUp(c)
                       \/ ReceiveTraps(c) \/ SendFails(c)
  BY DEF Connections
<1>2. ReceiveTraps(c) \/ SendFails(c) => Fail
  BY DEF ReceiveTraps, SendFails
<1> QED
  BY <1>1, <1>2, AcceptStep, ReceiveStep, HangUpStep, FailStep

LEMMA RefusalsStep ==
  ASSUME IInv, Refusals
  PROVE  IInv'
<1>1. ASSUME UnknownCommand PROVE IInv'
  BY <1>1, NumericType, AnswerStep DEF UnknownCommand, Kinds
<1>2. ASSUME NEW cmd, NotRegistered(cmd) PROVE IInv'
  BY <1>2, NumericType, AnswerStep DEF NotRegistered, Kinds
<1>3. ASSUME NEW cmd, NEW n_params, NeedMoreParams(cmd, n_params) PROVE IInv'
  BY <1>3, NumericType, AnswerStep DEF NeedMoreParams, Kinds
<1> QED
  BY <1>1, <1>2, <1>3 DEF Refusals

LEMMA IdentityGroupStep ==
  ASSUME IInv, ConstAssumption, Identity
  PROVE  IInv'
<1>1. ASSUME NoNicknameGiven PROVE IInv'
  BY <1>1, NumericType, AnswerStep DEF NoNicknameGiven, Kinds
<1>2. ASSUME NEW newNick, NickRefused(newNick) PROVE IInv'
  BY <1>2, NumericType, AnswerStep DEF NickRefused, Kinds
<1>3. ASSUME AlreadyRegistered PROVE IInv'
  BY <1>3, NumericType, AnswerStep DEF AlreadyRegistered, Kinds
<1> QED
  BY <1>1, <1>2, <1>3, NickStep, UserStep, QuitStep DEF Identity

LEMMA JoinStep ==
  ASSUME IInv, ConstAssumption, Join
  PROVE  IInv'
<1>1. PICK list \in Params :
        \/ JoinTraps(list) \/ AlreadyJoined(list) \/ JoinRefused(list)
        \/ JoinExisting(list) \/ \E ch \in ChanIds : JoinNew(list, ch)
  BY DEF Join
<1>2. JoinTraps(list) => IInv'
  BY FailStep DEF JoinTraps
<1>3. AlreadyJoined(list) => IInv'
  BY SilenceType, AnswerStep DEF AlreadyJoined
<1>4. JoinRefused(list) => IInv'
  BY NumericType, AnswerStep DEF JoinRefused, Kinds
<1> QED
  BY <1>1, <1>2, <1>3, <1>4, JoinExistingEnters, JoinNewEnters, EnteredStep

LEMMA PartGroupStep ==
  ASSUME IInv, ConstAssumption, Part
  PROVE  IInv'
<1>1. ASSUME NEW list \in Params, cmd_part(list) PROVE IInv'
  BY <1>1, SilenceType, LoopStep DEF cmd_part
<1>2. ASSUME PartNoSuchChannel PROVE IInv'
  BY <1>2, NumericType, NextTargetStep DEF PartNoSuchChannel, AtTarget, Kinds
<1> QED
  BY <1>1, <1>2, PartStep DEF Part

-----------------------------------------------------------------------------
(* The theorems.                                                           *)

LEMMA InitInvariant ==
  ASSUME ConstAssumption, Init
  PROVE  IInv
<1>1. /\ <<>> \in Seq(Fds) /\ <<>> \in Seq(ChanIds) /\ Len(<<>>) = 0
      /\ ToSet(<<>>) = {} /\ IsInjective(<<>>)
  BY DEF ToSet, IsInjective
<1>2. TypeOK
  BY <1>1, SilenceType DEF Init, TypeOK, Outputs, Calls, ConstAssumption
<1>3. HandlerHasSender
  BY DEF Init, HandlerHasSender
<1>4. \A c \in Fds : Joined(c) = {}
  BY <1>1 DEF Init, Joined
<1>5. \A ch \in ChanIds : Members(ch) = {}
  BY <1>1 DEF Init, Members
<1>6. MembershipAgrees /\ NoStaleReferences
  BY <1>4, <1>5 DEF MembershipAgrees, NoStaleReferences
<1>7. SingleEntries
  BY <1>1 DEF Init, SingleEntries
<1>8. RegistrationGates
  BY <1>1, <1>5 DEF Init, RegistrationGates, Live
<1> QED
  BY <1>2, <1>3, <1>6, <1>7, <1>8 DEF IInv

LEMMA NextInvariant ==
  ASSUME ConstAssumption, IInv, [Next]_vars
  PROVE  IInv'
<1>1. CASE Connections
  BY <1>1, ConnectionsStep
<1>2. CASE EndOfLines
  BY <1>2, EndOfLinesStep
<1>3. CASE DanglingLine
  BY <1>3, FailStep DEF DanglingLine
<1>4. CASE Refusals
  BY <1>4, RefusalsStep
<1>5. CASE Identity
  BY <1>5, IdentityGroupStep
<1>6. CASE Join
  BY <1>6, JoinStep
<1>7. CASE Part
  BY <1>7, PartGroupStep
<1>8. CASE Privmsg
  BY <1>8, PrivmsgStep
<1>9. CASE Listings
  BY <1>9, ListingsStep
<1>10. CASE UNCHANGED vars
  <2>1. UNCHANGED <<status, clientVars, roomVars, serving, listIndex, todo>>
        /\ queued' = queued
    BY <1>10 DEF vars
  <2>2. Answer(queued) /\ queued \in Outputs
    BY <2>1 DEF Answer, IInv, TypeOK, Outputs
  <2> QED
    BY <2>2, AnswerStep
<1> QED
  BY <1>1, <1>2, <1>3, <1>4, <1>5, <1>6, <1>7, <1>8, <1>9, <1>10 DEF Next

(* The bookkeeping of clients and channels is consistent after every step  *)
(* of handle_line, of its handlers' loops and of main.                     *)
THEOREM Invariance == Spec => []IInv
<1>1. Init => IInv
  BY ConstAssumption, InitInvariant
<1>2. IInv /\ [Next]_vars => IInv'
  BY ConstAssumption, NextInvariant
<1> QED
  BY <1>1, <1>2, PTL DEF Spec

(* Every field of client_t and channel_t, and main's own variables, hold   *)
(* values of their type: the handlers index no list outside its entries.   *)
THEOREM TypeCorrect == Spec => []TypeOK
<1>1. IInv => TypeOK
  BY DEF IInv
<1> QED
  BY <1>1, Invariance, PTL

(* PART, PRIVMSG and WHO have their sender for every target of the line.   *)
THEOREM SenderStays == Spec => []HandlerHasSender
<1>1. IInv => HandlerHasSender
  BY DEF IInv
<1> QED
  BY <1>1, Invariance, PTL

(* chanlist and userlist are two views of one relation.                    *)
THEOREM MembershipAgreement == Spec => []MembershipAgrees
<1>1. IInv => MembershipAgrees
  BY DEF IInv
<1> QED
  BY <1>1, Invariance, PTL

(* No userlist keeps a client that remove_client freed, and no chanlist a  *)
(* channel that PART or JOIN freed.                                        *)
THEOREM ListsPointToLive == Spec => []NoStaleReferences
<1>1. IInv => NoStaleReferences
  BY DEF IInv
<1> QED
  BY <1>1, Invariance, PTL

(* No list holds an entry twice and no client is in two channels, so one   *)
(* arraylist_remove is enough everywhere.                                  *)
THEOREM EntriesAreSingle == Spec => []SingleEntries
<1>1. IInv => SingleEntries
  BY DEF IInv
<1> QED
  BY <1>1, Invariance, PTL

(* NICK and USER in either order register a client, and nobody enters a    *)
(* channel before.                                                         *)
THEOREM RegistrationIsGated == Spec => []RegistrationGates
<1>1. IInv => RegistrationGates
  BY DEF IInv
<1> QED
  BY <1>1, Invariance, PTL

=============================================================================
