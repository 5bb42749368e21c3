------------------------------ MODULE ReplyBuf ------------------------------
(***************************************************************************)
(* How a numeric reply is put together: cmd_join's list of names, the      *)
(* texts that sendNumericReply appends to its buf, and the line that       *)
(* prepareMessage makes of it.  A text is its length.  snprintf returns    *)
(* the length that the text needs, not what it wrote, and its size         *)
(* argument, a difference of size_t, does not become negative.             *)
(***************************************************************************)
EXTENDS Integers, SequencesExt

CONSTANTS MAX_CONTENT_LENGTH,   \* MAX_MSG_LEN without CR LF
          SIZE_MAX,     \* of size_t
          Header,       \* length of ":servername code"
          Words,        \* lengths of what a client can have quoted
          Channames,    \* lengths of the names of channels
          Nicks,        \* lengths of nicks
          MaxMembers,   \* bound on the members of the channel
          Phrase        \* length of the text that ends a refusal

sizeof_buf == MAX_CONTENT_LENGTH + 1

ASSUME ReplyBufAssumption ==
  /\ MAX_CONTENT_LENGTH \in Nat \ {0} /\ MaxMembers \in Nat
  /\ SIZE_MAX \in Nat /\ SIZE_MAX > 2 * MAX_CONTENT_LENGTH + 4
  /\ Header \in 1 .. MAX_CONTENT_LENGTH
  /\ Words \subseteq Nat /\ Phrase \in Nat
  /\ \A channame \in Channames :   \* MAX_CHANNAME is 9
       channame \in Nat /\ Header + 1 + channame <= sizeof_buf
  /\ Nicks \subseteq 1 .. MAX_CONTENT_LENGTH   \* strcpy of the first one

VARIABLES temp,         \* temp - buf in cmd_join
          members,      \* members listed so far
          numWritten,
          pending,      \* the texts still to be appended
          quoted,       \* the first of them
          pc, sent
reply_vars == <<temp, members, numWritten, pending, quoted, pc, sent>>

ReplyInit ==
  /\ temp = 0 /\ members = 0 /\ numWritten = 0 /\ pending = <<>>
  /\ quoted = 0 /\ pc = "start" /\ sent = 0

(* A negative int, made a size_t.                                          *)
size_t(n) == IF n >= 0 THEN n ELSE SIZE_MAX + 1 + n

(* snprintf(buf + at, sizeof buf - at, ..) of a text stays inside buf.     *)
Inside(at, text) ==
  at + Min({text, size_t(sizeof_buf - at) - 1}) < sizeof_buf

(* A numeric reply is begun with some texts.                               *)
Reply(texts) ==
  /\ pending' = texts /\ quoted' = Head(texts)
  /\ numWritten' = Header /\ pc' = "texts"

(* A refusal quotes the client's word in front of a phrase: a command, a   *)
(* name or a target of any length that fits in a line.                     *)
Refuse(word) ==
  /\ pc = "start"
  /\ Reply(<<word, Phrase>>)
  /\ UNCHANGED <<temp, members, sent>>

(* cmd_join: strcpy of the first member's nick.                            *)
FirstName(nick) ==
  /\ pc = "start"
  /\ temp' = nick /\ members' = 1 /\ pc' = "names"
  /\ UNCHANGED <<numWritten, pending, quoted, sent>>

(* The names list, once it is complete or buf is full.                     *)
ReplyNames(channame, length) ==
  Reply(<<channame, Min({length, sizeof_buf - 1})>>)

NamesComplete(channame) ==
  /\ pc = "names"
  /\ ReplyNames(channame, temp)
  /\ UNCHANGED <<temp, members, sent>>

(* Mutant: the loop goes on when buf is full.                              *)
NextName_Unchecked(nick, channame) ==
  /\ pc = "names" /\ members < MaxMembers
  /\ IF ~Inside(temp, nick + 1)
     THEN pc' = "outside" /\ UNCHANGED <<temp, members>>
     ELSE temp' = temp + nick + 1 /\ members' = members + 1 /\ pc' = pc
  /\ UNCHANGED <<numWritten, pending, quoted, sent>>

(* One pass of the loop over the other members.                            *)
NextName(nick, channame) ==
  /\ pc = "names" /\ members < MaxMembers
  /\ IF ~Inside(temp, nick + 1)
     THEN pc' = "outside"
          /\ UNCHANGED <<temp, members, numWritten, pending, quoted>>
     ELSE /\ temp' = temp + nick + 1 /\ members' = members + 1
          /\ IF temp' >= sizeof_buf
             THEN ReplyNames(channame, temp')
             ELSE UNCHANGED <<pc, numWritten, pending, quoted>>
  /\ sent' = sent

(* Mutant: the NUL is counted as one of the line's characters.             *)
prepareReply_OneShort == sent' = Min({MAX_CONTENT_LENGTH - 1, numWritten'}) + 2

(* prepareMessage of what is in buf; it cuts at MAX_MSG_LEN-2 again.       *)
prepareReply ==
  sent' = Min({MAX_CONTENT_LENGTH, numWritten', sizeof_buf - 1}) + 2

(* A text goes behind a space, the last one behind a colon as well when it *)
(* has spaces.  Only when buf is passed by exactly one is the rest left    *)
(* out.                                                                    *)
AppendText ==
  /\ pc = "texts"
  /\ \E colon \in IF Len(pending) = 1 THEN {0, 1} ELSE {0} :
       LET text == Head(pending) + 1 + colon
       IN  IF ~Inside(numWritten, text)
           THEN pc' = "outside" /\ UNCHANGED <<numWritten, pending, sent>>
           ELSE /\ numWritten' = numWritten + text
                /\ pending' = Tail(pending)
                /\ IF pending' = <<>> \/ numWritten' = sizeof_buf
                   THEN pc' = "done" /\ prepareReply
                   ELSE pc' = pc /\ sent' = sent
  /\ UNCHANGED <<temp, members, quoted>>

ReplyNext ==
  \/ \E word \in Words : Refuse(word)
  \/ \E nick \in Nicks : FirstName(nick)
  \/ \E channame \in Channames :
       NamesComplete(channame) \/ \E nick \in Nicks : NextName(nick, channame)
  \/ AppendText
ReplySpec == ReplyInit /\ [][ReplyNext]_reply_vars

-----------------------------------------------------------------------------
(* Only a word of the client's own makes a reply be written outside buf,   *)
(* one that fills what the header leaves of it: JOIN's reply stays inside, *)
(* with any number of members and of the characters in their nicks.        *)
OverflowsOnlyByWord ==
  pc = "outside" => temp = 0 /\ Header + 1 + quoted > sizeof_buf

(* Wherever a reply is cut, by the loop over the names, by snprintf or by  *)
(* prepareMessage, it is a full line then: as long as there is room in the *)
(* line, every member is listed and every phrase is whole.                 *)
FullOrComplete ==
  pc = "done" =>
    LET last == IF temp = 0 THEN Phrase ELSE temp
    IN  \/ sent = MAX_CONTENT_LENGTH + 2
        \/ sent - (Header + 1 + quoted + 1 + last + 2) \in {0, 1}   \* the colon

(* message.c:48, of a text that is too long for buf: "Message Too Long.    *)
(* Truncating message".  Nothing is then written outside it.               *)
InsideBuf == pc # "outside"

=============================================================================
