------------------------------- MODULE OutBuf -------------------------------
(***************************************************************************)
(* What one client is sent: its outbuf, its outbuf_offset and the write    *)
(* branch of main (sircd.c:214-252), which sends line by line until the    *)
(* outbuf is empty or the socket took only a part.                         *)
(*                                                                         *)
(* A line is its number and its length; a byte is the number of its line   *)
(* and its place in it.  arrived is what send took from the server, which  *)
(* is what the peer receives.  Numbers go up to MaxLines.                  *)
(***************************************************************************)
EXTENDS Integers, SequencesExt

CONSTANTS MaxLines, Lengths

ASSUME BufAssumption ==
  /\ MaxLines \in Nat
  /\ Lengths \subseteq Nat \ {0}

VARIABLES outbuf,         \* lines not yet completely sent
          outbuf_offset,  \* where to go on in the first of them
          promised,       \* every line queued so far, in order
          arrived,        \* every byte sent so far, in order
          sock,           \* "ready": send returns; "full": it waits for the
                          \* peer; "error": it fails, not with EPIPE or ECONNRESET
          loop,           \* main is in the loop of lines 222-249
          status,
          partial_sends   \* whether send may take less than it was given: a
                          \* blocking socket does when interrupted halfway
vars == <<outbuf, outbuf_offset, promised, arrived, sock, loop, status>>

Line(n, l) == [line |-> n, len |-> l]
Lines == [line : 1 .. MaxLines, len : Lengths]
Bytes(l, from, to) ==
  [k \in 1 .. to - from |-> [line |-> l.line, at |-> from + k]]
AllBytes(lines) == FlattenSeq([i \in DOMAIN lines |->
                                 Bytes(lines[i], 0, lines[i].len)])

Init ==
  /\ outbuf = <<>> /\ outbuf_offset = 0
  /\ promised = <<>> /\ arrived = <<>>
  /\ sock = "ready" /\ loop = FALSE
  /\ status = "connected"
  /\ partial_sends \in BOOLEAN

(* A handler queues a line while main is not sending (one thread).         *)
prepareMessage(l) ==
  /\ status = "connected" /\ ~loop /\ Len(promised) < MaxLines
  /\ LET new == Line(Len(promised) + 1, l)
     IN  outbuf' = Append(outbuf, new) /\ promised' = Append(promised, new)
  /\ UNCHANGED <<outbuf_offset, arrived, sock, loop, status>>

(* FD_ISSET(i, &write_set): select found the socket ready, or a handler    *)
(* has set the bit since, whatever the socket.                             *)
StartWriting ==
  /\ status = "connected" /\ ~loop /\ outbuf # <<>>
  /\ loop' = TRUE
  /\ UNCHANGED <<outbuf, outbuf_offset, promised, arrived, sock, status>>

(* strlen(dataToSend).                                                     *)
sizeToSend == outbuf[1].len - outbuf_offset
Sending == status = "connected" /\ loop /\ outbuf # <<>>
SendReturns == sock = "ready" \/ (sizeToSend = 0 /\ sock = "full")

(* Mutants: the line stays in outbuf; the wrong line is taken out; a send  *)
(* of nothing is taken for one that would wait.                            *)
SendWhole_Keeps ==
  /\ Sending /\ sizeToSend >= 0 /\ SendReturns
  /\ arrived' = arrived \o Bytes(outbuf[1], outbuf_offset, outbuf[1].len)
  /\ loop' = FALSE /\ sock' = "full"
  /\ UNCHANGED <<outbuf, outbuf_offset, promised, status>>
SendWhole_RemovesLast ==
  /\ Sending /\ sizeToSend >= 0 /\ SendReturns
  /\ arrived' = arrived \o Bytes(outbuf[1], outbuf_offset, outbuf[1].len)
  /\ outbuf' = Front(outbuf)
  /\ sock' \in IF sizeToSend = 0 THEN {sock} ELSE {"ready", "full"}
  /\ UNCHANGED <<outbuf_offset, promised, loop, status>>

SendWhole_RetriesNothing ==
  /\ Sending /\ sizeToSend > 0 /\ sock = "ready"
  /\ arrived' = arrived \o Bytes(outbuf[1], outbuf_offset, outbuf[1].len)
  /\ outbuf' = Tail(outbuf)
  /\ sock' \in {"ready", "full"}
  /\ UNCHANGED <<outbuf_offset, promised, loop, status>>

(* The socket takes all there is; outbuf_offset keeps its value.  Accepted *)
(* sockets are blocking: without room send does not return.                *)
SendWhole ==
  /\ Sending /\ sizeToSend >= 0 /\ SendReturns
  /\ arrived' = arrived \o Bytes(outbuf[1], outbuf_offset, outbuf[1].len)
  /\ outbuf' = Tail(outbuf)
  /\ sock' \in IF sizeToSend = 0 THEN {sock} ELSE {"ready", "full"}
  /\ UNCHANGED <<outbuf_offset, promised, loop, status>>

(* Mutant: the offset is not advanced.                                     *)
SendPart_NoOffset ==
  /\ partial_sends /\ Sending /\ sock = "ready"
  /\ \E n \in 1 .. sizeToSend - 1 :
       arrived' = arrived \o Bytes(outbuf[1], outbuf_offset, outbuf_offset + n)
  /\ sock' = "full" /\ loop' = FALSE
  /\ UNCHANGED <<outbuf, outbuf_offset, promised, status>>

(* The socket takes a part: the loop ends.                                 *)
SendPart ==
  /\ partial_sends /\ Sending /\ sock = "ready"
  /\ \E n \in 1 .. sizeToSend - 1 :
       /\ arrived' = arrived \o Bytes(outbuf[1], outbuf_offset, outbuf_offset + n)
       /\ outbuf_offset' = outbuf_offset + n
  /\ sock' = "full" /\ loop' = FALSE
  /\ UNCHANGED <<outbuf, promised, status>>

(* The offset left by an earlier line lies beyond the end of this one:     *)
(* what is sent is whatever the line's memory holds there.                 *)
SendBeyond ==
  /\ Sending /\ sizeToSend < 0
  /\ status' = "overrun"
  /\ UNCHANGED <<outbuf, outbuf_offset, promised, arrived, sock, loop>>

(* EPIPE or ECONNRESET: remove_client frees outbuf, then the condition of  *)
(* the loop reads it.                                                      *)
SendHangsUp ==
  /\ Sending
  /\ status' = "freed"
  /\ UNCHANGED <<outbuf, outbuf_offset, promised, arrived, sock, loop>>

(* Any other error of send: the loop goes round again.                     *)
SendFails ==
  /\ Sending /\ sock = "error"
  /\ UNCHANGED vars

EndWriting ==
  /\ status = "connected" /\ loop /\ outbuf = <<>>
  /\ loop' = FALSE
  /\ UNCHANGED <<outbuf, outbuf_offset, promised, arrived, sock, status>>

(* recv returned 0 or an error: remove_client in the read branch.          *)
HangUp ==
  /\ status = "connected" /\ ~loop
  /\ status' = "gone"
  /\ outbuf' = <<>>
  /\ UNCHANGED <<outbuf_offset, promised, arrived, sock, loop>>

(* The peer takes what lies in the socket; the socket runs into an error   *)
(* (ENOBUFS, EHOSTUNREACH, ...) or recovers from it.                       *)
PeerReads ==
  /\ status = "connected" /\ sock = "full"
  /\ sock' = "ready"
  /\ UNCHANGED <<outbuf, outbuf_offset, promised, arrived, loop, status>>
SocketFails ==
  /\ status = "connected" /\ sock = "ready"
  /\ sock' = "error"
  /\ UNCHANGED <<outbuf, outbuf_offset, promised, arrived, loop, status>>
SocketRecovers ==
  /\ status = "connected" /\ sock = "error"
  /\ sock' = "ready"
  /\ UNCHANGED <<outbuf, outbuf_offset, promised, arrived, loop, status>>

Writing == SendWhole \/ SendPart \/ SendBeyond \/ EndWriting
Failures == SendHangsUp \/ SendFails \/ HangUp
Peer == PeerReads \/ SocketFails \/ SocketRecovers
Next ==
  /\ \/ \E l \in Lengths : prepareMessage(l)
     \/ StartWriting \/ Writing \/ Failures \/ Peer
  /\ UNCHANGED partial_sends

Spec == Init /\ [][Next]_<<vars, partial_sends>>

(* The process runs: a loop that can go on again and again does.  That     *)
(* main comes to this client at all is Sircd's matter, hence no fairness   *)
(* of StartWriting.  The peer goes on reading, over a socket that recovers *)
(* from its errors: without that, the loop of lines 222-249 does not end.  *)
Fairness == SF_vars(Writing) /\ WF_vars(PeerReads) /\ WF_vars(SocketRecovers)

-----------------------------------------------------------------------------
Before(a, b) == a.line < b.line \/ (a.line = b.line /\ a.at < b.at)

(* Whatever the socket takes at a time, no byte is sent twice and none     *)
(* overtakes another, within a line or across lines.                       *)
ArrivesInOrder ==
  \A i, j \in DOMAIN arrived : i < j => Before(arrived[i], arrived[j])

(* The bytes of lines that have left outbuf which were never sent.         *)
Lost == {b \in ToSet(AllBytes(promised)) :
           /\ b \notin ToSet(arrived)
           /\ \A i \in DOMAIN outbuf : outbuf[i].line # b.line}

(* Text is lost at the beginning of lines only, and not before a line that *)
(* arrived whole was sent in parts: up to the first gap the peer has       *)
(* exactly what the handlers queued.                                       *)
LosesHeadsOnly ==
  status = "connected" =>
    \A b \in Lost :
      /\ \A c \in ToSet(AllBytes(promised)) :
           c.line = b.line /\ c.at < b.at => c \in Lost
      /\ b.line > 1 /\ outbuf_offset >= b.at

(* sircd.c:239, on the line that is taken out of outbuf: "current line     *)
(* completely sent".                                                       *)
CompletelySent == status = "connected" => Lost = {}

(* sircd.c:219: "iterate through item to be sent, until it will block":    *)
(* the loop is left, with or without anything sent.                        *)
LoopEnds == loop ~> (~loop \/ status # "connected")

(* The stream that the peer reads, as ByteStream promises it.              *)
Stream == INSTANCE ByteStream WITH
            Byte <- [line : 1 .. MaxLines, at : Nat],
            written <- AllBytes(promised),
            read <- arrived,
            open <- status = "connected"

(* With a socket that takes whole lines the peer reads the text of the     *)
(* lines that the handlers queued, as ByteStream promises.                 *)
ImplementsStream ==
  Stream!Init /\ [][~partial_sends => Stream!Next]_Stream!vars

=============================================================================
