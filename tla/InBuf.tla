------------------------------- MODULE InBuf --------------------------------
(***************************************************************************)
(* What one client sends: its inbuf and inbuf_size, recv, and the cut into *)
(* lines (sircd.c:283-332), which Tokenizer does as splitByDelimStr does.  *)
(* inbuf is memory: behind the text and its NUL lies what earlier texts    *)
(* left, and where none has been what malloc left, which may be the lines  *)
(* of a client that has gone.                                              *)
(***************************************************************************)
EXTENDS Tokenizer, Integers

CONSTANTS Letters, MAX_MSG_LEN,
          MaxReceived,   \* bound on the bytes a client sends
          Junk           \* what inbuf may hold when malloc returns it

ASSUME InBufAssumption ==
  /\ MAX_MSG_LEN \in Nat \ {0} /\ MaxReceived \in Nat
  /\ NUL \notin Letters /\ Letters \cap Delims = {}
  /\ Junk \subseteq [1 .. MAX_MSG_LEN + 1 -> Letters \cup Delims \cup {NUL}]

VARIABLES inbuf, inbuf_size,
          leftover,   \* what inbuf held at first
          received,   \* every byte received, in order
          dumped,     \* how many of them when inbuf was last dumped
          handled,    \* the lines of the last recv
          left,       \* the peer has closed the connection
          in_status
in_vars == <<inbuf, inbuf_size, leftover, received, dumped, handled, left, in_status>>

Chars == Letters \cup Delims
Text == SubSeq(inbuf, 1, inbuf_size)

(* client_alloc_init: INIT_STRING(newClient->inbuf) writes one byte of it. *)
InInit ==
  /\ leftover \in Junk /\ inbuf = [leftover EXCEPT ![1] = NUL]
  /\ inbuf_size = 0
  /\ received = <<>> /\ dumped = 0 /\ handled = <<>>
  /\ left = FALSE /\ in_status = "connected"

(* Mutants: the text is not terminated; it goes to the beginning.          *)
Stored_Open(chunk) ==
  [k \in DOMAIN inbuf |->
     IF k \in inbuf_size + 1 .. inbuf_size + Len(chunk)
     THEN chunk[k - inbuf_size] ELSE inbuf[k]]
Stored_AtFront(chunk) ==
  [k \in DOMAIN inbuf |->
     IF k \in 1 .. Len(chunk) THEN chunk[k]
     ELSE IF k = inbuf_size + Len(chunk) + 1 THEN NUL ELSE inbuf[k]]

(* recv behind the text, and the NUL behind that.                          *)
Stored(chunk) ==
  [k \in DOMAIN inbuf |->
     IF k \in inbuf_size + 1 .. inbuf_size + Len(chunk)
     THEN chunk[k - inbuf_size]
     ELSE IF k = inbuf_size + Len(chunk) + 1 THEN NUL ELSE inbuf[k]]

Room == MAX_MSG_LEN - inbuf_size

(* recv returns something: some of what the peer has written.              *)
Got(chunk) ==
  /\ in_status = "connected" /\ ~left
  /\ inbuf' = Stored(chunk) /\ received' = received \o chunk
  /\ leftover' = leftover

(* strpbrk finds no delimiter.                                             *)
NoDelimiter == strpbrk(inbuf', 1) = 0

(* Mutant: a line that is too long is kept.                                *)
RecvPart_Keeps(chunk) ==
  /\ Got(chunk) /\ NoDelimiter
  /\ inbuf_size' = inbuf_size + Len(chunk)
  /\ dumped' = dumped
  /\ handled' = <<>>
  /\ UNCHANGED <<left, in_status>>

(* Not yet a line; with inbuf full, never a line: it is dumped.            *)
RecvPart(chunk) ==
  /\ Got(chunk) /\ NoDelimiter
  /\ IF inbuf_size + Len(chunk) = MAX_MSG_LEN
     THEN inbuf_size' = 0 /\ dumped' = Len(received')
     ELSE inbuf_size' = inbuf_size + Len(chunk) /\ dumped' = dumped
  /\ handled' = <<>>
  /\ UNCHANGED <<left, in_status>>

(* splitByDelimStr gives tokens, and its lastTokenTerminated is true       *)
(* whenever it does: all of them are handled, and the text stays.          *)
RecvLines(chunk) ==
  /\ Got(chunk) /\ ~NoDelimiter
  /\ splitByDelimStr(inbuf').outcome = "tokens"
  /\ handled' = splitByDelimStr(inbuf').tokens
  /\ inbuf_size' = inbuf_size + Len(chunk)
  /\ UNCHANGED <<dumped, left, in_status>>

(* It runs off the end of inbuf or copies from NULL.                       *)
RecvTraps(chunk) ==
  /\ Got(chunk) /\ ~NoDelimiter
  /\ splitByDelimStr(inbuf').outcome \in {"trap", "overrun"}
  /\ in_status' = "failed"
  /\ inbuf_size' = inbuf_size + Len(chunk) /\ handled' = <<>>
  /\ UNCHANGED <<dumped, left>>

(* recv returns 0: the peer has closed the connection, or it was given no  *)
(* room; or it fails because the connection was reset.  remove_client.     *)
RecvNothing ==
  /\ in_status = "connected" /\ (left \/ Room = 0)
  /\ in_status' = "removed"
  /\ UNCHANGED <<inbuf, inbuf_size, leftover, received, dumped, handled, left>>

PeerLeaves ==
  /\ in_status = "connected" /\ ~left
  /\ left' = TRUE
  /\ UNCHANGED <<inbuf, inbuf_size, leftover, received, dumped, handled, in_status>>

Chunks == UNION {[1 .. n -> Chars] :
                   n \in 1 .. Min({Room, MaxReceived - Len(received)})}
InNext ==
  \/ \E chunk \in Chunks : RecvPart(chunk) \/ RecvLines(chunk) \/ RecvTraps(chunk)
  \/ RecvNothing \/ PeerLeaves
InSpec == InInit /\ [][InNext]_in_vars

-----------------------------------------------------------------------------
(* Whatever is cut, dumped and kept, inbuf holds the last inbuf_size bytes *)
(* that the client sent: none is missing and none is there twice.          *)
WindowOfStream == IsSuffix(Text, received)

(* t stands in text behind its first `from' bytes.                         *)
StandsIn(t, text, from) ==
  \E k \in from .. Len(text) - Len(t) : t = SubSeq(text, k + 1, k + Len(t))

(* splitByDelimStr reads beyond the NUL.  Still a line is never made up of *)
(* bytes of two clients: it was sent by this one in one piece, or it is    *)
(* what malloc left behind all that this one has sent.  Once inbuf has     *)
(* been full there is nothing of the others left.                          *)
NeverMixed ==
  \A t \in ToSet(handled) :
    \/ StandsIn(t, received, 0)
    \/ dumped = 0 /\ StandsIn(t, leftover, inbuf_size + 1)

(* inbuf is full only if there is a delimiter in it: who sends none can    *)
(* send for ever and is never dropped for it.                              *)
FullHoldsDelimiter ==
  inbuf_size = MAX_MSG_LEN => ToSet(Text) \cap Delims # {}

(* sircd.c:285, when recv returns nothing: "recv failed. Either client     *)
(* left or error".                                                         *)
OnlyLeaversRemoved == in_status = "removed" => left

=============================================================================
