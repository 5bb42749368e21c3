---------------------------- MODULE OutBufProofs ----------------------------
(***************************************************************************)
(* What reaches the peer of a connection, for any number of lines of any   *)
(* length and whatever the socket takes at a time: bytes in order, none of *)
(* them twice, and of the lines that have left outbuf all but what lies    *)
(* in front of an old outbuf_offset.  Over a socket that takes whole lines *)
(* it is what ByteStream promises.                                         *)
(***************************************************************************)
EXTENDS OutBuf, ListLemmas

Byte == [line : 1 .. MaxLines, at : Nat \ {0}]

(* How many lines have left outbuf.                                        *)
Done == Len(promised) - Len(outbuf)

Types ==
  /\ outbuf \in Seq(Lines) /\ promised \in Seq(Lines)
  /\ outbuf_offset \in Nat
  /\ arrived \in Seq(Byte)

(* Lines are numbered in the order of their queueing, and outbuf has the   *)
(* last of them.                                                           *)
Queue ==
  status = "connected" =>
    /\ Done \in Nat
    /\ \A i \in 1 .. Len(promised) : promised[i].line = i
    /\ \A i \in 1 .. Len(outbuf) : outbuf[i] = promised[Done + i]

(* Where the sending is, no byte from beyond has been sent.                *)
NothingAhead ==
  status = "connected" =>
    \A i \in DOMAIN arrived :
      \/ arrived[i].line <= Done
      \/ arrived[i].line = Done + 1 /\ arrived[i].at <= outbuf_offset

LEMMA LinesHaveBytes ==
  \A l \in Lines : l.line \in 1 .. MaxLines /\ l.len \in Nat \ {0}
BY BufAssumption DEF Lines

LEMMA BytesAre ==
  ASSUME NEW l \in Lines, NEW from \in Nat, NEW to \in Nat, from <= to
  PROVE  /\ Bytes(l, from, to) \in Seq(Byte)
         /\ Len(Bytes(l, from, to)) = to - from
         /\ \A k \in 1 .. to - from :
              Bytes(l, from, to)[k] = [line |-> l.line, at |-> from + k]
<1>1. to - from \in Nat
  OBVIOUS
<1>2. \A k \in 1 .. to - from : [line |-> l.line, at |-> from + k] \in Byte
  BY LinesHaveBytes DEF Byte
<1> QED
  BY <1>1, <1>2 DEF Bytes

LEMMA WholeLine ==
  ASSUME NEW l \in Lines
  PROVE  /\ Bytes(l, 0, l.len) \in Seq(Byte)
         /\ Len(Bytes(l, 0, l.len)) = l.len
         /\ \A b \in ToSet(Bytes(l, 0, l.len)) :
              \E k \in 1 .. l.len : b = [line |-> l.line, at |-> k]
<1> DEFINE bytes == Bytes(l, 0, l.len)
<1>1. l.len \in Nat /\ 0 \in Nat /\ 0 <= l.len /\ l.len - 0 = l.len
  BY LinesHaveBytes
<1>2. /\ bytes \in Seq(Byte) /\ Len(bytes) = l.len
      /\ \A k \in 1 .. l.len : bytes[k] = [line |-> l.line, at |-> 0 + k]
  BY <1>1, BytesAre
<1> HIDE DEF bytes
<1>3. ASSUME NEW b \in ToSet(bytes)
      PROVE  \E k \in 1 .. l.len : b = [line |-> l.line, at |-> k]
  <2>1. PICK k \in 1 .. l.len : bytes[k] = b
    BY <1>2, <1>3, LenProperties DEF ToSet
  <2>2. b = [line |-> l.line, at |-> 0 + k]
    BY <1>2, <2>1
  <2>3. 0 + k = k
    BY <1>1
  <2>4. b = [line |-> l.line, at |-> k]
    BY <2>2, <2>3, Zenon
  <2> QED
    BY <2>4
<1> QED
  BY <1>2, <1>3 DEF bytes

(* The bytes of each line, as AllBytes puts them behind each other.        *)
Texts(lines) == [i \in DOMAIN lines |-> Bytes(lines[i], 0, lines[i].len)]

LEMMA TextsAre ==
  ASSUME NEW lines \in Seq(Lines)
  PROVE  Texts(lines) \in Seq(Seq(Byte)) /\ Len(Texts(lines)) = Len(lines)
<1>1. DOMAIN lines = 1 .. Len(lines) /\ Len(lines) \in Nat
  BY LenProperties
<1>2. \A i \in 1 .. Len(lines) : Bytes(lines[i], 0, lines[i].len) \in Seq(Byte)
  BY ElementOfSeq, WholeLine
<1> QED
  BY <1>1, <1>2 DEF Texts

-----------------------------------------------------------------------------
(* The kinds of steps.                                                     *)

Queues(l) ==
  LET new == Line(Len(promised) + 1, l)
  IN  /\ status = "connected" /\ new \in Lines
      /\ outbuf' = Append(outbuf, new) /\ promised' = Append(promised, new)
      /\ outbuf_offset' = outbuf_offset /\ arrived' = arrived /\ status' = status

(* send takes the first line from outbuf_offset up to there.               *)
Sends(to) ==
  /\ status = "connected" /\ outbuf # <<>>
  /\ outbuf_offset <= to /\ to <= outbuf[1].len
  /\ arrived' = arrived \o Bytes(outbuf[1], outbuf_offset, to)
  /\ promised' = promised /\ status' = status

Finishes ==
  /\ Sends(outbuf[1].len)
  /\ outbuf' = Tail(outbuf) /\ outbuf_offset' = outbuf_offset

Advances(to) ==
  /\ partial_sends
  /\ Sends(to)
  /\ outbuf' = outbuf /\ outbuf_offset' = to

Quiet ==
  /\ outbuf' = outbuf /\ outbuf_offset' = outbuf_offset
  /\ promised' = promised /\ arrived' = arrived /\ status' = status

Closes ==
  /\ status = "connected" /\ status' # "connected"
  /\ outbuf' \in {outbuf, <<>>} /\ outbuf_offset' = outbuf_offset
  /\ promised' = promised /\ arrived' = arrived

LEMMA FirstLine ==
  ASSUME Types, outbuf # <<>>
  PROVE  /\ Len(outbuf) \in Nat \ {0} /\ 1 \in 1 .. Len(outbuf)
         /\ outbuf[1] \in Lines /\ Head(outbuf) = outbuf[1]
         /\ outbuf[1].len \in Nat \ {0}
<1>1. Len(outbuf) \in Nat \ {0}
  BY EmptySeq DEF Types
<1>2. outbuf[1] \in Lines
  BY <1>1, ElementOfSeq DEF Types
<1> QED
  BY <1>1, <1>2, LinesHaveBytes

LEMMA StepKinds ==
  ASSUME Types, [Next]_<<vars, partial_sends>>
  PROVE  /\ partial_sends' = partial_sends
         /\ \/ \E l \in Lengths : Queues(l)
            \/ Finishes
            \/ \E to \in Nat : Advances(to)
            \/ Quiet
            \/ Closes
<1>1. ASSUME NEW l \in Lengths, prepareMessage(l) PROVE Queues(l)
  <2>1. Len(promised) \in Nat
    BY LenProperties DEF Types
  <2>2. Line(Len(promised) + 1, l) \in Lines
    BY <1>1, <2>1, BufAssumption DEF prepareMessage, Line, Lines
  <2> QED
    BY <1>1, <2>2 DEF prepareMessage, Queues
<1>2. ASSUME SendWhole PROVE Finishes
  <2>1. outbuf # <<>> /\ status = "connected" /\ sizeToSend >= 0
    BY <1>2 DEF SendWhole, Sending
  <2>2. outbuf_offset <= outbuf[1].len
    BY <2>1, FirstLine DEF sizeToSend, Types
  <2>3. outbuf[1].len <= outbuf[1].len
    BY <2>1, FirstLine
  <2> QED
    BY <1>2, <2>1, <2>2, <2>3 DEF SendWhole, Finishes, Sends
<1>3. ASSUME SendPart PROVE \E to \in Nat : Advances(to)
  <2>1. outbuf # <<>> /\ status = "connected"
    BY <1>3 DEF SendPart, Sending
  <2>2. PICK n \in 1 .. sizeToSend - 1 :
          /\ arrived' = arrived \o Bytes(outbuf[1], outbuf_offset, outbuf_offset + n)
          /\ outbuf_offset' = outbuf_offset + n
    BY <1>3 DEF SendPart
  <2>3. /\ outbuf_offset + n \in Nat /\ outbuf_offset <= outbuf_offset + n
        /\ outbuf_offset + n <= outbuf[1].len
    BY <2>1, <2>2, FirstLine DEF sizeToSend, Types
  <2> QED
    BY <1>3, <2>1, <2>2, <2>3 DEF SendPart, Advances, Sends
<1>4. ASSUME StartWriting \/ EndWriting \/ SendFails \/ Peer \/ UNCHANGED vars
      PROVE  Quiet
  BY <1>4 DEF StartWriting, EndWriting, SendFails, Peer, PeerReads,
              SocketFails, SocketRecovers, vars, Quiet
<1>5. ASSUME SendBeyond \/ SendHangsUp \/ HangUp PROVE Closes
  BY <1>5 DEF SendBeyond, SendHangsUp, HangUp, Sending, Closes
<1> QED
  BY <1>1, <1>2, <1>3, <1>4, <1>5 DEF Next, Writing, Failures

-----------------------------------------------------------------------------
(* Bytes arrive in order.                                                  *)

LEMMA FirstIsNext ==
  ASSUME Types, Queue, status = "connected", outbuf # <<>>
  PROVE  /\ outbuf[1] \in Lines /\ outbuf[1].line = Done + 1
         /\ Done \in Nat /\ Done + 1 \in 1 .. Len(promised)
         /\ outbuf[1] = promised[Done + 1]
<1>1. Len(outbuf) \in Nat \ {0} /\ outbuf[1] \in Lines
  BY FirstLine
<1>2. outbuf[1] = promised[Done + 1] /\ Done \in Nat
  BY <1>1 DEF Queue
<1>3. Done + 1 \in 1 .. Len(promised)
  BY <1>1, <1>2, LenProperties DEF Done, Types
<1> QED
  BY <1>1, <1>2, <1>3 DEF Queue

LEMMA NewBytes ==
  ASSUME Types, Queue, NEW to \in Nat, Sends(to)
  PROVE  LET new == Bytes(outbuf[1], outbuf_offset, to)
         IN  /\ new \in Seq(Byte) /\ Len(new) = to - outbuf_offset
             /\ \A k \in 1 .. to - outbuf_offset :
                  new[k] = [line |-> Done + 1, at |-> outbuf_offset + k]
<1> DEFINE new == Bytes(outbuf[1], outbuf_offset, to)
<1>1. outbuf_offset \in Nat /\ outbuf_offset <= to
  BY DEF Types, Sends
<1>2. outbuf[1] \in Lines /\ outbuf[1].line = Done + 1
  BY FirstIsNext DEF Sends
<1>3. /\ new \in Seq(Byte) /\ Len(new) = to - outbuf_offset
      /\ \A k \in 1 .. to - outbuf_offset :
           new[k] = [line |-> outbuf[1].line, at |-> outbuf_offset + k]
  BY <1>1, <1>2, BytesAre
<1> HIDE DEF new
<1>4. \A k \in 1 .. to - outbuf_offset :
        new[k] = [line |-> Done + 1, at |-> outbuf_offset + k]
  BY <1>2, <1>3, Zenon
<1> QED
  BY <1>3, <1>4 DEF new

LEMMA SentInOrder ==
  ASSUME Types, Queue, NothingAhead, ArrivesInOrder, NEW to \in Nat, Sends(to)
  PROVE  /\ arrived' \in Seq(Byte)
         /\ ArrivesInOrder'
         /\ \A i \in DOMAIN arrived' :
              \/ arrived'[i].line <= Done
              \/ arrived'[i].line = Done + 1 /\ arrived'[i].at <= to
<1> DEFINE new == Bytes(outbuf[1], outbuf_offset, to)
           n == Len(arrived)
<1>1. /\ status = "connected" /\ outbuf # <<>> /\ outbuf_offset <= to
      /\ arrived' = arrived \o new
  BY DEF Sends
<1>2. Done \in Nat
  BY <1>1, FirstIsNext
<1>3. /\ new \in Seq(Byte) /\ Len(new) = to - outbuf_offset
      /\ \A k \in 1 .. to - outbuf_offset :
           new[k] = [line |-> Done + 1, at |-> outbuf_offset + k]
  BY NewBytes
<1>4. arrived \in Seq(Byte) /\ n \in Nat /\ DOMAIN arrived = 1 .. n
  BY LenProperties DEF Types
<1> HIDE DEF new, n
<1>5. arrived' \in Seq(Byte) /\ Len(arrived') = n + Len(new)
  BY <1>1, <1>3, <1>4, ConcatProperties DEF n
<1>6. \A i \in 1 .. n + Len(new) :
        arrived'[i] = IF i <= n THEN arrived[i] ELSE new[i - n]
  BY <1>1, <1>3, <1>4, ConcatProperties DEF n
<1>7. DOMAIN arrived' = 1 .. n + Len(new)
  BY <1>5, LenProperties
<1>8. to - outbuf_offset \in Nat /\ outbuf_offset \in Nat
  BY <1>1 DEF Types
(* What arrived[i] is: an old byte, or the (i - n)th of the new ones.      *)
<1>9. ASSUME NEW i \in DOMAIN arrived'
      PROVE  \/ /\ i \in DOMAIN arrived /\ i <= n /\ arrived'[i] = arrived[i]
                /\ \/ arrived[i].line <= Done
                   \/ arrived[i].line = Done + 1 /\ arrived[i].at <= outbuf_offset
             \/ /\ i \in Int /\ i > n /\ i - n <= to - outbuf_offset
                /\ arrived'[i].line = Done + 1
                /\ arrived'[i].at = outbuf_offset + (i - n)
  <2>1. CASE i <= n
    BY <1>1, <1>4, <1>6, <1>7, <1>9, <2>1 DEF NothingAhead
  <2>2. CASE ~(i <= n)
    <3>1. i - n \in 1 .. to - outbuf_offset /\ i \in 1 .. n + Len(new)
      BY <1>3, <1>4, <1>7, <1>8, <1>9, <2>2
    <3>2. arrived'[i] = [line |-> Done + 1, at |-> outbuf_offset + (i - n)]
      BY <1>3, <1>6, <2>2, <3>1
    <3> QED
      BY <1>4, <2>2, <3>1, <3>2
  <2> QED
    BY <2>1, <2>2
<1>10. ArrivesInOrder'
  <2> SUFFICES ASSUME NEW i \in DOMAIN arrived', NEW j \in DOMAIN arrived', i < j
               PROVE  Before(arrived'[i], arrived'[j])
    BY DEF ArrivesInOrder, Before
  <2>1. CASE j <= n
    <3>1. i \in DOMAIN arrived /\ j \in DOMAIN arrived
      BY <1>4, <1>7, <2>1
    <3>2. arrived'[i] = arrived[i] /\ arrived'[j] = arrived[j]
      BY <1>4, <1>9, <3>1
    <3> QED
      BY <3>1, <3>2 DEF ArrivesInOrder
  <2>2. CASE ~(j <= n)
    <3>1. arrived'[j].line = Done + 1 /\ arrived'[j].at = outbuf_offset + (j - n)
      BY <1>9, <2>2
    <3>2. CASE i <= n
      <4>1. /\ arrived'[i] = arrived[i]
            /\ \/ arrived[i].line <= Done
               \/ arrived[i].line = Done + 1 /\ arrived[i].at <= outbuf_offset
        BY <1>4, <1>9, <3>2
      <4>2. arrived[i].line \in Int /\ arrived[i].at \in Int
        <5>1. arrived[i] \in Byte
          BY <1>4, <1>7, <3>2, ElementOfSeq DEF n
        <5> QED
          BY <5>1, BufAssumption DEF Byte
      <4> QED
        BY <1>2, <1>4, <1>7, <1>8, <2>2, <3>1, <4>1, <4>2 DEF Before
    <3>3. CASE ~(i <= n)
      <4>1. arrived'[i].line = Done + 1 /\ arrived'[i].at = outbuf_offset + (i - n)
        BY <1>9, <3>3
      <4> QED
        BY <1>4, <1>7, <1>8, <3>1, <4>1 DEF Before
    <3> QED
      BY <3>2, <3>3
  <2> QED
    BY <2>1, <2>2
<1>11. ASSUME NEW i \in DOMAIN arrived'
       PROVE  \/ arrived'[i].line <= Done
              \/ arrived'[i].line = Done + 1 /\ arrived'[i].at <= to
  <2>1. CASE i <= n
    <3>1. /\ arrived'[i] = arrived[i]
          /\ \/ arrived[i].line <= Done
             \/ arrived[i].line = Done + 1 /\ arrived[i].at <= outbuf_offset
      BY <1>4, <1>9, <1>11, <2>1
    <3>2. arrived[i].at \in Int
      <4>1. arrived[i] \in Byte
        BY <1>4, <1>7, <1>11, <2>1, ElementOfSeq DEF n
      <4> QED
        BY <4>1 DEF Byte
    <3> QED
      BY <1>1, <1>8, <3>1, <3>2
  <2>2. CASE ~(i <= n)
    BY <1>4, <1>7, <1>8, <1>9, <1>11, <2>2
  <2> QED
    BY <2>1, <2>2
<1> QED
  BY <1>5, <1>10, <1>11

IInvOrder == Types /\ Queue /\ NothingAhead /\ ArrivesInOrder

LEMMA InitOrder == Init => IInvOrder
<1> SUFFICES ASSUME Init PROVE IInvOrder
  OBVIOUS
<1>1. Types
  BY EmptySeq DEF Init, Types
<1>2. Done = 0
  BY DEF Init, Done
<1> QED
  BY <1>1, <1>2 DEF Init, IInvOrder, Queue, NothingAhead, ArrivesInOrder

LEMMA StepQueues ==
  ASSUME IInvOrder, NEW l \in Lengths, Queues(l)
  PROVE  IInvOrder' /\ Done' = Done
<1> DEFINE new == Line(Len(promised) + 1, l)
<1>1. /\ new \in Lines /\ status = "connected" /\ new.line = Len(promised) + 1
      /\ outbuf' = Append(outbuf, new) /\ promised' = Append(promised, new)
      /\ outbuf_offset' = outbuf_offset /\ arrived' = arrived /\ status' = status
  BY DEF Queues, Line
<1> HIDE DEF new
<1>2. outbuf \in Seq(Lines) /\ promised \in Seq(Lines)
  BY DEF IInvOrder, Types
<1>3. Len(outbuf) \in Nat /\ Len(promised) \in Nat /\ Done \in Nat
  BY <1>1, <1>2, LenProperties DEF IInvOrder, Queue
<1>4. /\ outbuf' \in Seq(Lines) /\ Len(outbuf') = Len(outbuf) + 1
      /\ \A i \in 1 .. Len(outbuf) : outbuf'[i] = outbuf[i]
      /\ outbuf'[Len(outbuf) + 1] = new
  BY <1>1, <1>2, AppendProperties
<1>5. /\ promised' \in Seq(Lines) /\ Len(promised') = Len(promised) + 1
      /\ \A i \in 1 .. Len(promised) : promised'[i] = promised[i]
      /\ promised'[Len(promised) + 1] = new
  BY <1>1, <1>2, AppendProperties
<1>6. Done' = Done
  BY <1>3, <1>4, <1>5 DEF Done
<1>7. Types'
  BY <1>1, <1>4, <1>5 DEF IInvOrder, Types
<1>8. Queue'
  <2>1. \A i \in 1 .. Len(promised') : promised'[i].line = i
    <3> TAKE i \in 1 .. Len(promised')
    <3>1. CASE i = Len(promised) + 1
      BY <1>1, <1>5, <3>1
    <3>2. CASE i # Len(promised) + 1
      <4>1. i \in 1 .. Len(promised)
        BY <1>3, <1>5, <3>2
      <4> QED
        BY <1>1, <1>5, <4>1 DEF IInvOrder, Queue
    <3> QED
      BY <3>1, <3>2
  <2>2. \A i \in 1 .. Len(outbuf') : outbuf'[i] = promised'[Done + i]
    <3> TAKE i \in 1 .. Len(outbuf')
    <3>1. CASE i = Len(outbuf) + 1
      <4>1. Done + i = Len(promised) + 1
        BY <1>3, <3>1 DEF Done
      <4> QED
        BY <1>4, <1>5, <3>1, <4>1
    <3>2. CASE i # Len(outbuf) + 1
      <4>1. i \in 1 .. Len(outbuf)
        BY <1>3, <1>4, <3>2
      <4>2. Done + i \in 1 .. Len(promised)
        BY <1>3, <4>1 DEF Done
      <4> QED
        BY <1>1, <1>4, <1>5, <4>1, <4>2 DEF IInvOrder, Queue
    <3> QED
      BY <3>1, <3>2
  <2> QED
    BY <1>3, <1>6, <2>1, <2>2 DEF Queue
<1>9. NothingAhead' /\ ArrivesInOrder'
  BY <1>1, <1>6 DEF IInvOrder, NothingAhead, ArrivesInOrder, Before
<1> QED
  BY <1>6, <1>7, <1>8, <1>9 DEF IInvOrder

LEMMA StepFinishes ==
  ASSUME IInvOrder, Finishes
  PROVE  IInvOrder' /\ Done' = Done + 1
<1> DEFINE to == outbuf[1].len
<1>1. /\ Types /\ Queue /\ NothingAhead /\ ArrivesInOrder
      /\ status = "connected" /\ outbuf # <<>> /\ status' = status
      /\ promised' = promised /\ outbuf_offset' = outbuf_offset
      /\ outbuf' = Tail(outbuf) /\ Sends(to)
  BY DEF IInvOrder, Finishes, Sends
<1>2. to \in Nat
  BY <1>1, FirstLine
<1>3. /\ arrived' \in Seq(Byte) /\ ArrivesInOrder'
      /\ \A i \in DOMAIN arrived' :
           \/ arrived'[i].line <= Done
           \/ arrived'[i].line = Done + 1 /\ arrived'[i].at <= to
  BY <1>1, <1>2, SentInOrder
<1> HIDE DEF to
<1>4. /\ outbuf' \in Seq(Lines) /\ Len(outbuf') = Len(outbuf) - 1
      /\ \A i \in 1 .. Len(outbuf') : outbuf'[i] = outbuf[i + 1]
  BY <1>1, HeadTailProperties DEF Types
<1>5. /\ Len(outbuf) \in Nat \ {0} /\ Len(promised) \in Nat /\ Done \in Nat
  BY <1>1, FirstLine, LenProperties DEF Types, Queue
<1>6. Done' = Done + 1
  BY <1>1, <1>4, <1>5 DEF Done
<1>7. Types'
  BY <1>1, <1>3, <1>4 DEF Types
<1>8. \A i \in 1 .. Len(outbuf') : outbuf'[i] = promised[Done + 1 + i]
  <2> TAKE i \in 1 .. Len(outbuf')
  <2>1. i + 1 \in 1 .. Len(outbuf) /\ Done + (i + 1) = Done + 1 + i
    BY <1>4, <1>5
  <2>2. outbuf[i + 1] = promised[Done + (i + 1)]
    BY <1>1, <2>1 DEF Queue
  <2> QED
    BY <1>4, <2>1, <2>2
<1>9. Queue'
  BY <1>1, <1>5, <1>6, <1>8 DEF Queue
<1>10. NothingAhead'
  <2> SUFFICES ASSUME NEW i \in DOMAIN arrived'
               PROVE  arrived'[i].line <= Done + 1
    BY <1>6 DEF NothingAhead
  <2>1. arrived'[i].line \in Int
    <3>1. arrived'[i] \in Byte
      BY <1>3, LenProperties, ElementOfSeq
    <3> QED
      BY <3>1, BufAssumption DEF Byte
  <2> QED
    BY <1>3, <1>5, <2>1
<1> QED
  BY <1>3, <1>6, <1>7, <1>9, <1>10 DEF IInvOrder

LEMMA StepAdvances ==
  ASSUME IInvOrder, NEW to \in Nat, Advances(to)
  PROVE  IInvOrder' /\ Done' = Done
<1>1. /\ Types /\ Queue /\ NothingAhead /\ ArrivesInOrder /\ status' = status
      /\ promised' = promised /\ outbuf_offset' = to /\ outbuf' = outbuf /\ Sends(to)
  BY DEF IInvOrder, Advances, Sends
<1>2. /\ arrived' \in Seq(Byte) /\ ArrivesInOrder'
      /\ \A i \in DOMAIN arrived' :
           \/ arrived'[i].line <= Done
           \/ arrived'[i].line = Done + 1 /\ arrived'[i].at <= to
  BY <1>1, SentInOrder
<1>3. Done' = Done
  BY <1>1 DEF Done
<1> QED
  BY <1>1, <1>2, <1>3 DEF IInvOrder, Types, Queue, NothingAhead

LEMMA StepQuiet ==
  ASSUME IInvOrder, Quiet
  PROVE  IInvOrder' /\ Done' = Done
<1>1. Done' = Done
  BY DEF Quiet, Done
<1> QED
  BY <1>1 DEF Quiet, IInvOrder, Types, Queue, NothingAhead, ArrivesInOrder, Before

LEMMA StepCloses ==
  ASSUME IInvOrder, Closes
  PROVE  IInvOrder' /\ status' # "connected"
<1>1. outbuf' \in Seq(Lines)
  BY EmptySeq DEF Closes, IInvOrder, Types
<1> QED
  BY <1>1 DEF Closes, IInvOrder, Types, Queue, NothingAhead, ArrivesInOrder, Before

LEMMA StepOrder == IInvOrder /\ [Next]_<<vars, partial_sends>> => IInvOrder'
<1> SUFFICES ASSUME IInvOrder, [Next]_<<vars, partial_sends>> PROVE IInvOrder'
  OBVIOUS
<1>1. Types
  BY DEF IInvOrder
<1> QED
  BY <1>1, StepKinds, StepQueues, StepFinishes, StepAdvances, StepQuiet, StepCloses

(* No byte is sent twice and none overtakes another, however the sends of  *)
(* the write branch (sircd.c:222-249) cut the lines.                       *)
THEOREM BytesInOrder == Spec => []ArrivesInOrder
<1>1. IInvOrder => ArrivesInOrder
  BY DEF IInvOrder
<1> QED
  BY InitOrder, StepOrder, <1>1, PTL DEF Spec

-----------------------------------------------------------------------------
(* What is lost: of every line whose sending has begun, all the bytes up   *)
(* to some cut h and none behind it.                                       *)

Sent(k, at) == [line |-> k, at |-> at] \in ToSet(arrived)
SentUpTo(k) == IF k <= Done THEN promised[k].len ELSE outbuf_offset

CutAt(k, h) ==
  /\ h <= outbuf_offset
  /\ k = 1 => h = 0
  /\ \A at \in Nat \ {0} : Sent(k, at) <=> h < at /\ at <= SentUpTo(k)

Cuts ==
  status = "connected" => \A k \in 1 .. Done + 1 : \E h \in Nat : CutAt(k, h)

LEMMA SentMore ==
  ASSUME Types, Queue, NEW to \in Nat, Sends(to), NEW k, NEW at \in Nat
  PROVE  Sent(k, at)' <=> Sent(k, at) \/ (k = Done + 1 /\ outbuf_offset < at /\ at <= to)
<1> DEFINE new == Bytes(outbuf[1], outbuf_offset, to)
<1>1. arrived' = arrived \o new /\ arrived \in Seq(Byte) /\ outbuf_offset \in Nat
  BY DEF Sends, Types
<1>2. /\ new \in Seq(Byte) /\ Len(new) = to - outbuf_offset
      /\ \A i \in 1 .. to - outbuf_offset :
           new[i] = [line |-> Done + 1, at |-> outbuf_offset + i]
  BY NewBytes
<1> HIDE DEF new
<1>3. ToSet(arrived') = ToSet(arrived) \cup ToSet(new)
  BY <1>1, <1>2, ConcatEntries
<1>4. DOMAIN new = 1 .. to - outbuf_offset
  BY <1>2, LenProperties
<1>5. ASSUME [line |-> k, at |-> at] \in ToSet(new)
      PROVE  k = Done + 1 /\ outbuf_offset < at /\ at <= to
  <2>1. PICK i \in 1 .. to - outbuf_offset : new[i] = [line |-> k, at |-> at]
    BY <1>4, <1>5 DEF ToSet
  <2>2. [line |-> k, at |-> at] = [line |-> Done + 1, at |-> outbuf_offset + i]
    BY <1>2, <2>1
  <2>3. k = Done + 1 /\ at = outbuf_offset + i
    BY <2>2
  <2> QED
    BY <1>1, <2>3
<1>6. ASSUME k = Done + 1, outbuf_offset < at, at <= to
      PROVE  [line |-> k, at |-> at] \in ToSet(new)
  <2>1. PICK i \in 1 .. to - outbuf_offset : outbuf_offset + i = at
    <3>1. at - outbuf_offset \in 1 .. to - outbuf_offset
      BY <1>1, <1>6
    <3> QED
      BY <1>1, <3>1
  <2>2. new[i] = [line |-> k, at |-> at]
    BY <1>2, <1>6, <2>1
  <2> QED
    BY <1>4, <2>2 DEF ToSet
<1> QED
  BY <1>3, <1>5, <1>6 DEF Sent

LEMMA NothingSentAhead ==
  ASSUME Types, Queue, NothingAhead, status = "connected",
         NEW k \in Nat, k > Done + 1, NEW at
  PROVE  ~Sent(k, at)
<1> SUFFICES ASSUME Sent(k, at) PROVE FALSE
  OBVIOUS
<1>1. PICK i \in DOMAIN arrived : arrived[i] = [line |-> k, at |-> at]
  BY DEF Sent, ToSet
<1>2. arrived[i].line = k
  BY <1>1
<1> QED
  BY <1>2 DEF NothingAhead, Queue

LEMMA CutsInit == Init => Cuts
<1> SUFFICES ASSUME Init PROVE Cuts
  OBVIOUS
<1>1. Done = 0 /\ outbuf_offset = 0
  BY DEF Init, Done
<1>2. \A k, at : ~Sent(k, at)
  BY DEF Init, Sent, ToSet
<1>3. CutAt(1, 0)
  BY <1>1, <1>2 DEF CutAt, SentUpTo
<1> QED
  BY <1>1, <1>3 DEF Cuts

LEMMA CutsFinishes ==
  ASSUME IInvOrder, Cuts, Finishes
  PROVE  Cuts'
<1> DEFINE to == outbuf[1].len
<1>1. /\ Types /\ Queue /\ NothingAhead /\ Sends(to) /\ status = "connected"
      /\ outbuf # <<>> /\ promised' = promised /\ outbuf_offset' = outbuf_offset
  BY DEF IInvOrder, Finishes, Sends
<1>2. Done' = Done + 1
  BY StepFinishes
<1>3. /\ Done \in Nat /\ outbuf_offset \in Nat /\ to \in Nat /\ outbuf_offset <= to
      /\ promised[Done + 1].len = to
  BY <1>1, FirstLine, FirstIsNext DEF Types, Sends
<1>4. \A k \in Nat, at \in Nat \ {0} :
        Sent(k, at)' <=> Sent(k, at) \/ (k = Done + 1 /\ outbuf_offset < at /\ at <= to)
  BY <1>1, <1>3, SentMore
<1> HIDE DEF to
<1>5. ASSUME NEW k \in 1 .. Done + 2 PROVE \E h \in Nat : CutAt(k, h)'
  <2>1. CASE k <= Done
    <3>1. PICK h \in Nat : CutAt(k, h)
      BY <1>1, <1>3, <2>1 DEF Cuts
    <3>2. \A at \in Nat \ {0} : Sent(k, at)' <=> Sent(k, at)
      BY <1>3, <1>4, <2>1
    <3>3. SentUpTo(k)' = SentUpTo(k)
      BY <1>1, <1>2, <1>3, <2>1 DEF SentUpTo
    <3>4. CutAt(k, h)'
      BY <1>1, <3>1, <3>2, <3>3 DEF CutAt
    <3> QED
      BY <3>4
  <2>2. CASE k = Done + 1
    <3>1. PICK h \in Nat : CutAt(k, h)
      BY <1>1, <1>3, <2>2 DEF Cuts
    <3>2. SentUpTo(k) = outbuf_offset /\ SentUpTo(k)' = to
      BY <1>1, <1>2, <1>3, <2>2 DEF SentUpTo
    <3>3. \A at \in Nat \ {0} : Sent(k, at)' <=> h < at /\ at <= to
      <4> TAKE at \in Nat \ {0}
      <4>1. Sent(k, at) <=> h < at /\ at <= outbuf_offset
        BY <3>1, <3>2 DEF CutAt
      <4>2. Sent(k, at)' <=> Sent(k, at) \/ (outbuf_offset < at /\ at <= to)
        BY <1>3, <1>4, <2>2
      <4>3. h <= outbuf_offset
        BY <3>1 DEF CutAt
      <4> QED
        BY <1>3, <4>1, <4>2, <4>3
    <3>4. CutAt(k, h)'
      BY <1>1, <3>1, <3>2, <3>3 DEF CutAt
    <3> QED
      BY <3>4
  <2>3. CASE k = Done + 2
    <3>1. \A at \in Nat \ {0} : ~Sent(k, at)'
      BY <1>1, <1>3, <1>4, <2>3, NothingSentAhead
    <3>2. SentUpTo(k)' = outbuf_offset
      BY <1>1, <1>2, <1>3, <2>3 DEF SentUpTo
    <3>3. CutAt(k, outbuf_offset)'
      BY <1>1, <1>3, <2>3, <3>1, <3>2 DEF CutAt
    <3> QED
      BY <1>1, <1>3, <3>3
  <2> QED
    BY <1>3, <2>1, <2>2, <2>3
<1> QED
  BY <1>2, <1>3, <1>5 DEF Cuts

LEMMA CutsAdvances ==
  ASSUME IInvOrder, Cuts, NEW to \in Nat, Advances(to)
  PROVE  Cuts'
<1>1. /\ Types /\ Queue /\ NothingAhead /\ Sends(to) /\ status = "connected"
      /\ outbuf # <<>> /\ promised' = promised /\ outbuf_offset' = to
  BY DEF IInvOrder, Advances, Sends
<1>2. Done' = Done
  BY StepAdvances
<1>3. Done \in Nat /\ outbuf_offset \in Nat /\ outbuf_offset <= to
  BY <1>1, FirstIsNext DEF Types, Sends
<1>4. \A k \in Nat, at \in Nat \ {0} :
        Sent(k, at)' <=> Sent(k, at) \/ (k = Done + 1 /\ outbuf_offset < at /\ at <= to)
  BY <1>1, <1>3, SentMore
<1>5. ASSUME NEW k \in 1 .. Done + 1 PROVE \E h \in Nat : CutAt(k, h)'
  <2>1. PICK h \in Nat : CutAt(k, h)
    BY <1>1 DEF Cuts
  <2>2. h <= to /\ (k = 1 => h = 0)
    BY <1>3, <2>1 DEF CutAt
  <2>3. ASSUME NEW at \in Nat \ {0}
        PROVE  Sent(k, at)' <=> h < at /\ at <= SentUpTo(k)'
    <3>1. CASE k <= Done
      <4>1. SentUpTo(k)' = SentUpTo(k)
        BY <1>1, <1>2, <3>1 DEF SentUpTo
      <4>2. Sent(k, at)' <=> Sent(k, at)
        BY <1>3, <1>4, <3>1
      <4> QED
        BY <2>1, <4>1, <4>2 DEF CutAt
    <3>2. CASE k = Done + 1
      <4>1. SentUpTo(k) = outbuf_offset /\ SentUpTo(k)' = to
        BY <1>1, <1>2, <1>3, <3>2 DEF SentUpTo
      <4>2. Sent(k, at) <=> h < at /\ at <= outbuf_offset
        BY <2>1, <4>1 DEF CutAt
      <4>3. Sent(k, at)' <=> Sent(k, at) \/ (outbuf_offset < at /\ at <= to)
        BY <1>3, <1>4, <3>2
      <4>4. h <= outbuf_offset
        BY <2>1 DEF CutAt
      <4> QED
        BY <1>3, <4>1, <4>2, <4>3, <4>4
    <3> QED
      BY <1>3, <3>1, <3>2
  <2>4. CutAt(k, h)'
    BY <1>1, <2>2, <2>3 DEF CutAt
  <2> QED
    BY <2>4
<1> QED
  BY <1>2, <1>5 DEF Cuts

LEMMA CutsQueues ==
  ASSUME IInvOrder, Cuts, NEW l \in Lengths, Queues(l)
  PROVE  Cuts'
<1>1. /\ status = "connected" /\ promised \in Seq(Lines) /\ Line(Len(promised) + 1, l) \in Lines
      /\ promised' = Append(promised, Line(Len(promised) + 1, l))
      /\ outbuf_offset' = outbuf_offset /\ arrived' = arrived
  BY DEF Queues, IInvOrder, Types
<1>2. \A i \in 1 .. Len(promised) : promised'[i] = promised[i]
  BY <1>1, AppendProperties
<1>3. Done' = Done
  BY StepQueues
<1>4. Done \in Nat /\ Done <= Len(promised) /\ Len(promised) \in Nat
  BY <1>1, LenProperties DEF IInvOrder, Types, Queue, Done
<1>5. ASSUME NEW k \in 1 .. Done + 1, NEW h \in Nat, CutAt(k, h) PROVE CutAt(k, h)'
  <2>1. SentUpTo(k)' = SentUpTo(k)
    BY <1>1, <1>2, <1>3, <1>4 DEF SentUpTo
  <2>2. \A at \in Nat \ {0} : Sent(k, at)' <=> Sent(k, at)
    BY <1>1 DEF Sent
  <2> QED
    BY <1>1, <1>5, <2>1, <2>2 DEF CutAt
<1> QED
  BY <1>1, <1>3, <1>5 DEF Cuts

LEMMA StepCuts == IInvOrder /\ Cuts /\ [Next]_<<vars, partial_sends>> => Cuts'
<1> SUFFICES ASSUME IInvOrder, Cuts, [Next]_<<vars, partial_sends>> PROVE Cuts'
  OBVIOUS
<1>1. Types
  BY DEF IInvOrder
<1>2. ASSUME Quiet PROVE Cuts'
  <2>1. Done' = Done
    BY <1>2, StepQuiet
  <2> QED
    BY <1>2, <2>1 DEF Quiet, Cuts, CutAt, Sent, SentUpTo
<1>3. ASSUME Closes PROVE Cuts'
  BY <1>3 DEF Closes, Cuts
<1> QED
  BY <1>1, <1>2, <1>3, StepKinds, CutsQueues, CutsFinishes, CutsAdvances

(* A byte of what was promised is in its line.                             *)
LEMMA PromisedBytes ==
  ASSUME Types, Queue, status = "connected", NEW b \in ToSet(AllBytes(promised))
  PROVE  /\ b = [line |-> b.line, at |-> b.at]
         /\ b.line \in 1 .. Len(promised)
         /\ b.at \in Nat \ {0} /\ b.at <= promised[b.line].len
<1>1. /\ promised \in Seq(Lines) /\ DOMAIN promised = 1 .. Len(promised)
      /\ b \in ToSet(FlattenSeq(Texts(promised)))
  BY LenProperties DEF Types, AllBytes, Texts
<1>2. PICK i \in 1 .. Len(promised) : b \in ToSet(Bytes(promised[i], 0, promised[i].len))
  <2>1. PICK i \in DOMAIN Texts(promised) : b \in ToSet(Texts(promised)[i])
    BY <1>1, TextsAre, FlattenMember
  <2> QED
    BY <1>1, <2>1 DEF Texts
<1>3. promised[i] \in Lines /\ promised[i].line = i
  BY <1>1, <1>2, ElementOfSeq DEF Queue
<1>4. PICK k \in 1 .. promised[i].len : b = [line |-> promised[i].line, at |-> k]
  BY <1>2, <1>3, WholeLine
<1>5. promised[i].len \in Nat
  BY <1>3, LinesHaveBytes
<1>6. b.line = i /\ b.at = k
  BY <1>3, <1>4
<1> QED
  BY <1>2, <1>3, <1>4, <1>5, <1>6

(* Text is lost at the beginning of lines only, and only where an old      *)
(* outbuf_offset (sircd.c:232-247) is still in force: of a line that has   *)
(* left outbuf, everything behind a cut has arrived.                       *)
THEOREM OnlyHeadsAreLost == Spec => []LosesHeadsOnly
<1>1. ASSUME IInvOrder, Cuts PROVE LosesHeadsOnly
  <2> SUFFICES ASSUME status = "connected", NEW b \in Lost
               PROVE  /\ \A c \in ToSet(AllBytes(promised)) :
                           c.line = b.line /\ c.at < b.at => c \in Lost
                      /\ b.line > 1 /\ outbuf_offset >= b.at
    BY DEF LosesHeadsOnly
  <2>1. Types /\ Queue
    BY <1>1 DEF IInvOrder
  <2>2. /\ b \in ToSet(AllBytes(promised)) /\ b \notin ToSet(arrived)
        /\ \A i \in DOMAIN outbuf : outbuf[i].line # b.line
    BY DEF Lost
  <2>3. /\ b = [line |-> b.line, at |-> b.at] /\ b.line \in 1 .. Len(promised)
        /\ b.at \in Nat \ {0} /\ b.at <= promised[b.line].len
    BY <2>1, <2>2, PromisedBytes
  <2>4. /\ Len(outbuf) \in Nat /\ DOMAIN outbuf = 1 .. Len(outbuf)
        /\ Len(promised) \in Nat /\ Done \in Nat /\ outbuf_offset \in Nat
    BY <2>1, LenProperties DEF Types, Queue
  <2>5. b.line <= Done
    <3> SUFFICES ASSUME ~(b.line <= Done) PROVE FALSE
      OBVIOUS
    <3>1. b.line - Done \in 1 .. Len(outbuf) /\ Done + (b.line - Done) = b.line
      BY <2>3, <2>4 DEF Done
    <3>2. outbuf[b.line - Done] = promised[b.line]
      BY <2>1, <3>1 DEF Queue
    <3>3. promised[b.line].line = b.line
      BY <2>1, <2>3 DEF Queue
    <3> QED
      BY <2>2, <2>4, <3>1, <3>2, <3>3
  <2>6. PICK h \in Nat : CutAt(b.line, h)
    <3>1. b.line \in 1 .. Done + 1
      BY <2>3, <2>4, <2>5
    <3> QED
      BY <1>1, <3>1 DEF Cuts
  <2>7. h <= outbuf_offset /\ (b.line = 1 => h = 0)
    BY <2>6 DEF CutAt
  <2>8. \A at \in Nat \ {0} : Sent(b.line, at) <=> h < at /\ at <= promised[b.line].len
    BY <2>5, <2>6 DEF CutAt, SentUpTo
  <2>9. b.at <= h
    BY <2>2, <2>3, <2>8 DEF Sent
  <2>10. b.line > 1 /\ outbuf_offset >= b.at
    BY <2>3, <2>4, <2>7, <2>9
  <2>11. ASSUME NEW c \in ToSet(AllBytes(promised)), c.line = b.line, c.at < b.at
         PROVE  c \in Lost
    <3>1. c = [line |-> b.line, at |-> c.at] /\ c.at \in Nat \ {0}
      BY <2>1, <2>11, PromisedBytes
    <3>2. ~(h < c.at)
      BY <2>3, <2>9, <2>11, <3>1
    <3>3. c \notin ToSet(arrived)
      BY <2>8, <3>1, <3>2 DEF Sent
    <3> QED
      BY <2>2, <2>11, <3>3 DEF Lost
  <2> QED
    BY <2>10, <2>11
<1> QED
  BY InitOrder, StepOrder, CutsInit, StepCuts, <1>1, PTL DEF Spec

-----------------------------------------------------------------------------
(* Over a socket that takes whole lines.                                   *)

LEMMA AllBytesType ==
  ASSUME NEW lines \in Seq(Lines)
  PROVE  AllBytes(lines) = FlattenSeq(Texts(lines)) /\ AllBytes(lines) \in Seq(Byte)
<1>1. AllBytes(lines) = FlattenSeq(Texts(lines))
  BY DEF AllBytes, Texts
<1> QED
  BY <1>1, TextsAre, FlattenType

LEMMA AllBytesAppend ==
  ASSUME NEW lines \in Seq(Lines), NEW l \in Lines
  PROVE  AllBytes(Append(lines, l)) = AllBytes(lines) \o Bytes(l, 0, l.len)
<1> DEFINE text == Bytes(l, 0, l.len)
           more == Append(lines, l)
<1>1. text \in Seq(Byte)
  BY WholeLine
<1>2. /\ more \in Seq(Lines) /\ Len(more) = Len(lines) + 1
      /\ \A i \in 1 .. Len(lines) : more[i] = lines[i]
      /\ more[Len(lines) + 1] = l
  BY AppendProperties
<1>3. Texts(more) \in Seq(Seq(Byte)) /\ Texts(lines) \in Seq(Seq(Byte))
  BY <1>2, TextsAre
<1>4. Texts(more) = Append(Texts(lines), text)
  <2>1. /\ DOMAIN lines = 1 .. Len(lines) /\ Len(lines) \in Nat
        /\ DOMAIN more = 1 .. Len(lines) + 1
    BY <1>2, LenProperties
  <2>2. Len(Texts(lines)) = Len(lines) /\ Len(Texts(more)) = Len(lines) + 1
    BY <1>2, TextsAre
  <2>3. /\ Append(Texts(lines), text) \in Seq(Seq(Byte))
        /\ Len(Append(Texts(lines), text)) = Len(lines) + 1
        /\ \A i \in 1 .. Len(lines) : Append(Texts(lines), text)[i] = Texts(lines)[i]
        /\ Append(Texts(lines), text)[Len(lines) + 1] = text
    BY <1>1, <1>3, <2>2, AppendProperties
  <2>4. ASSUME NEW i \in 1 .. Len(lines) + 1
        PROVE  Texts(more)[i] = Append(Texts(lines), text)[i]
    <3>1. Texts(more)[i] = Bytes(more[i], 0, more[i].len)
      BY <2>1 DEF Texts
    <3>2. CASE i = Len(lines) + 1
      BY <1>2, <2>3, <3>1, <3>2
    <3>3. CASE i # Len(lines) + 1
      <4>1. i \in 1 .. Len(lines)
        BY <2>1, <3>3
      <4>2. Texts(lines)[i] = Bytes(lines[i], 0, lines[i].len)
        BY <2>1, <4>1 DEF Texts
      <4> QED
        BY <1>2, <2>3, <3>1, <4>1, <4>2
    <3> QED
      BY <3>2, <3>3
  <2> HIDE DEF text, more
  <2> QED
    BY <1>3, <2>2, <2>3, <2>4, SeqEqual
<1>5. FlattenSeq(Append(Texts(lines), text)) = FlattenSeq(Texts(lines)) \o text
  BY <1>1, <1>3, FlattenAppend
<1> QED
  BY <1>2, <1>4, <1>5, AllBytesType

LEMMA AllBytesHead ==
  ASSUME NEW lines \in Seq(Lines), lines # <<>>
  PROVE  AllBytes(lines) = Bytes(lines[1], 0, lines[1].len) \o AllBytes(Tail(lines))
<1>1. /\ Len(lines) \in Nat \ {0} /\ DOMAIN lines = 1 .. Len(lines)
      /\ Tail(lines) \in Seq(Lines) /\ Len(Tail(lines)) = Len(lines) - 1
      /\ \A i \in 1 .. Len(lines) - 1 : Tail(lines)[i] = lines[i + 1]
  BY EmptySeq, LenProperties, HeadTailProperties
<1>2. /\ Texts(lines) \in Seq(Seq(Byte)) /\ Len(Texts(lines)) = Len(lines)
      /\ Texts(Tail(lines)) \in Seq(Seq(Byte))
      /\ Len(Texts(Tail(lines))) = Len(lines) - 1
  BY <1>1, TextsAre
<1>3. Texts(lines) # <<>>
  BY <1>1, <1>2, EmptySeq
<1>4. Head(Texts(lines)) = Bytes(lines[1], 0, lines[1].len)
  <2>1. Head(Texts(lines)) = Texts(lines)[1] /\ 1 \in DOMAIN lines
    BY <1>1, <1>2, <1>3
  <2> QED
    BY <2>1 DEF Texts
<1>5. Tail(Texts(lines)) = Texts(Tail(lines))
  <2>1. /\ Tail(Texts(lines)) \in Seq(Seq(Byte))
        /\ Len(Tail(Texts(lines))) = Len(lines) - 1
        /\ \A i \in 1 .. Len(lines) - 1 : Tail(Texts(lines))[i] = Texts(lines)[i + 1]
    BY <1>2, <1>3, HeadTailProperties
  <2>2. ASSUME NEW i \in 1 .. Len(lines) - 1
        PROVE  Tail(Texts(lines))[i] = Texts(Tail(lines))[i]
    <3>1. i + 1 \in DOMAIN lines /\ i \in DOMAIN Tail(lines)
      BY <1>1, LenProperties
    <3> QED
      BY <1>1, <2>1, <3>1 DEF Texts
  <2> QED
    BY <1>2, <2>1, <2>2, SeqEqual
<1>6. FlattenSeq(Texts(lines)) = Head(Texts(lines)) \o FlattenSeq(Tail(Texts(lines)))
  BY <1>2, <1>3, FlattenHead
<1> QED
  BY <1>1, <1>4, <1>5, <1>6, AllBytesType

(* What has arrived and what is in outbuf is what was promised.            *)
AsPromised ==
  status = "connected" =>
    outbuf_offset = 0 /\ arrived \o AllBytes(outbuf) = AllBytes(promised)

LEMMA StreamQueues ==
  ASSUME Types, AsPromised, NEW l \in Lengths, Queues(l)
  PROVE  AsPromised' /\ Stream!Write
<1> DEFINE new == Line(Len(promised) + 1, l)
<1>1. /\ status = "connected" /\ new \in Lines
      /\ outbuf' = Append(outbuf, new) /\ promised' = Append(promised, new)
      /\ outbuf_offset' = outbuf_offset /\ arrived' = arrived /\ status' = status
  BY DEF Queues
<1> HIDE DEF new
<1>2. PICK text : text = Bytes(new, 0, new.len)
  OBVIOUS
<1>3. text \in Seq(Byte) /\ text # <<>>
  BY <1>1, <1>2, WholeLine, LinesHaveBytes
<1>4. PICK queued : queued = AllBytes(outbuf)
  OBVIOUS
<1>5. PICK all : all = AllBytes(promised)
  OBVIOUS
<1>6. AllBytes(outbuf)' = queued \o text /\ AllBytes(promised)' = all \o text
  <2>1. AllBytes(outbuf') = queued \o text /\ AllBytes(promised') = all \o text
    BY <1>1, <1>2, <1>4, <1>5, AllBytesAppend DEF Types
  <2> QED
    BY <2>1 DEF AllBytes
<1>7. arrived \in Seq(Byte) /\ queued \in Seq(Byte) /\ all \in Seq(Byte)
  BY <1>4, <1>5, AllBytesType DEF Types
<1>8. outbuf_offset = 0 /\ arrived \o queued = all
  BY <1>1, <1>4, <1>5 DEF AsPromised
<1>9. (arrived \o queued) \o text = arrived \o (queued \o text)
  BY ONLY <1>3, <1>7, SMT
<1>10. AsPromised'
  BY <1>1, <1>6, <1>8, <1>9, Zenon DEF AsPromised
<1>11. IsStrictPrefix(all, all \o text)
  BY <1>3, <1>7, ConcatPrefix
<1>12. IsStrictPrefix(AllBytes(promised), AllBytes(promised)')
  BY <1>5, <1>6, <1>11, Zenon
<1>13. Stream!Write
  <2>1. Stream!IsStrictPrefix(AllBytes(promised), AllBytes(promised)')
    BY <1>12 DEF IsStrictPrefix, IsPrefix, Stream!IsStrictPrefix, Stream!IsPrefix
  <2> QED
    BY <1>1, <2>1 DEF Stream!Write
<1> QED
  BY <1>10, <1>13

LEMMA StreamFinishes ==
  ASSUME Types, AsPromised, Finishes
  PROVE  AsPromised' /\ Stream!Deliver
<1>1. /\ status = "connected" /\ outbuf # <<>> /\ outbuf \in Seq(Lines)
      /\ outbuf' = Tail(outbuf) /\ promised' = promised /\ status' = status
      /\ outbuf_offset' = outbuf_offset
      /\ arrived' = arrived \o Bytes(outbuf[1], outbuf_offset, outbuf[1].len)
  BY DEF Finishes, Sends, Types
<1>2. PICK text : text = Bytes(outbuf[1], 0, outbuf[1].len)
  OBVIOUS
<1>3. text \in Seq(Byte) /\ text # <<>>
  BY <1>1, <1>2, FirstLine, WholeLine
<1>4. PICK rest : rest = AllBytes(Tail(outbuf))
  OBVIOUS
<1>5. PICK all : all = AllBytes(promised)
  OBVIOUS
<1>6. AllBytes(outbuf)' = rest /\ AllBytes(promised)' = all
  BY <1>1, <1>4, <1>5 DEF AllBytes
<1>7. arrived \in Seq(Byte) /\ rest \in Seq(Byte) /\ all \in Seq(Byte)
  <2>1. Tail(outbuf) \in Seq(Lines)
    BY <1>1, HeadTailProperties
  <2> QED
    BY <1>4, <1>5, <2>1, AllBytesType DEF Types
<1>8. outbuf_offset = 0 /\ arrived \o (text \o rest) = all
  <2>1. AllBytes(outbuf) = text \o rest
    BY <1>1, <1>2, <1>4, AllBytesHead
  <2> QED
    BY <1>1, <1>5, <2>1 DEF AsPromised
<1>9. arrived' = arrived \o text
  BY <1>1, <1>2, <1>8
<1>10. (arrived \o text) \o rest = arrived \o (text \o rest)
  BY ONLY <1>3, <1>7, SMT
<1>11. AsPromised'
  BY <1>1, <1>6, <1>8, <1>9, <1>10, Zenon DEF AsPromised
<1>12. IsStrictPrefix(arrived, arrived \o text)
  BY <1>3, <1>7, ConcatPrefix
<1>13. IsPrefix(arrived \o text, all)
  <2>1. arrived \o text \in Seq(Byte)
    BY <1>3, <1>7, ConcatProperties
  <2>2. IsPrefix(arrived \o text, (arrived \o text) \o rest)
    BY <1>7, <2>1, ConcatPrefix
  <2> QED
    BY <1>8, <1>10, <2>2, Zenon
<1>14. IsStrictPrefix(arrived, arrived') /\ IsPrefix(arrived', AllBytes(promised))
  BY <1>5, <1>9, <1>12, <1>13, Zenon
<1>15. AllBytes(promised)' = AllBytes(promised)
  BY <1>5, <1>6
<1>16. Stream!Deliver
  <2>1. /\ Stream!IsStrictPrefix(arrived, arrived')
        /\ Stream!IsPrefix(arrived', AllBytes(promised))
    BY <1>14 DEF IsStrictPrefix, IsPrefix, Stream!IsStrictPrefix, Stream!IsPrefix
  <2> QED
    BY <1>1, <1>15, <2>1 DEF Stream!Deliver
<1> QED
  BY <1>11, <1>16

LEMMA StreamStep ==
  ASSUME Types, AsPromised, ~partial_sends, [Next]_<<vars, partial_sends>>
  PROVE  AsPromised' /\ [Stream!Next]_Stream!vars
<1>1. ASSUME Quiet PROVE AsPromised' /\ UNCHANGED Stream!vars
  BY <1>1 DEF Quiet, AsPromised, Stream!vars, AllBytes
<1>2. ASSUME Closes PROVE AsPromised' /\ Stream!Close
  BY <1>2 DEF Closes, AsPromised, Stream!Close, AllBytes
<1>3. ASSUME NEW to \in Nat, Advances(to) PROVE FALSE
  BY <1>3 DEF Advances
<1> QED
  BY <1>1, <1>2, <1>3, StepKinds, StreamQueues, StreamFinishes DEF Stream!Next

(* When every send takes the whole line, the connection is a ByteStream:   *)
(* the peer reads what was queued, in order and without a gap, up to where *)
(* the connection ends.                                                    *)
THEOREM WholeLinesStream == Spec => ImplementsStream
<1> DEFINE Whole == ~partial_sends => AsPromised
<1>1. Init => Stream!Init
  BY DEF Init, Stream!Init, AllBytes, FlattenSeq
<1>2. Init => Whole
  <2> SUFFICES ASSUME Init PROVE AsPromised
    OBVIOUS
  <2>1. outbuf = <<>> /\ promised = <<>> /\ arrived = <<>> /\ outbuf_offset = 0
    BY DEF Init
  <2>2. AllBytes(<<>>) = <<>>
    BY DEF AllBytes, FlattenSeq
  <2> QED
    BY <2>1, <2>2 DEF AsPromised
<1>3. ASSUME Types, Whole, [Next]_<<vars, partial_sends>>
      PROVE  Whole' /\ [~partial_sends => Stream!Next]_Stream!vars
  <2>1. partial_sends' = partial_sends
    BY <1>3, StepKinds
  <2> QED
    BY <1>3, <2>1, StreamStep
<1>4. IInvOrder => Types
  BY DEF IInvOrder
<1> HIDE DEF Whole
<1> QED
  BY InitOrder, StepOrder, <1>1, <1>2, <1>3, <1>4, PTL DEF Spec, ImplementsStream

=============================================================================
