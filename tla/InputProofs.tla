---------------------------- MODULE InputProofs ----------------------------
(***************************************************************************)
(* What the programs make of what they are given, however long it is: the  *)
(* tokens that splitByDelimStr cuts from a text, whatever lies behind it   *)
(* in memory; the lines it cuts from a client's inbuf; the nicks that      *)
(* isValidNick accepts; the configuration file that init_node takes; and   *)
(* the command line of the routing daemon.                                 *)
(***************************************************************************)
EXTENDS InBuf, MCTokenizer, ValidNames, InitNode, RtArgs, ListLemmas

-----------------------------------------------------------------------------
(* splitByDelimStr: the searches in memory, the two passes, the tokens.    *)

LEMMA DelimiterIsFirst ==
  ASSUME NEW mem, Len(mem) \in Nat, NEW p \in Nat \ {0}
  PROVE  /\ strpbrk(mem, p) = 0 => NoneOf(mem, p, NulAfter(mem, p), Delims)
         /\ strpbrk(mem, p) # 0 =>
              /\ strpbrk(mem, p) \in p .. NulAfter(mem, p)
              /\ mem[strpbrk(mem, p)] \in Delims
              /\ NoneOf(mem, p, strpbrk(mem, p) - 1, Delims)
<1> DEFINE S == {q \in p .. NulAfter(mem, p) : mem[q] \in Delims}
<1>0. NulAfter(mem, p) \in Nat
  BY NulIsFirst
<1>1. S \in SUBSET Nat /\ strpbrk(mem, p) = Where(S) /\ 0 \notin S
  BY <1>0 DEF strpbrk
<1>2. CASE S = {}
  <2>1. strpbrk(mem, p) = 0
    BY <1>1, <1>2, WhereIsFirst
  <2> QED
    BY <2>1, <1>2 DEF NoneOf
<1>3. CASE S # {}
  <2>1. Where(S) \in S /\ \A x \in S : Where(S) <= x
    BY <1>1, <1>3, WhereIsFirst
  <2> DEFINE w == Where(S)
  <2>2. w \in p .. NulAfter(mem, p) /\ mem[w] \in Delims
    BY <2>1
  <2>3. ASSUME NEW k \in p .. w - 1 PROVE mem[k] \notin Delims
    <3>1. k \in p .. NulAfter(mem, p) /\ ~(w <= k)
      BY <2>2, <1>0
    <3> QED
      BY <3>1, <2>1
  <2>5. w # 0
    BY <2>2, <1>0
  <2> HIDE DEF w
  <2>4. strpbrk(mem, p) = w
    BY <1>1 DEF w
  <2> QED
    BY <2>2, <2>3, <2>4, <2>5 DEF NoneOf
<1> QED
  BY <1>2, <1>3

LEMMA SkipGoesOn ==
  ASSUME NEW mem, Len(mem) \in Nat, NEW p \in Nat \ {0}
  PROVE  Skip(mem, p) = 0 \/ Skip(mem, p) \in p + 1 .. Len(mem)
<1> DEFINE S == {q \in p .. Len(mem) : mem[q] \notin Delims \cup {NUL}}
           w == Where(S)
<1>1. S \in SUBSET Nat
  OBVIOUS
<1>2. w = 0 \/ w \in S
  BY <1>1, WhereIsFirst
<1>3. w = 0 \/ w \in p .. Len(mem)
  BY <1>2
<1>4. Skip(mem, p) = IF w \in 1 .. Len(mem) - 1 THEN w + 1 ELSE 0
  BY DEF Skip
<1> HIDE DEF w
<1> QED
  BY <1>3, <1>4

-----------------------------------------------------------------------------
(* The counting pass, taken apart: its value at a position rests on its    *)
(* value further on, so that there is such a function.                     *)

PassFrom(f, mem, p) ==
  IF p = 0 THEN [starts |-> <<>>, last |-> "overrun"]
  ELSE IF mem[p] = NUL THEN [starts |-> <<>>, last |-> "terminated"]
  ELSE IF strpbrk(mem, p) = 0 THEN [starts |-> <<p>>, last |-> "open"]
  ELSE LET rest == f[Skip(mem, strpbrk(mem, p))]
       IN  [rest EXCEPT !.starts = <<p>> \o @]

IsPass(f, mem) == f = [p \in 0 .. Len(mem) |-> PassFrom(f, mem, p)]

(* f is right at 0 and from n on.                                          *)
IsPassFrom(f, mem, n) ==
  /\ f = [p \in 0 .. Len(mem) |-> f[p]]
  /\ \A p \in 0 .. Len(mem) : p = 0 \/ n <= p => f[p] = PassFrom(f, mem, p)

LEMMA PassLooksAhead ==
  ASSUME NEW mem, Len(mem) \in Nat, NEW p \in 1 .. Len(mem), strpbrk(mem, p) # 0
  PROVE  \/ Skip(mem, strpbrk(mem, p)) = 0
         \/ Skip(mem, strpbrk(mem, p)) \in p + 1 .. Len(mem)
<1> DEFINE q == strpbrk(mem, p)
<1>0. NulAfter(mem, p) \in Nat
  BY NulIsFirst
<1>1. q \in p .. NulAfter(mem, p)
  BY DelimiterIsFirst
<1>2. q \in Nat \ {0} /\ p <= q
  BY <1>0, <1>1
<1> HIDE DEF q
<1>3. Skip(mem, q) = 0 \/ Skip(mem, q) \in q + 1 .. Len(mem)
  BY <1>2, SkipGoesOn
<1>4. Skip(mem, q) = 0 \/ Skip(mem, q) \in p + 1 .. Len(mem)
  BY <1>2, <1>3
<1> QED
  BY <1>4 DEF q

LEMMA PassExists ==
  ASSUME NEW mem, Len(mem) \in Nat
  PROVE  \E f : IsPass(f, mem)
<1> DEFINE Wrong == {k \in 0 .. Len(mem) : ~ \E f : IsPassFrom(f, mem, Len(mem) + 1 - k)}
<1>1. Wrong = {}
  <2> SUFFICES ASSUME Wrong # {} PROVE FALSE
    OBVIOUS
  <2>1. PICK k \in Wrong : \A j \in Wrong : k <= j
    <3>1. Wrong \in SUBSET Nat
      OBVIOUS
    <3> HIDE DEF Wrong
    <3> QED
      BY <3>1, LeastNumber
  <2>2. CASE k = 0
    <3> DEFINE f == [p \in 0 .. Len(mem) |-> [starts |-> <<>>, last |-> "overrun"]]
    <3>1. \A p \in 0 .. Len(mem) : p = 0 \/ Len(mem) + 1 <= p => p = 0
      OBVIOUS
    <3>2. f[0] = PassFrom(f, mem, 0)
      BY DEF PassFrom
    <3>3. f = [p \in 0 .. Len(mem) |-> f[p]]
      OBVIOUS
    <3> HIDE DEF f
    <3>4. IsPassFrom(f, mem, Len(mem) + 1)
      BY <3>1, <3>2, <3>3 DEF IsPassFrom
    <3>5. Len(mem) + 1 - k = Len(mem) + 1
      BY <2>2
    <3> QED
      BY <2>1, <3>4, <3>5
  <2>3. CASE k # 0
    <3> DEFINE n == Len(mem) + 1 - k
    <3>1. k - 1 \in 0 .. Len(mem) /\ k - 1 \notin Wrong /\ n \in 1 .. Len(mem)
      BY <2>1, <2>3
    <3>2. Len(mem) + 1 - (k - 1) = n + 1
      BY <2>1
    <3>3. \E f : IsPassFrom(f, mem, Len(mem) + 1 - (k - 1))
      BY <3>1
    <3>4. PICK f : IsPassFrom(f, mem, n + 1)
      BY <3>2, <3>3
    <3> HIDE DEF n
    <3> DEFINE g == [p \in 0 .. Len(mem) |-> IF p = n THEN PassFrom(f, mem, p) ELSE f[p]]
    <3>5. ASSUME NEW p \in 0 .. Len(mem), p = 0 \/ n <= p
          PROVE  g[p] = PassFrom(g, mem, p)
      <4>1. g[p] = PassFrom(f, mem, p)
        <5>1. CASE p = n
          BY <5>1
        <5>2. CASE p # n
          <6>1. p = 0 \/ n + 1 <= p
            BY <3>5, <3>1, <5>2
          <6> QED
            BY <6>1, <5>2, <3>4 DEF IsPassFrom
        <5> QED
          BY <5>1, <5>2
      <4>2. ASSUME p # 0, strpbrk(mem, p) # 0
            PROVE  g[Skip(mem, strpbrk(mem, p))] = f[Skip(mem, strpbrk(mem, p))]
        <5> DEFINE s == Skip(mem, strpbrk(mem, p))
        <5>1. p \in 1 .. Len(mem)
          BY <4>2
        <5>2. s = 0 \/ s \in p + 1 .. Len(mem)
          BY <5>1, <4>2, PassLooksAhead
        <5> HIDE DEF s
        <5>3. s \in 0 .. Len(mem) /\ s # n
          BY <5>1, <5>2, <3>5, <3>1
        <5>4. g[s] = f[s]
          BY <5>3
        <5> HIDE DEF g
        <5> QED
          BY <5>4 DEF s
      <4> HIDE DEF g
      <4>3. PassFrom(g, mem, p) = PassFrom(f, mem, p)
        BY <4>2 DEF PassFrom
      <4> QED
        BY <4>1, <4>3
    <3>6. g = [p \in 0 .. Len(mem) |-> g[p]]
      OBVIOUS
    <3> HIDE DEF g
    <3>7. IsPassFrom(g, mem, n)
      BY <3>5, <3>6 DEF IsPassFrom
    <3> QED
      BY <3>7, <2>1 DEF n
  <2> QED
    BY <2>2, <2>3
<1>2. Len(mem) \in 0 .. Len(mem) /\ Len(mem) + 1 - Len(mem) = 1
  OBVIOUS
<1>3. PICK f : IsPassFrom(f, mem, 1)
  BY <1>1, <1>2
<1>4. \A p \in 0 .. Len(mem) : p = 0 \/ 1 <= p
  OBVIOUS
<1>5. \A p \in 0 .. Len(mem) : f[p] = PassFrom(f, mem, p)
  BY <1>3, <1>4 DEF IsPassFrom
<1>6. f = [p \in 0 .. Len(mem) |-> f[p]]
  BY <1>3 DEF IsPassFrom
<1>7. [p \in 0 .. Len(mem) |-> f[p]] = [p \in 0 .. Len(mem) |-> PassFrom(f, mem, p)]
  BY <1>5
<1> QED
  BY <1>6, <1>7 DEF IsPass

LEMMA PassIs ==
  ASSUME NEW mem, Len(mem) \in Nat
  PROVE  \E f : IsPass(f, mem) /\ CountingPass(mem) = f[1]
<1> DEFINE f == CHOOSE f : IsPass(f, mem)
<1>1. IsPass(f, mem)
  BY PassExists
<1>2. CountingPass(mem) = f[1]
  BY DEF CountingPass, IsPass, PassFrom
<1> QED
  BY <1>1, <1>2

-----------------------------------------------------------------------------
(* What it finds: tokens begin with a character, the first one where the   *)
(* pass began; in a pass that came to a NUL each has a delimiter.          *)

Passes(mem) ==
  [starts : Seq(1 .. Len(mem)), last : {"overrun", "terminated", "open"}]

Found(r, mem, p) ==
  /\ r \in Passes(mem)
  /\ \A i \in 1 .. Len(r.starts) :
       /\ mem[r.starts[i]] # NUL
       /\ r.last = "terminated" => strpbrk(mem, r.starts[i]) # 0
  /\ r.starts # <<>> => r.starts[1] = p

LEMMA FoundNothing ==
  ASSUME NEW mem, NEW p, NEW last \in {"overrun", "terminated"}
  PROVE  Found([starts |-> <<>>, last |-> last], mem, p)
<1>1. <<>> \in Seq(1 .. Len(mem)) /\ Len(<<>>) = 0
  BY EmptySeq
<1>2. \A i \in 1 .. 0 : FALSE
  OBVIOUS
<1> QED
  BY <1>1, <1>2 DEF Found, Passes

LEMMA FoundOneMore ==
  ASSUME NEW mem, Len(mem) \in Nat, NEW p \in 1 .. Len(mem), mem[p] # NUL,
         strpbrk(mem, p) # 0, NEW s, NEW rest, Found(rest, mem, s)
  PROVE  Found([rest EXCEPT !.starts = <<p>> \o @], mem, p)
<1> DEFINE starts == rest.starts
           more == <<p>> \o starts
           r == [rest EXCEPT !.starts = <<p>> \o @]
<1>1. starts \in Seq(1 .. Len(mem)) /\ <<p>> \in Seq(1 .. Len(mem))
  BY DEF Found, Passes
<1>2. r \in [starts : {more}, last : {rest.last}] /\ rest.last \in {"overrun", "terminated", "open"}
  BY DEF Found, Passes
<1>3. /\ more \in Seq(1 .. Len(mem)) /\ Len(more) = 1 + Len(starts)
      /\ more[1] = p
      /\ \A i \in 2 .. Len(more) : i - 1 \in 1 .. Len(starts) /\ more[i] = starts[i - 1]
  <2>1. Len(starts) \in Nat /\ Len(<<p>>) = 1 /\ <<p>>[1] = p
    BY <1>1, LenProperties
  <2>2. /\ more \in Seq(1 .. Len(mem)) /\ Len(more) = Len(<<p>>) + Len(starts)
        /\ \A i \in 1 .. Len(<<p>>) + Len(starts) :
             more[i] = IF i <= Len(<<p>>) THEN <<p>>[i] ELSE starts[i - Len(<<p>>)]
    BY <1>1, ConcatProperties
  <2> DEFINE one == <<p>>
  <2> HIDE DEF more, one, starts
  <2>3. Len(one) = 1 /\ one[1] = p /\ Len(starts) \in Nat
    BY <2>1 DEF one
  <2>4. /\ more \in Seq(1 .. Len(mem)) /\ Len(more) = Len(one) + Len(starts)
        /\ \A i \in 1 .. Len(one) + Len(starts) :
             more[i] = IF i <= Len(one) THEN one[i] ELSE starts[i - Len(one)]
    BY <2>2 DEF one
  <2> QED
    BY <2>3, <2>4
<1> HIDE DEF more
<1>4. ASSUME NEW i \in 1 .. Len(more)
      PROVE  /\ mem[more[i]] # NUL
             /\ rest.last = "terminated" => strpbrk(mem, more[i]) # 0
  <2>1. CASE i = 1
    BY <2>1, <1>3
  <2>2. CASE i # 1
    <3>1. Len(starts) \in Nat
      BY <1>1, LenProperties
    <3>2. i \in 2 .. Len(more)
      BY <1>3, <2>2, <3>1
    <3> QED
      BY <1>3, <3>2 DEF Found
  <2> QED
    BY <2>1, <2>2
<1>5. r.starts = more /\ r.last = rest.last /\ r \in Passes(mem)
  BY <1>2, <1>3 DEF Passes
<1> HIDE DEF r
<1>6. Found(r, mem, p)
  BY <1>3, <1>4, <1>5 DEF Found
<1> QED
  BY <1>6 DEF r, more

LEMMA PassFinds ==
  ASSUME NEW mem, Len(mem) \in Nat, NEW f, IsPass(f, mem), NEW p \in 0 .. Len(mem)
  PROVE  Found(f[p], mem, p)
<1> DEFINE Wrong == {k \in 0 .. Len(mem) : ~ Found(f[Len(mem) - k], mem, Len(mem) - k)}
<1>1. Wrong = {}
  <2> SUFFICES ASSUME Wrong # {} PROVE FALSE
    OBVIOUS
  <2>1. PICK k \in Wrong : \A j \in Wrong : k <= j
    <3>1. Wrong \in SUBSET Nat
      OBVIOUS
    <3> HIDE DEF Wrong
    <3> QED
      BY <3>1, LeastNumber
  <2> DEFINE q == Len(mem) - k
  <2>2. q \in 0 .. Len(mem) /\ ~ Found(f[q], mem, q)
    BY <2>1
  <2>3. f[q] = PassFrom(f, mem, q)
    BY <2>2 DEF IsPass
  <2>4. ASSUME NEW s \in q + 1 .. Len(mem) PROVE Found(f[s], mem, s)
    <3>1. Len(mem) - s \in 0 .. Len(mem) /\ ~(k <= Len(mem) - s)
          /\ Len(mem) - (Len(mem) - s) = s
      BY <2>1, <2>2
    <3>2. Len(mem) - s \notin Wrong
      BY <2>1, <3>1
    <3>3. Found(f[Len(mem) - (Len(mem) - s)], mem, Len(mem) - (Len(mem) - s))
      BY <3>1, <3>2
    <3> QED
      BY <3>1, <3>3
  <2>5. Found(f[0], mem, 0)
    <3>1. f[0] = PassFrom(f, mem, 0)
      BY DEF IsPass
    <3> QED
      BY <3>1, FoundNothing DEF PassFrom
  <2> HIDE DEF q
  <2>6. q \in 1 .. Len(mem)
    BY <2>2, <2>5
  <2>7. CASE mem[q] = NUL
    <3>1. f[q] = [starts |-> <<>>, last |-> "terminated"]
      BY <2>3, <2>6, <2>7 DEF PassFrom
    <3>2. Found([starts |-> <<>>, last |-> "terminated"], mem, q)
      BY FoundNothing
    <3> QED
      BY <2>2, <3>1, <3>2
  <2>8. CASE mem[q] # NUL /\ strpbrk(mem, q) = 0
    <3>1. f[q] = [starts |-> <<q>>, last |-> "open"]
      BY <2>3, <2>6, <2>8 DEF PassFrom
    <3>2. <<q>> \in Seq(1 .. Len(mem)) /\ Len(<<q>>) = 1 /\ <<q>>[1] = q
      BY <2>6
    <3>3. \A i \in 1 .. 1 : <<q>>[i] = q
      BY <3>2
    <3>4. Found([starts |-> <<q>>, last |-> "open"], mem, q)
      BY <2>8, <3>2, <3>3 DEF Found, Passes
    <3> QED
      BY <2>2, <3>1, <3>4
  <2>9. CASE mem[q] # NUL /\ strpbrk(mem, q) # 0
    <3> DEFINE s == Skip(mem, strpbrk(mem, q))
    <3>1. f[q] = [f[s] EXCEPT !.starts = <<q>> \o @]
      BY <2>3, <2>6, <2>9 DEF PassFrom
    <3>2. s = 0 \/ s \in q + 1 .. Len(mem)
      BY <2>6, <2>9, PassLooksAhead
    <3> HIDE DEF s
    <3>3. Found(f[s], mem, s)
      BY <3>2, <2>4, <2>5
    <3>4. Found([f[s] EXCEPT !.starts = <<q>> \o @], mem, q)
      BY <3>3, <2>6, <2>9, FoundOneMore
    <3> QED
      BY <2>2, <3>1, <3>4, Zenon
  <2> QED
    BY <2>7, <2>8, <2>9
<1>2. Len(mem) - p \in 0 .. Len(mem) /\ Len(mem) - (Len(mem) - p) = p
  OBVIOUS
<1>3. Found(f[Len(mem) - (Len(mem) - p)], mem, Len(mem) - (Len(mem) - p))
  BY <1>1, <1>2
<1> QED
  BY <1>2, <1>3

-----------------------------------------------------------------------------
(* The tokens.                                                             *)

(* t is what mem holds from a position up to a delimiter or a NUL.         *)
IsPiece(mem, t, from, upto) ==
  /\ from \in 1 .. Len(mem) /\ upto \in from .. Len(mem)
  /\ t = SubSeq(mem, from, upto - 1)
  /\ NoneOf(mem, from, upto - 1, {NUL})
  /\ mem[upto] \in Delims \cup {NUL}

(* t is what mem holds in front of the next delimiter.                     *)
IsCut(mem, t, from) ==
  /\ IsPiece(mem, t, from, strpbrk(mem, from))
  /\ NoneOf(mem, from, strpbrk(mem, from) - 1, Delims)
  /\ mem[strpbrk(mem, from)] \in Delims

(* t is the rest of the string, and there is a delimiter in it.            *)
IsRest(mem, t, from) ==
  /\ IsPiece(mem, t, from, NulAfter(mem, from))
  /\ \E q \in from .. NulAfter(mem, from) - 1 : mem[q] \in Delims

LEMMA EachToken ==
  ASSUME DelimAssumption,
         NEW mem, Len(mem) \in Nat, NEW p \in 1 .. Len(mem), strpbrk(mem, p) # 0
  PROVE  /\ IsCut(mem, SubSeq(mem, p, strpbrk(mem, p) - 1), p)
         /\ IsRest(mem, SubSeq(mem, p, NulAfter(mem, p) - 1), p)
<1> DEFINE q == strpbrk(mem, p)
           n == NulAfter(mem, p)
<1>1. /\ n = 0 \/ n \in p .. Len(mem)
      /\ n # 0 => mem[n] = NUL
      /\ n # 0 => NoneOf(mem, p, n - 1, {NUL})
  <2>1. p \in Nat \ {0}
    OBVIOUS
  <2> QED
    BY ONLY <2>1, Len(mem) \in Nat, NulIsFirst, Zenon
<1>2. q \in p .. n /\ mem[q] \in Delims /\ NoneOf(mem, p, q - 1, Delims)
  BY DelimiterIsFirst
<1>3. n \in p .. Len(mem) /\ q # n
  BY <1>1, <1>2 DEF DelimAssumption
<1> HIDE DEF q, n
<1>4. q \in p .. n - 1 /\ q \in p .. Len(mem)
  BY <1>2, <1>3
<1>5. NoneOf(mem, p, q - 1, {NUL})
  BY <1>1, <1>3, <1>4 DEF NoneOf
<1> QED
  BY <1>1, <1>2, <1>3, <1>4, <1>5 DEF IsCut, IsRest, IsPiece, q, n

(* What splitByDelimStr returns when it returns tokens: pieces of the      *)
(* memory, all but the last of them cut in front of a delimiter, the last  *)
(* one a rest of a string with its delimiters.                             *)
LEMMA TokensAre ==
  ASSUME DelimAssumption, NEW mem, Len(mem) \in Nat \ {0},
         splitByDelimStr(mem).outcome = "tokens"
  PROVE  \E starts \in Seq(1 .. Len(mem)) :
           /\ starts # <<>> /\ starts[1] = 1
           /\ DOMAIN splitByDelimStr(mem).tokens = 1 .. Len(starts)
           /\ Len(splitByDelimStr(mem).tokens) = Len(starts)
           /\ \A i \in 1 .. Len(starts) :
                IF i < Len(starts)
                THEN IsCut(mem, splitByDelimStr(mem).tokens[i], starts[i])
                ELSE IsRest(mem, splitByDelimStr(mem).tokens[i], starts[i])
<1>1. PICK f : IsPass(f, mem) /\ CountingPass(mem) = f[1]
  BY PassIs
<1>2. Found(CountingPass(mem), mem, 1)
  BY <1>1, PassFinds
<1> DEFINE pass == CountingPass(mem)
           starts == pass.starts
           tokenEnd(i) == IF i < Len(starts)
                          THEN strpbrk(mem, starts[i])
                          ELSE NulAfter(mem, starts[i])
           tokens == [i \in 1 .. Len(starts) |->
                        SubSeq(mem, starts[i], tokenEnd(i) - 1)]
<1>3. starts \in Seq(1 .. Len(mem)) /\ pass.last \in {"overrun", "terminated", "open"}
  BY <1>2 DEF Found, Passes
<1>4. Len(starts) \in Nat
  BY <1>3, LenProperties
<1>5. /\ pass.last = "terminated" /\ Len(starts) # 0
      /\ splitByDelimStr(mem).tokens = tokens
  BY <1>3 DEF splitByDelimStr
<1>6. /\ starts # <<>> /\ starts[1] = 1
      /\ \A i \in 1 .. Len(starts) :
           starts[i] \in 1 .. Len(mem) /\ strpbrk(mem, starts[i]) # 0
  BY <1>2, <1>3, <1>5, ElementOfSeq, EmptySeq DEF Found
<1>7. DOMAIN tokens = 1 .. Len(starts) /\ Len(tokens) = Len(starts)
  BY <1>4
<1>8. ASSUME NEW i \in 1 .. Len(starts)
      PROVE  IF i < Len(starts) THEN IsCut(mem, tokens[i], starts[i])
             ELSE IsRest(mem, tokens[i], starts[i])
  <2> DEFINE s == starts[i]
  <2>1. s \in 1 .. Len(mem) /\ strpbrk(mem, s) # 0
    BY <1>6
  <2>2. tokens[i] = SubSeq(mem, s, (IF i < Len(starts) THEN strpbrk(mem, s)
                                    ELSE NulAfter(mem, s)) - 1)
    OBVIOUS
  <2> HIDE DEF s, tokens
  <2>3. /\ IsCut(mem, SubSeq(mem, s, strpbrk(mem, s) - 1), s)
        /\ IsRest(mem, SubSeq(mem, s, NulAfter(mem, s) - 1), s)
    BY <2>1, EachToken
  <2>4. CASE i < Len(starts)
    BY <2>2, <2>3, <2>4 DEF s
  <2>5. CASE ~(i < Len(starts))
    BY <2>2, <2>3, <2>5 DEF s
  <2> QED
    BY <2>4, <2>5
<1> HIDE DEF starts, tokens
<1> QED
  BY <1>3, <1>5, <1>6, <1>7, <1>8

LEMMA NoTokensElse ==
  ASSUME NEW mem, splitByDelimStr(mem).outcome # "tokens"
  PROVE  splitByDelimStr(mem).tokens = <<>>
BY DEF splitByDelimStr

-----------------------------------------------------------------------------
(* inbuf.  What lies behind the text and its NUL is what earlier texts     *)
(* have left, cut off where a later one ended, or what malloc left: every  *)
(* piece of it that a delimiter or a NUL ends was received as it stands,   *)
(* or lies behind all that was ever stored.                                *)

Assumptions == InBufAssumption /\ DelimAssumption

BufTypes ==
  /\ inbuf \in [1 .. MAX_MSG_LEN + 1 -> Chars \cup {NUL}]
  /\ received \in Seq(Chars)
  /\ inbuf_size \in 0 .. MAX_MSG_LEN /\ inbuf_size <= Len(received)
  /\ leftover \in [1 .. MAX_MSG_LEN + 1 -> Chars \cup {NUL}]

Window ==
  \A k \in 1 .. inbuf_size :
    inbuf[k] = received[Len(received) - inbuf_size + k]

PieceAt(i, j) ==
  NoneOf(inbuf, i, j - 1, {NUL}) /\ inbuf[j] \in Delims \cup {NUL}

ReceivedAt(i, j, d) ==
  \A k \in i .. j - 1 :
    d + k \in 1 .. Len(received) /\ inbuf[k] = received[d + k]

Pieces ==
  \A i \in 1 .. MAX_MSG_LEN + 1 : \A j \in i .. MAX_MSG_LEN + 1 :
    PieceAt(i, j) => \/ \E d \in Int : ReceivedAt(i, j, d)
                     \/ dumped = 0 /\ i > inbuf_size + 1

Untouched ==
  dumped = 0 =>
    \A k \in 1 .. MAX_MSG_LEN + 1 : k > inbuf_size + 1 => inbuf[k] = leftover[k]

FullHasOne ==
  inbuf_size = MAX_MSG_LEN =>
    \E k \in 1 .. MAX_MSG_LEN : inbuf[k] \in Delims

IInvBuf ==
  BufTypes /\ Window /\ Pieces /\ Untouched /\ FullHasOne /\ NeverMixed

LEMMA ChunkFits ==
  ASSUME Assumptions, BufTypes, NEW chunk \in Chunks
  PROVE  chunk \in Seq(Chars) /\ Len(chunk) \in 1 .. Room
<1> DEFINE some == MaxReceived - Len(received)
           top == Min({Room, some})
<1>1. Room \in Int /\ some \in Int
  BY LenProperties DEF Assumptions, InBufAssumption, BufTypes, Room
<1>2. top \in {Room, some} /\ \A x \in {Room, some} : top <= x
  <2> HIDE DEF some
  <2>1. \E m \in {Room, some} : \A x \in {Room, some} : m <= x
    <3>1. CASE Room <= some
      BY <1>1, <3>1
    <3>2. CASE some <= Room
      BY <1>1, <3>2
    <3> QED
      BY <1>1, <3>1, <3>2
  <2> QED
    BY <2>1 DEF Min
<1>3. top \in Int /\ top <= Room
  BY <1>1, <1>2
<1> HIDE DEF top
<1>4. PICK n \in 1 .. top : chunk \in [1 .. n -> Chars]
  BY DEF Chunks, top
<1>5. n \in Nat /\ n \in 1 .. Room
  BY <1>1, <1>3
<1>6. chunk \in Seq(Chars) /\ Len(chunk) = n
  BY <1>4, <1>5
<1> QED
  BY <1>5, <1>6

(* What a recv does to the memory, whatever becomes of the text.           *)
LEMMA StoredIs ==
  ASSUME Assumptions, BufTypes, Window, Pieces, NEW chunk \in Chunks, Got(chunk),
         NEW n, n = inbuf_size + Len(chunk)
  PROVE  /\ n \in 1 .. MAX_MSG_LEN
         /\ inbuf' \in [1 .. MAX_MSG_LEN + 1 -> Chars \cup {NUL}]
         /\ received' \in Seq(Chars) /\ n <= Len(received')
         /\ inbuf'[n + 1] = NUL
         /\ \A k \in 1 .. n : /\ inbuf'[k] = received'[Len(received') - n + k]
                              /\ inbuf'[k] \in Chars
         /\ \A k \in 1 .. MAX_MSG_LEN + 1 : k > n + 1 => inbuf'[k] = inbuf[k]
         /\ \A i \in 1 .. MAX_MSG_LEN + 1 : \A j \in i .. MAX_MSG_LEN + 1 :
              PieceAt(i, j)' => \/ \E d \in Int : ReceivedAt(i, j, d)'
                                \/ dumped = 0 /\ i > n + 1
<1> DEFINE s == inbuf_size
           c == Len(chunk)
           l == Len(received)
<1>1. /\ chunk \in Seq(Chars) /\ c \in Nat \ {0} /\ s \in Nat /\ l \in Nat
      /\ MAX_MSG_LEN \in Nat /\ n = s + c /\ n <= MAX_MSG_LEN /\ s <= l
  BY ChunkFits, LenProperties DEF Room, BufTypes, Assumptions, InBufAssumption
<1>2. /\ received' \in Seq(Chars) /\ Len(received') = l + c
      /\ \A i \in 1 .. l + c :
           received'[i] = IF i <= l THEN received[i] ELSE chunk[i - l]
  BY <1>1, ConcatProperties DEF Got, BufTypes
<1>3. /\ DOMAIN inbuf = 1 .. MAX_MSG_LEN + 1
      /\ \A k \in 1 .. MAX_MSG_LEN + 1 : inbuf[k] \in Chars \cup {NUL}
  BY DEF BufTypes
<1>4. /\ inbuf' = [k \in 1 .. MAX_MSG_LEN + 1 |-> inbuf'[k]]
      /\ \A k \in 1 .. MAX_MSG_LEN + 1 :
           inbuf'[k] = IF k \in s + 1 .. s + c THEN chunk[k - s]
                       ELSE IF k = s + c + 1 THEN NUL ELSE inbuf[k]
  BY <1>3 DEF Got, Stored
<1>5. \A k \in 1 .. c : chunk[k] \in Chars
  BY <1>1, ElementOfSeq
<1> HIDE DEF s, c, l
<1>6. \A k \in s + 1 .. s + c : k - s \in 1 .. c
  BY <1>1
<1>7. inbuf' \in [1 .. MAX_MSG_LEN + 1 -> Chars \cup {NUL}]
  <2>1. \A k \in 1 .. MAX_MSG_LEN + 1 : inbuf'[k] \in Chars \cup {NUL}
    BY <1>3, <1>4, <1>5, <1>6
  <2> QED
    BY <1>4, <2>1
<1>8. \A k \in 1 .. s : inbuf[k] = received[l - s + k]
  BY DEF Window, s, l
<1>9. ASSUME NEW k \in 1 .. n
      PROVE  inbuf'[k] = received'[Len(received') - n + k]
  <2> DEFINE m == l - s + k
  <2>0. m \in 1 .. l + c /\ Len(received') - n + k = m
    BY <1>1, <1>2
  <2> HIDE DEF m
  <2>1. CASE k <= s
    <3>1. k \in 1 .. s /\ ~(k \in s + 1 .. s + c) /\ k # s + c + 1
          /\ k \in 1 .. MAX_MSG_LEN + 1
      BY <1>1, <2>1
    <3>2. m <= l
      BY <1>1, <2>1 DEF m
    <3>3. inbuf'[k] = inbuf[k]
      BY <1>4, <3>1
    <3>4. received'[m] = received[m]
      BY <1>2, <2>0, <3>2
    <3>5. inbuf[k] = received[m]
      BY <1>8, <3>1 DEF m
    <3> QED
      BY <2>0, <3>3, <3>4, <3>5
  <2>2. CASE ~(k <= s)
    <3>1. k \in s + 1 .. s + c /\ k \in 1 .. MAX_MSG_LEN + 1
      BY <1>1, <2>2
    <3>2. ~(m <= l) /\ m - l = k - s
      BY <1>1, <2>2 DEF m
    <3>3. inbuf'[k] = chunk[k - s]
      BY <1>4, <3>1
    <3>4. received'[m] = chunk[m - l]
      BY <1>2, <2>0, <3>2
    <3> QED
      BY <2>0, <3>2, <3>3, <3>4
  <2> QED
    BY <2>1, <2>2
<1>10. \A k \in 1 .. n : /\ Len(received') - n + k \in 1 .. Len(received')
                         /\ received'[Len(received') - n + k] \in Chars
  <2>1. \A k \in 1 .. n : Len(received') - n + k \in 1 .. Len(received')
    BY <1>1, <1>2
  <2> QED
    BY <2>1, <1>2, ElementOfSeq
<1>11. n + 1 \in 1 .. MAX_MSG_LEN + 1 /\ ~(n + 1 \in s + 1 .. s + c)
       /\ n + 1 = s + c + 1
  BY <1>1
<1>12. inbuf'[n + 1] = NUL
  BY <1>4, <1>11
<1>13. ASSUME NEW i \in 1 .. MAX_MSG_LEN + 1, NEW j \in i .. MAX_MSG_LEN + 1,
              PieceAt(i, j)'
       PROVE  \/ \E d \in Int : ReceivedAt(i, j, d)'
              \/ dumped = 0 /\ i > n + 1
  <2>1. CASE j <= n + 1
    <3>0. Len(received') - n \in Int
      BY <1>1, <1>2
    <3>1. PICK d \in Int : d = Len(received') - n
      BY <3>0
    <3>2. \A k \in i .. j - 1 : k \in 1 .. n
      BY <1>1, <2>1
    <3>3. \A k \in i .. j - 1 :
            d + k \in 1 .. Len(received') /\ inbuf'[k] = received'[d + k]
      BY <1>9, <1>10, <3>1, <3>2
    <3>4. ReceivedAt(i, j, d)'
      BY <3>3 DEF ReceivedAt
    <3> QED
      BY <3>4
  <2>2. CASE n + 1 < j
    <3>1. ~(i <= n + 1)
      <4> SUFFICES ASSUME i <= n + 1 PROVE FALSE
        OBVIOUS
      <4>1. n + 1 \in i .. j - 1
        BY <1>1, <2>2
      <4> QED
        BY <4>1, <1>12, <1>13 DEF PieceAt, NoneOf
    <3>2. \A k \in i .. j : /\ k \in 1 .. MAX_MSG_LEN + 1
                            /\ ~(k \in s + 1 .. s + c) /\ k # s + c + 1
      BY <1>1, <3>1
    <3>3. \A k \in i .. j : inbuf'[k] = inbuf[k]
      BY <1>4, <3>2
    <3>4. \A k \in i .. j - 1 : k \in i .. j
      OBVIOUS
    <3>5. PieceAt(i, j)
      BY <1>13, <3>3, <3>4 DEF PieceAt, NoneOf
    <3>6. (\E d \in Int : ReceivedAt(i, j, d)) \/ dumped = 0
      BY <3>5 DEF Pieces
    <3>7. CASE dumped = 0
      BY <1>1, <3>1, <3>7
    <3>8. CASE \E d \in Int : ReceivedAt(i, j, d)
      <4>1. PICK d \in Int : ReceivedAt(i, j, d)
        BY <3>8
      <4>2. \A k \in i .. j - 1 : d + k \in 1 .. l /\ inbuf[k] = received[d + k]
        BY <4>1 DEF ReceivedAt, l
      <4>3. \A m \in 1 .. l : m \in 1 .. Len(received') /\ received'[m] = received[m]
        BY <1>1, <1>2
      <4>4. ReceivedAt(i, j, d)'
        BY <3>3, <3>4, <4>2, <4>3 DEF ReceivedAt
      <4> QED
        BY <4>4
    <3> QED
      BY <3>6, <3>7, <3>8
  <2> QED
    BY <1>1, <2>1, <2>2
<1>14. ASSUME NEW k \in 1 .. MAX_MSG_LEN + 1, k > n + 1
       PROVE  inbuf'[k] = inbuf[k]
  <2>1. ~(k \in s + 1 .. s + c) /\ k # s + c + 1
    BY <1>1, <1>14
  <2> QED
    BY <1>4, <2>1
<1>15. n \in 1 .. MAX_MSG_LEN /\ n <= Len(received')
  BY <1>1, <1>2
<1> QED
  BY <1>2, <1>7, <1>9, <1>10, <1>12, <1>13, <1>14, <1>15

LEMMA PieceStandsIn ==
  ASSUME NEW mem, NEW S, NEW r \in Seq(S), NEW i \in Nat, NEW j \in Nat, i <= j,
         NEW d \in Int, NEW from \in Nat, d + i - 1 \in from .. Len(r),
         \A k \in i .. j - 1 : d + k \in 1 .. Len(r) /\ mem[k] = r[d + k]
  PROVE  StandsIn(SubSeq(mem, i, j - 1), r, from)
<1> DEFINE t == SubSeq(mem, i, j - 1)
           u == SubSeq(r, d + i, d + j - 1)
<1>1. /\ Len(r) \in Nat
      /\ \A m \in 1 .. Len(r) : r[m] \in S
  BY LenProperties, ElementOfSeq
<1>2. CASE i = j
  <2>1. t = <<>> /\ Len(t) = 0
    BY <1>2, SubSeqEmpty, EmptySeq
  <2> DEFINE k == d + i - 1
  <2>2. SubSeq(r, k + 1, k) = <<>>
    BY SubSeqEmpty
  <2>3. k \in from .. Len(r) - 0 /\ k + 0 = k
    BY <1>1
  <2> HIDE DEF t, k
  <2>4. StandsIn(t, r, from)
    BY <2>1, <2>2, <2>3 DEF StandsIn
  <2> QED
    BY <2>4 DEF t
<1>3. CASE i < j
  <2>1. \A k \in i .. j - 1 : mem[k] \in S
    BY <1>1
  <2>2. /\ i \in Int /\ j - 1 \in Int /\ i <= j - 1 /\ j - 1 - i + 1 = j - i
        /\ d + i \in Int /\ d + j - 1 \in Int /\ d + i <= d + j - 1
        /\ d + j - 1 - (d + i) + 1 = j - i
    BY <1>3
  <2>3. /\ t \in Seq(S) /\ Len(t) = j - i
        /\ \A x \in 1 .. j - i : t[x] = mem[i + x - 1]
    BY <2>1, <2>2, SubSeqProperties
  <2>4. i \in i .. j - 1 /\ j - 1 \in i .. j - 1
    BY <1>3
  <2>5. d + i \in 1 .. Len(r) /\ d + (j - 1) \in 1 .. Len(r)
    BY <2>4
  <2>6. \A m \in d + i .. d + j - 1 : r[m] \in S
    BY <1>1, <2>5
  <2>7. /\ u \in Seq(S) /\ Len(u) = j - i
        /\ \A x \in 1 .. j - i : u[x] = r[d + i + x - 1]
    BY <2>2, <2>6, SubSeqProperties
  <2>8. ASSUME NEW x \in 1 .. j - i PROVE t[x] = u[x]
    <3>1. PICK k \in i .. j - 1 : k = i + x - 1
      OBVIOUS
    <3>2. d + i + x - 1 = d + k
      BY <3>1
    <3>3. mem[k] = r[d + k]
      OBVIOUS
    <3> HIDE DEF t, u
    <3> QED
      BY <2>3, <2>7, <3>1, <3>2, <3>3
  <2>9. t = u
    <3> HIDE DEF t, u
    <3> QED
      BY <2>3, <2>7, <2>8, SeqEqual
  <2> DEFINE k == d + i - 1
  <2>10. /\ k \in from .. Len(r) - (j - i) /\ k + 1 = d + i
         /\ k + (j - i) = d + j - 1
    BY <1>1, <2>5
  <2>11. t = SubSeq(r, k + 1, k + (j - i))
    BY <2>9, <2>10
  <2> HIDE DEF k, t
  <2>12. StandsIn(t, r, from)
    BY <2>3, <2>10, <2>11 DEF StandsIn
  <2> QED
    BY <2>12 DEF t
<1> QED
  BY <1>2, <1>3

LEMMA BufferInit ==
  ASSUME Assumptions, InInit
  PROVE  IInvBuf
<1> USE DEF Assumptions, InBufAssumption
<1>1. /\ MAX_MSG_LEN \in Nat /\ MAX_MSG_LEN # 0
      /\ leftover \in [1 .. MAX_MSG_LEN + 1 -> Chars \cup {NUL}]
      /\ inbuf = [leftover EXCEPT ![1] = NUL]
  BY DEF InInit, Chars
<1>2. /\ inbuf \in [1 .. MAX_MSG_LEN + 1 -> Chars \cup {NUL}] /\ inbuf[1] = NUL
      /\ \A k \in 1 .. MAX_MSG_LEN + 1 : k > 1 => inbuf[k] = leftover[k]
  BY <1>1
<1>3. /\ received = <<>> /\ inbuf_size = 0 /\ dumped = 0 /\ handled = <<>>
      /\ Len(<<>>) = 0 /\ \A S : <<>> \in Seq(S)
  BY EmptySeq DEF InInit
<1>4. BufTypes
  BY <1>1, <1>2, <1>3 DEF BufTypes
<1>5. Window
  BY <1>3 DEF Window
<1>6. Pieces
  <2> SUFFICES ASSUME NEW i \in 1 .. MAX_MSG_LEN + 1,
                      NEW j \in i .. MAX_MSG_LEN + 1, PieceAt(i, j)
               PROVE  \/ \E d \in Int : ReceivedAt(i, j, d)
                      \/ dumped = 0 /\ i > inbuf_size + 1
    BY DEF Pieces
  <2>1. CASE i = j
    BY <2>1 DEF ReceivedAt
  <2>2. CASE i # j
    <3>1. i \in i .. j - 1
      BY <1>1, <2>2
    <3>2. i # 1
      BY <3>1, <1>2 DEF PieceAt, NoneOf
    <3> QED
      BY <3>2, <1>1, <1>3
  <2> QED
    BY <2>1, <2>2
<1>7. Untouched
  BY <1>2, <1>3 DEF Untouched
<1>8. FullHasOne
  BY <1>1, <1>3 DEF FullHasOne
<1>9. NeverMixed
  BY <1>3 DEF NeverMixed, ToSet
<1> QED
  BY <1>4, <1>5, <1>6, <1>7, <1>8, <1>9 DEF IInvBuf

LEMMA DelimiterInText ==
  ASSUME Assumptions, NEW mem, Len(mem) \in Nat, NEW n \in Nat, n < Len(mem),
         mem[n + 1] = NUL, strpbrk(mem, 1) # 0
  PROVE  \E k \in 1 .. n : mem[k] \in Delims
<1> DEFINE w == NulAfter(mem, 1)
           q == strpbrk(mem, 1)
<1>1. \/ w = 0 /\ NoneOf(mem, 1, Len(mem), {NUL})
      \/ w \in 1 .. Len(mem) /\ NoneOf(mem, 1, w - 1, {NUL})
  <2>1. 1 \in Nat \ {0}
    OBVIOUS
  <2> QED
    BY ONLY <2>1, Len(mem) \in Nat, NulIsFirst, Zenon
<1>2. q \in 1 .. w /\ mem[q] \in Delims
  BY DelimiterIsFirst
<1> HIDE DEF q, w
<1>3. w \in 1 .. Len(mem) /\ w <= n + 1
  BY <1>1, <1>2 DEF NoneOf
<1>4. q # n + 1
  BY <1>2 DEF Assumptions, DelimAssumption
<1> QED
  BY <1>2, <1>3, <1>4

(* The lines that are handled are cut from pieces of the memory.           *)
LEMMA LinesArePieces ==
  ASSUME Assumptions, BufTypes', Pieces', Untouched',
         splitByDelimStr(inbuf').outcome = "tokens",
         handled' = splitByDelimStr(inbuf').tokens
  PROVE  NeverMixed'
<1>1. Len(inbuf') = MAX_MSG_LEN + 1 /\ MAX_MSG_LEN + 1 \in Nat \ {0}
  BY DEF BufTypes, Assumptions, InBufAssumption
<1>2. PICK starts \in Seq(1 .. Len(inbuf')) :
        /\ DOMAIN handled' = 1 .. Len(starts)
        /\ \A i \in 1 .. Len(starts) :
             IF i < Len(starts) THEN IsCut(inbuf', handled'[i], starts[i])
             ELSE IsRest(inbuf', handled'[i], starts[i])
  BY <1>1, TokensAre DEF Assumptions
<1>3. ASSUME NEW t \in ToSet(handled')
      PROVE  \/ StandsIn(t, received', 0)
             \/ dumped' = 0 /\ StandsIn(t, leftover', inbuf_size' + 1)
  <2>1. PICK x \in 1 .. Len(starts) : t = handled'[x]
    BY <1>2 DEF ToSet
  <2>2. \E i, j : IsPiece(inbuf', t, i, j)
    BY <1>2, <2>1 DEF IsCut, IsRest
  <2>3. PICK i : \E j : IsPiece(inbuf', t, i, j)
    BY <2>2
  <2>4. PICK j : IsPiece(inbuf', t, i, j)
    BY <2>3
  <2>5. /\ i \in 1 .. MAX_MSG_LEN + 1 /\ j \in i .. MAX_MSG_LEN + 1
        /\ t = SubSeq(inbuf', i, j - 1) /\ PieceAt(i, j)'
    BY <2>4, <1>1 DEF IsPiece, PieceAt
  <2>6. /\ i \in Nat /\ j \in Nat /\ i <= j
        /\ received' \in Seq(Chars) /\ Len(received') \in Nat
    BY <1>1, <2>5, LenProperties DEF BufTypes
  <2>7. CASE \E d \in Int : ReceivedAt(i, j, d)'
    <3>1. PICK d \in Int : ReceivedAt(i, j, d)'
      BY <2>7
    <3>2. \A k \in i .. j - 1 : d + k \in 1 .. Len(received') /\ inbuf'[k] = received'[d + k]
      BY <3>1 DEF ReceivedAt
    <3>3. CASE i < j
      <4>1. i \in i .. j - 1
        BY <2>6, <3>3
      <4>2. d + i \in 1 .. Len(received')
        BY <3>2, <4>1
      <4>3. d + i - 1 \in 0 .. Len(received')
        <5>1. PICK l \in Nat : l = Len(received')
          BY <2>6
        <5>2. d \in Int /\ i \in Int /\ d + i \in 1 .. l
          BY <2>6, <4>2, <5>1
        <5>3. d + i - 1 \in 0 .. l
          BY ONLY <5>2, l \in Nat
        <5> QED
          BY <5>1, <5>3
      <4>4. StandsIn(SubSeq(inbuf', i, j - 1), received', 0)
        BY <2>6, <3>2, <4>3, PieceStandsIn
      <4> QED
        BY <2>5, <4>4
    <3>4. CASE i = j
      <4>1. PICK e \in Int : e = 1 - i
        BY <2>6
      <4>2. e + i - 1 \in 0 .. Len(received')
        BY <2>6, <4>1
      <4>3. \A k \in i .. j - 1 : e + k \in 1 .. Len(received') /\ inbuf'[k] = received'[e + k]
        BY <2>6, <3>4
      <4>4. StandsIn(SubSeq(inbuf', i, j - 1), received', 0)
        BY <2>6, <4>2, <4>3, PieceStandsIn
      <4> QED
        BY <2>5, <4>4
    <3> QED
      BY <2>6, <3>3, <3>4
  <2>8. CASE dumped' = 0 /\ i > inbuf_size' + 1
    <3>1. /\ leftover' \in [1 .. MAX_MSG_LEN + 1 -> Chars \cup {NUL}]
          /\ MAX_MSG_LEN \in Nat /\ inbuf_size' \in Nat
      BY DEF BufTypes, Assumptions, InBufAssumption
    <3>l. PICK l : l = leftover'
      OBVIOUS
    <3>s. inbuf_size' \in Nat
      BY <3>1
    <3>n. PICK n \in Nat : n = inbuf_size'
      BY <3>s
    <3>f. PICK from \in Nat : from = n + 1
      OBVIOUS
    <3>2. l = leftover' /\ from = inbuf_size' + 1
      BY <3>l, <3>n, <3>f
    <3>3. l \in [1 .. MAX_MSG_LEN + 1 -> Chars \cup {NUL}]
      BY <3>1, <3>2
    <3>4. l \in Seq(Chars \cup {NUL}) /\ Len(l) = MAX_MSG_LEN + 1
      BY ONLY <3>1, <3>3
    <3>5. \A k \in i .. j - 1 : k \in 1 .. Len(l) /\ inbuf'[k] = l[k]
      BY <1>1, <2>5, <2>6, <2>8, <3>2, <3>4 DEF Untouched
    <3>6. PICK d \in Int : d = 0
      OBVIOUS
    <3>7. \A k \in i .. j - 1 : d + k \in 1 .. Len(l) /\ inbuf'[k] = l[d + k]
      BY <3>5, <3>6, <2>6
    <3>8. d + i - 1 \in from .. Len(l)
      <4>m. Len(l) = MAX_MSG_LEN + 1 /\ MAX_MSG_LEN \in Nat
        BY <3>1, <3>4
      <4>i. i \in 1 .. MAX_MSG_LEN + 1 /\ i > from
        BY <2>5, <2>8, <3>2
      <4>1. d = 0 /\ i \in from + 1 .. Len(l) /\ Len(l) \in Nat
        BY ONLY <4>m, <4>i, <3>6, from \in Nat
      <4>2. d + i - 1 = i - 1
        BY <4>1
      <4> QED
        BY ONLY <4>1, <4>2, from \in Nat
    <3>9. StandsIn(SubSeq(inbuf', i, j - 1), l, from)
      BY <2>6, <3>4, <3>7, <3>8, PieceStandsIn
    <3> QED
      BY <2>5, <2>8, <3>2, <3>9
  <2> QED
    BY <2>5, <2>7, <2>8 DEF Pieces
<1> QED
  BY <1>3 DEF NeverMixed

LEMMA BufferStep ==
  ASSUME Assumptions, IInvBuf, [InNext]_in_vars
  PROVE  IInvBuf'
<1> USE DEF IInvBuf
<1>1. ASSUME NEW chunk \in Chunks, Got(chunk),
             NEW n, n = inbuf_size + Len(chunk),
             \/ inbuf_size' = n /\ dumped' = dumped
             \/ inbuf_size' = 0 /\ n = MAX_MSG_LEN /\ dumped' = Len(received')
      PROVE  /\ BufTypes' /\ Window' /\ Pieces' /\ Untouched'
             /\ n \in 1 .. MAX_MSG_LEN
             /\ Len(inbuf') = MAX_MSG_LEN + 1 /\ inbuf'[n + 1] = NUL
  <2>1. /\ n \in 1 .. MAX_MSG_LEN
        /\ inbuf' \in [1 .. MAX_MSG_LEN + 1 -> Chars \cup {NUL}]
        /\ received' \in Seq(Chars) /\ n <= Len(received')
        /\ inbuf'[n + 1] = NUL
        /\ \A k \in 1 .. n : inbuf'[k] = received'[Len(received') - n + k]
        /\ \A k \in 1 .. MAX_MSG_LEN + 1 : k > n + 1 => inbuf'[k] = inbuf[k]
        /\ \A i \in 1 .. MAX_MSG_LEN + 1 : \A j \in i .. MAX_MSG_LEN + 1 :
             PieceAt(i, j)' => \/ \E d \in Int : ReceivedAt(i, j, d)'
                               \/ dumped = 0 /\ i > n + 1
    BY <1>1, StoredIs
  <2>2. /\ Len(received') \in Nat /\ MAX_MSG_LEN \in Nat
        /\ Len(inbuf') = MAX_MSG_LEN + 1 /\ leftover' = leftover
    BY <2>1, <1>1, LenProperties DEF Assumptions, InBufAssumption, Got
  <2>3. CASE inbuf_size' = n /\ dumped' = dumped
    <3>1. BufTypes' /\ Window'
      BY <2>1, <2>2, <2>3 DEF BufTypes, Window
    <3>2. Pieces'
      BY <2>1, <2>3 DEF Pieces
    <3>3. Untouched'
      <4>1. inbuf_size \in Nat /\ Len(chunk) \in Nat
        BY ChunkFits, LenProperties DEF BufTypes
      <4>2. \A k \in 1 .. MAX_MSG_LEN + 1 : k > n + 1 => k > inbuf_size + 1
        BY <1>1, <4>1
      <4> QED
        BY <2>1, <2>2, <2>3, <4>2 DEF Untouched
    <3> QED
      BY <2>1, <2>2, <3>1, <3>2, <3>3
  <2>4. CASE inbuf_size' = 0 /\ n = MAX_MSG_LEN /\ dumped' = Len(received')
    <3>1. BufTypes' /\ Window'
      BY <2>1, <2>2, <2>4 DEF BufTypes, Window
    <3>2. \A i \in 1 .. MAX_MSG_LEN + 1 : ~(i > n + 1)
      BY <2>2, <2>4
    <3>3. Pieces'
      BY <2>1, <3>2 DEF Pieces
    <3>4. Untouched'
      BY <2>1, <2>2, <2>4 DEF Untouched
    <3> QED
      BY <2>1, <2>2, <3>1, <3>3, <3>4
  <2> QED
    BY <1>1, <2>3, <2>4
<1>2. ASSUME NEW chunk \in Chunks, Got(chunk), ~NoDelimiter,
             NEW n, n = inbuf_size + Len(chunk), inbuf_size' = n, dumped' = dumped
      PROVE  FullHasOne'
  <2>1. /\ n \in 1 .. MAX_MSG_LEN /\ Len(inbuf') = MAX_MSG_LEN + 1
        /\ inbuf'[n + 1] = NUL /\ strpbrk(inbuf', 1) # 0
    BY <1>1, <1>2 DEF NoDelimiter
  <2>2. n \in Nat /\ n < Len(inbuf') /\ Len(inbuf') \in Nat
    BY <2>1 DEF Assumptions, InBufAssumption
  <2>3. \E k \in 1 .. n : inbuf'[k] \in Delims
    BY <2>1, <2>2, DelimiterInText
  <2> QED
    BY <1>2, <2>3 DEF FullHasOne
<1>3. ASSUME handled' = <<>> PROVE NeverMixed'
  BY <1>3, EmptySeq DEF NeverMixed, ToSet
<1>4. ASSUME NEW chunk \in Chunks, RecvPart(chunk) PROVE IInvBuf'
  <2>1. PICK n : n = inbuf_size + Len(chunk)
    OBVIOUS
  <2>2. /\ Got(chunk)
        /\ \/ inbuf_size' = n /\ dumped' = dumped
           \/ inbuf_size' = 0 /\ n = MAX_MSG_LEN /\ dumped' = Len(received')
    BY <1>4, <2>1 DEF RecvPart
  <2>3. BufTypes' /\ Window' /\ Pieces' /\ Untouched'
    BY <1>1, <2>1, <2>2
  <2>4. NeverMixed'
    BY <1>3, <1>4 DEF RecvPart
  <2>5. FullHasOne'
    BY <1>4 DEF RecvPart, FullHasOne, Assumptions, InBufAssumption
  <2> QED
    BY <2>3, <2>4, <2>5
<1>5. ASSUME NEW chunk \in Chunks, RecvLines(chunk) \/ RecvTraps(chunk)
      PROVE  /\ BufTypes' /\ Window' /\ Pieces' /\ Untouched' /\ FullHasOne'
  <2>1. PICK n : n = inbuf_size + Len(chunk)
    OBVIOUS
  <2>2. Got(chunk) /\ ~NoDelimiter /\ inbuf_size' = n /\ dumped' = dumped
    BY <1>5, <2>1 DEF RecvLines, RecvTraps
  <2> QED
    BY <1>1, <1>2, <2>1, <2>2
<1>6. ASSUME NEW chunk \in Chunks, RecvLines(chunk) \/ RecvTraps(chunk)
      PROVE  IInvBuf'
  <2>1. BufTypes' /\ Window' /\ Pieces' /\ Untouched' /\ FullHasOne'
    BY <1>5, <1>6
  <2>2. CASE RecvLines(chunk)
    BY <2>1, <2>2, LinesArePieces DEF RecvLines
  <2>3. CASE RecvTraps(chunk)
    BY <2>1, <2>3, <1>3 DEF RecvTraps
  <2> QED
    BY <1>6, <2>2, <2>3
<1>7. ASSUME UNCHANGED <<inbuf, inbuf_size, leftover, received, dumped, handled>>
      PROVE  IInvBuf'
  <2>1. BufTypes' /\ Window' /\ Untouched' /\ FullHasOne'
    BY <1>7 DEF BufTypes, Window, Untouched, FullHasOne
  <2>2. Pieces'
    BY <1>7 DEF Pieces, PieceAt, ReceivedAt
  <2>3. NeverMixed'
    BY <1>7 DEF NeverMixed, StandsIn
  <2> QED
    BY <2>1, <2>2, <2>3
<1>8. CASE RecvNothing \/ PeerLeaves
  BY <1>7, <1>8 DEF RecvNothing, PeerLeaves
<1>9. CASE UNCHANGED in_vars
  BY <1>7, <1>9 DEF in_vars
<1> QED
  BY <1>4, <1>6, <1>8, <1>9 DEF InNext

LEMMA WindowIsSuffix ==
  ASSUME Assumptions, BufTypes, Window
  PROVE  WindowOfStream
<1> DEFINE n == inbuf_size
           l == Len(received)
           rt == Reverse(Text)
           rr == Reverse(received)
<1>1. n \in Nat /\ l \in Nat /\ n <= l /\ n <= MAX_MSG_LEN /\ MAX_MSG_LEN \in Nat
  BY LenProperties DEF BufTypes, Assumptions, InBufAssumption
<1>2. \A k \in 1 .. n : inbuf[k] \in Chars \cup {NUL}
  BY <1>1 DEF BufTypes
<1>3. /\ Text \in Seq(Chars \cup {NUL}) /\ Len(Text) = n
      /\ \A k \in 1 .. n : Text[k] = inbuf[k]
  <2>1. 1 \in Int /\ n \in Int /\ n - 1 + 1 = n
        /\ \A k \in 1 .. n : 1 + k - 1 = k /\ k - 1 + 1 = k
    BY <1>1
  <2>2. /\ Text \in Seq(Chars \cup {NUL})
        /\ Len(Text) = IF 1 <= n THEN n - 1 + 1 ELSE 0
        /\ \A k \in 1 .. n - 1 + 1 : Text[k] = inbuf[1 + k - 1]
    BY <1>2, <2>1, SubSeqProperties DEF Text
  <2> QED
    BY <1>1, <2>1, <2>2
<1> HIDE DEF n, l
<1>4. /\ rt = [i \in 1 .. n |-> Text[n - i + 1]] /\ Len(rt) = n
      /\ rr = [i \in 1 .. l |-> received[l - i + 1]] /\ Len(rr) = l
  BY <1>1, <1>3 DEF Reverse, l
<1>5. ASSUME NEW i \in 1 .. n
      PROVE  rt[i] = rr[i] /\ rr[i] \in Chars
  <2>1. n - i + 1 \in 1 .. n /\ l - n + (n - i + 1) = l - i + 1
        /\ l - i + 1 \in 1 .. l /\ i \in 1 .. l
    BY <1>1
  <2>2. rt[i] = Text[n - i + 1] /\ rr[i] = received[l - i + 1]
    BY <1>4, <2>1
  <2>3. inbuf[n - i + 1] = received[l - n + (n - i + 1)]
    BY <2>1 DEF Window, n, l
  <2>4. received[l - i + 1] \in Chars
    BY <2>1, ElementOfSeq DEF BufTypes, l
  <2> HIDE DEF rt, rr
  <2> QED
    BY <1>3, <2>1, <2>2, <2>3, <2>4
<1> HIDE DEF rt, rr
<1>6. SubSeq(rt, 1, n) = SubSeq(rr, 1, n)
  <2>1. /\ 1 \in Int /\ n \in Int /\ n - 1 + 1 = n
        /\ (IF 1 <= n THEN n - 1 + 1 ELSE 0) = n
        /\ \A k \in 1 .. n : 1 + k - 1 = k
    BY <1>1
  <2>2. (\A i \in 1 .. n : rt[i] \in Chars) /\ \A i \in 1 .. n : rr[i] \in Chars
    BY <1>5
  <2>3. /\ SubSeq(rt, 1, n) \in Seq(Chars) /\ Len(SubSeq(rt, 1, n)) = n
        /\ \A k \in 1 .. n : SubSeq(rt, 1, n)[k] = rt[k]
    BY <2>1, <2>2, SubSeqProperties
  <2>4. /\ SubSeq(rr, 1, n) \in Seq(Chars) /\ Len(SubSeq(rr, 1, n)) = n
        /\ \A k \in 1 .. n : SubSeq(rr, 1, n)[k] = rr[k]
    BY <2>1, <2>2, SubSeqProperties
  <2> QED
    BY <2>3, <2>4, <1>5, SeqEqual
<1> QED
  BY <1>1, <1>4, <1>6 DEF WindowOfStream, IsSuffix, IsPrefix, rt, rr

LEMMA FullTextDelimited ==
  ASSUME Assumptions, BufTypes, FullHasOne
  PROVE  FullHoldsDelimiter
<1> SUFFICES ASSUME inbuf_size = MAX_MSG_LEN
             PROVE  ToSet(Text) \cap Delims # {}
  BY DEF FullHoldsDelimiter
<1>1. PICK k \in 1 .. MAX_MSG_LEN : inbuf[k] \in Delims
  BY DEF FullHasOne
<1>2. MAX_MSG_LEN \in Nat
  BY DEF Assumptions, InBufAssumption
<1>3. k \in DOMAIN Text /\ Text[k] = inbuf[k]
  BY <1>2 DEF Text
<1> QED
  BY <1>1, <1>3 DEF ToSet

(* Whatever is cut, dumped and kept, inbuf holds the last inbuf_size bytes *)
(* that recv delivered.                                                    *)
THEOREM InbufFollows == InSpec => []WindowOfStream
<1>0. Assumptions
  BY InBufAssumption, DelimAssumption DEF Assumptions
<1>1. InInit => IInvBuf
  BY <1>0, BufferInit
<1>2. IInvBuf /\ [InNext]_in_vars => IInvBuf'
  BY <1>0, BufferStep
<1>3. IInvBuf => WindowOfStream
  BY <1>0, WindowIsSuffix DEF IInvBuf
<1> QED
  BY <1>1, <1>2, <1>3, PTL DEF InSpec

(* sircd.c:317-332 handles lines cut from bytes behind the text's NUL.     *)
(* Whatever malloc left there (common.c:169, 187), and however the text    *)
(* came in: each line is this client's in one piece, or stands in those    *)
(* leftovers, and once inbuf has been full it is this client's.            *)
THEOREM LinesAreNotMixed == InSpec => []NeverMixed
<1>0. Assumptions
  BY InBufAssumption, DelimAssumption DEF Assumptions
<1>1. InInit => IInvBuf
  BY <1>0, BufferInit
<1>2. IInvBuf /\ [InNext]_in_vars => IInvBuf'
  BY <1>0, BufferStep
<1>3. IInvBuf => NeverMixed
  BY DEF IInvBuf
<1> QED
  BY <1>1, <1>2, <1>3, PTL DEF InSpec

(* inbuf is full only with a delimiter in it: a text without one has been  *)
(* dumped.                                                                 *)
THEOREM FullIsDelimited == InSpec => []FullHoldsDelimiter
<1>0. Assumptions
  BY InBufAssumption, DelimAssumption DEF Assumptions
<1>1. InInit => IInvBuf
  BY <1>0, BufferInit
<1>2. IInvBuf /\ [InNext]_in_vars => IInvBuf'
  BY <1>0, BufferStep
<1>3. IInvBuf => FullHoldsDelimiter
  BY <1>0, FullTextDelimited DEF IInvBuf
<1> QED
  BY <1>1, <1>2, <1>3, PTL DEF InSpec

-----------------------------------------------------------------------------
(* The strings with a stale tail of MCTokenizer.                           *)

StringTypes ==
  string \in Seq(StringLetters \cup Delims) /\ stale \in Seq(StringLetters \cup Delims \cup {NUL})

LEMMA StringsTyped ==
  StringSpec => []StringTypes
<1>1. StringInit => StringTypes
  BY EmptySeq DEF StringInit, StringTypes
<1>2. StringTypes /\ [StringNext]_<<string, stale>> => StringTypes'
  <2> SUFFICES ASSUME StringTypes, [StringNext]_<<string, stale>>
               PROVE  StringTypes'
    OBVIOUS
  <2>1. CASE Longer
    BY <2>1, AppendProperties DEF Longer, StringTypes
  <2>2. CASE LongerTail
    BY <2>2, AppendProperties DEF LongerTail, StringTypes
  <2>3. CASE UNCHANGED <<string, stale>>
    BY <2>3 DEF StringTypes
  <2> QED
    BY <2>1, <2>2, <2>3 DEF StringNext
<1> QED
  BY <1>1, <1>2, PTL DEF StringSpec

LEMMA MemoryIs ==
  ASSUME StringTypes
  PROVE  /\ Len(Memory) \in Nat \ {0} /\ Len(string) \in Nat
         /\ Len(string) < Len(Memory)
         /\ \A i \in 1 .. Len(string) : Memory[i] = string[i]
         /\ Memory[Len(string) + 1] = NUL
<1> DEFINE S == StringLetters \cup Delims \cup {NUL}
           front == string \o <<NUL>>
<1>1. string \in Seq(S) /\ stale \in Seq(S) /\ <<NUL>> \in Seq(S)
      /\ Len(<<NUL>>) = 1 /\ <<NUL>>[1] = NUL
  <2>1. StringLetters \cup Delims \subseteq S
    OBVIOUS
  <2>2. string \in Seq(S)
    BY <2>1, SeqMonotonic DEF StringTypes
  <2> QED
    BY <2>2 DEF StringTypes
<1> HIDE DEF S
<1>2. Len(string) \in Nat /\ Len(stale) \in Nat
  BY <1>1, LenProperties
<1>3. /\ front \in Seq(S) /\ Len(front) = Len(string) + Len(<<NUL>>)
      /\ \A i \in 1 .. Len(string) + Len(<<NUL>>) :
           front[i] = IF i <= Len(string) THEN string[i]
                      ELSE <<NUL>>[i - Len(string)]
  BY <1>1, ConcatProperties
<1>4. Len(string) + Len(<<NUL>>) = Len(string) + 1
      /\ Len(string) + 1 - Len(string) = 1
  BY <1>1, <1>2
<1>5. /\ Len(front) = Len(string) + 1
      /\ \A i \in 1 .. Len(string) : front[i] = string[i]
      /\ front[Len(string) + 1] = NUL
  <2> HIDE DEF front
  <2>1. ASSUME NEW i \in 1 .. Len(string) PROVE front[i] = string[i]
    <3>1. i \in 1 .. Len(string) + Len(<<NUL>>) /\ i <= Len(string)
      BY <1>2, <1>4
    <3> QED
      BY <1>3, <3>1
  <2>2. front[Len(string) + 1] = <<NUL>>[Len(string) + 1 - Len(string)]
    <3>1. /\ Len(string) + 1 \in 1 .. Len(string) + Len(<<NUL>>)
          /\ ~(Len(string) + 1 <= Len(string))
      BY <1>2, <1>4
    <3> QED
      BY <1>3, <3>1
  <2> QED
    BY <1>1, <1>3, <1>4, <2>1, <2>2
<1>6. Memory = front \o stale
  BY DEF Memory
<1> HIDE DEF front
<1>7. /\ Len(Memory) = Len(front) + Len(stale)
      /\ \A i \in 1 .. Len(front) + Len(stale) :
           Memory[i] = IF i <= Len(front) THEN front[i]
                           ELSE stale[i - Len(front)]
  <2>1. /\ Len(front \o stale) = Len(front) + Len(stale)
        /\ \A i \in 1 .. Len(front) + Len(stale) :
             (front \o stale)[i] = IF i <= Len(front) THEN front[i]
                                  ELSE stale[i - Len(front)]
    <3>1. front \in Seq(S) /\ stale \in Seq(S)
      BY <1>1, <1>3
    <3> QED
      BY ONLY <3>1, ConcatProperties, Zenon
  <2> QED
    BY <2>1, <1>6, Zenon
<1>8. \A i \in 1 .. Len(string) + 1 : Memory[i] = front[i]
  BY <1>2, <1>5, <1>7
<1> QED
  BY <1>2, <1>5, <1>7, <1>8

Outcome == splitByDelimStr(Memory)

LEMMA ResultIs ==
  Result = Outcome
BY DEF Result, Outcome

(* What the bytes of a piece are.                                          *)
LEMMA PieceBytes ==
  ASSUME NEW mem, Len(mem) \in Nat, NEW t, NEW i, NEW j, IsPiece(mem, t, i, j)
  PROVE  /\ i \in Nat \ {0} /\ j \in Nat /\ i <= j /\ j <= Len(mem)
         /\ Len(t) = j - i /\ DOMAIN t = 1 .. j - i
         /\ \A x \in 1 .. j - i : t[x] = mem[i + x - 1]
<1>1. i \in 1 .. Len(mem) /\ j \in i .. Len(mem) /\ t = SubSeq(mem, i, j - 1)
  BY DEF IsPiece
<1>2. SubSeq(mem, i, j - 1) = [x \in 1 .. (1 + (j - 1) - i) |-> mem[i + x - 1]]
  BY <1>1
<1>3. 1 + (j - 1) - i = j - i /\ j - i \in Nat
  BY <1>1
<1> QED
  BY <1>1, <1>2, <1>3

LEMMA CutHasNoDelimiter ==
  ASSUME NEW mem, Len(mem) \in Nat, NEW t, NEW i, IsCut(mem, t, i)
  PROVE  DelimFree(t)
<1> DEFINE j == strpbrk(mem, i)
<1>1. /\ i \in Nat \ {0} /\ j \in Nat /\ i <= j /\ DOMAIN t = 1 .. j - i
      /\ \A x \in 1 .. j - i : t[x] = mem[i + x - 1]
      /\ NoneOf(mem, i, j - 1, Delims)
  BY PieceBytes DEF IsCut
<1> HIDE DEF j
<1>2. ASSUME NEW x \in DOMAIN t PROVE t[x] \notin Delims
  <2>1. i + x - 1 \in i .. j - 1
    BY <1>1
  <2> QED
    BY <1>1, <2>1 DEF NoneOf
<1> QED
  BY <1>2 DEF DelimFree, ToSet

LEMMA RestHasDelimiter ==
  ASSUME NEW mem, Len(mem) \in Nat, NEW t, NEW i, IsRest(mem, t, i)
  PROVE  ~ DelimFree(t)
<1> DEFINE j == NulAfter(mem, i)
<1>1. /\ i \in Nat \ {0} /\ j \in Nat /\ i <= j /\ DOMAIN t = 1 .. j - i
      /\ \A x \in 1 .. j - i : t[x] = mem[i + x - 1]
  BY PieceBytes DEF IsRest
<1>2. \E q \in i .. j - 1 : mem[q] \in Delims
  BY DEF IsRest
<1> HIDE DEF j
<1>3. PICK q \in i .. j - 1 : mem[q] \in Delims
  BY <1>2
<1>4. q - i + 1 \in 1 .. j - i /\ i + (q - i + 1) - 1 = q
  BY <1>1
<1>5. t[q - i + 1] \in Delims
  BY <1>1, <1>3, <1>4
<1> QED
  BY <1>1, <1>4, <1>5 DEF DelimFree, ToSet

(* What common.c:97 does to the last token, and only to that one.          *)
OnlyLastTokenDelimited ==
  \A i \in DOMAIN Result.tokens :
    DelimFree(Result.tokens[i]) <=> i < Len(Result.tokens)

(* common.h:103 says that the tokens are delimited.  Whatever the string   *)
(* and whatever lies behind it in memory, the last token, and no other,    *)
(* holds delimiters.                                                       *)
THEOREM LastTokenIsRest == StringSpec => []OnlyLastTokenDelimited
<1> USE DelimAssumption, StringAssumption
<1>1. ASSUME StringTypes PROVE OnlyLastTokenDelimited
  <2>1. Len(Memory) \in Nat \ {0}
    BY <1>1, MemoryIs
  <2>2. CASE Outcome.outcome = "tokens"
    <3>1. PICK starts \in Seq(1 .. Len(Memory)) :
            /\ DOMAIN Outcome.tokens = 1 .. Len(starts)
            /\ Len(Outcome.tokens) = Len(starts)
            /\ \A i \in 1 .. Len(starts) :
                 IF i < Len(starts)
                 THEN IsCut(Memory, Outcome.tokens[i], starts[i])
                 ELSE IsRest(Memory, Outcome.tokens[i], starts[i])
      BY <2>1, <2>2, TokensAre DEF Outcome
    <3>2. ASSUME NEW i \in DOMAIN Outcome.tokens
          PROVE  DelimFree(Outcome.tokens[i]) <=> i < Len(Outcome.tokens)
      <4>1. CASE i < Len(starts)
        BY <3>1, <4>1, <2>1, CutHasNoDelimiter
      <4>2. CASE ~(i < Len(starts))
        BY <3>1, <4>2, <2>1, RestHasDelimiter
      <4> QED
        BY <4>1, <4>2, <3>1
    <3> QED
      BY <3>2, ResultIs DEF OnlyLastTokenDelimited
  <2>3. CASE Outcome.outcome # "tokens"
    <3>1. DOMAIN Outcome.tokens = {}
      BY <2>3, NoTokensElse DEF Outcome
    <3> QED
      BY <3>1, ResultIs DEF OnlyLastTokenDelimited
  <2> QED
    BY <2>2, <2>3
<1> QED
  BY <1>1, StringsTyped, PTL

(* A string that a NUL ends is searched to that NUL and no further.        *)
LEMMA NulEndsString ==
  ASSUME DelimAssumption, NUL \notin StringLetters, StringTypes
  PROVE  NulAfter(Memory, 1) = Len(string) + 1
<1> DEFINE mem == Memory
           w == NulAfter(mem, 1)
           l == Len(string)
<1>1. /\ Len(mem) \in Nat /\ l \in Nat /\ l < Len(mem) /\ mem[l + 1] = NUL
      /\ \A i \in 1 .. l : mem[i] = string[i]
  BY MemoryIs
<1>2. \A i \in 1 .. l : string[i] \in StringLetters \cup Delims
  BY ElementOfSeq DEF StringTypes
<1>3. \A i \in 1 .. l : mem[i] # NUL
  BY <1>1, <1>2 DEF DelimAssumption
<1>4. \/ w = 0 /\ NoneOf(mem, 1, Len(mem), {NUL})
      \/ /\ w \in 1 .. Len(mem) /\ mem[w] = NUL
         /\ NoneOf(mem, 1, w - 1, {NUL})
  <2>1. 1 \in Nat \ {0}
    OBVIOUS
  <2> HIDE DEF mem
  <2> QED
    BY ONLY <2>1, <1>1, NulIsFirst, Zenon DEF w
<1> HIDE DEF mem, w, l
<1>5. w \in 1 .. Len(mem) /\ mem[w] = NUL /\ w <= l + 1
  BY <1>1, <1>4 DEF NoneOf
<1>6. w = l + 1
  BY <1>1, <1>3, <1>5
<1> QED
  BY <1>6 DEF w, mem, l

(* The first of several tokens is what stands in front of the first        *)
(* delimiter of the string.                                                *)
THEOREM FirstOfSeveral == StringSpec => []FirstTokenExact
<1> USE DelimAssumption, StringAssumption
<1>1. ASSUME StringTypes PROVE FirstTokenExact
  <2> DEFINE mem == Memory
             l == Len(string)
             q == strpbrk(mem, 1)
             t == Outcome.tokens[1]
  <2> SUFFICES ASSUME Len(Outcome.tokens) > 1
               PROVE  IsPrefix(t, string) /\ string[Len(t) + 1] \in Delims
    BY ResultIs DEF FirstTokenExact
  <2>1. /\ Len(mem) \in Nat \ {0} /\ l \in Nat /\ l < Len(mem)
        /\ mem[l + 1] = NUL
        /\ \A i \in 1 .. l : mem[i] = string[i]
    BY <1>1, MemoryIs
  <2>2. Outcome.outcome = "tokens"
    <3> SUFFICES ASSUME Outcome.outcome # "tokens" PROVE FALSE
      OBVIOUS
    <3>1. Outcome.tokens = <<>> /\ Len(<<>>) = 0
      BY NoTokensElse, EmptySeq DEF Outcome
    <3> QED
      BY <3>1
  <2>3. PICK starts \in Seq(1 .. Len(mem)) :
          /\ starts[1] = 1
          /\ Len(Outcome.tokens) = Len(starts)
          /\ \A i \in 1 .. Len(starts) :
               i < Len(starts) => IsCut(mem, Outcome.tokens[i], starts[i])
    BY <2>1, <2>2, TokensAre DEF Outcome
  <2>4. Len(starts) \in Nat /\ Len(starts) > 1
    BY <2>3, LenProperties
  <2>5. IsCut(mem, t, 1)
    <3>1. 1 \in 1 .. Len(starts) /\ 1 < Len(starts)
      BY <2>4
    <3> QED
      BY <2>3, <3>1
  <2>6. /\ q \in Nat /\ 1 <= q /\ Len(t) = q - 1 /\ DOMAIN t = 1 .. q - 1
        /\ \A x \in 1 .. q - 1 : t[x] = mem[1 + x - 1]
        /\ mem[q] \in Delims
    BY <2>1, <2>5, PieceBytes DEF IsCut
  <2>7. q \in 1 .. NulAfter(mem, 1)
    <3>1. q # 0
      BY <2>6
    <3>2. Len(mem) \in Nat /\ 1 \in Nat
      BY <2>1
    <3> HIDE DEF mem
    <3>3. strpbrk(mem, 1) # 0 =>
            strpbrk(mem, 1) \in 1 .. NulAfter(mem, 1)
      BY <3>2, DelimiterIsFirst
    <3> QED
      BY <3>1, <3>3
  <2>8. NulAfter(mem, 1) = l + 1
    BY <1>1, NulEndsString
  <2> HIDE DEF mem, l, q, t
  <2>9. q # l + 1
    BY <2>1, <2>6 DEF DelimAssumption
  <2>10. q <= l
    BY <2>1, <2>6, <2>7, <2>8, <2>9
  <2>11. /\ \A x \in 1 .. q - 1 : t[x] = string[x]
         /\ string[q] \in Delims
    <3>1. \A x \in 1 .. q - 1 : 1 + x - 1 = x /\ x \in 1 .. l
      BY <2>1, <2>6, <2>10
    <3>2. q \in 1 .. l
      BY <2>1, <2>6, <2>10
    <3> QED
      BY <2>1, <2>6, <3>1, <3>2
  <2>12. SubSeq(t, 1, q - 1) = SubSeq(string, 1, q - 1)
    BY <2>6, <2>11
  <2>13. Len(t) <= Len(string) /\ Len(t) + 1 = q
    BY <2>1, <2>6, <2>10 DEF l
  <2> QED
    BY <2>6, <2>11, <2>12, <2>13 DEF IsPrefix
<1> QED
  BY <1>1, StringsTyped, PTL

(* What common.c:97 does when nothing ends the last token.                 *)
LoneNameTraps ==
  DelimFree(string) /\ string # <<>> => Result.outcome = "trap"

(* How far LoneNameIsToken's violation goes: there is no name, of whatever *)
(* length, that is a list of one.                                          *)
THEOREM LoneNameIsNotSplit == StringSpec => []LoneNameTraps
<1> USE DelimAssumption, StringAssumption
<1>1. ASSUME StringTypes PROVE LoneNameTraps
  <2> DEFINE mem == Memory
             l == Len(string)
  <2> SUFFICES ASSUME DelimFree(string), string # <<>>
               PROVE  Outcome.outcome = "trap"
    BY ResultIs DEF LoneNameTraps
  <2>1. /\ Len(mem) \in Nat \ {0} /\ l \in Nat /\ l < Len(mem)
        /\ mem[l + 1] = NUL
        /\ \A i \in 1 .. l : mem[i] = string[i]
    BY <1>1, MemoryIs
  <2>2. l # 0
    BY <1>1, EmptySeq DEF StringTypes
  <2>3. \A i \in 1 .. l : string[i] \in (StringLetters \cup Delims) \ Delims
    BY <1>1, ElementOfSeq, LenProperties DEF StringTypes, DelimFree, ToSet
  <2>4. NulAfter(mem, 1) = l + 1
    BY <1>1, NulEndsString
  <2> HIDE DEF mem, l
  <2>5. mem[1] # NUL
    BY <2>1, <2>2, <2>3
  <2>6. strpbrk(mem, 1) = 0
    <3> SUFFICES ASSUME strpbrk(mem, 1) # 0 PROVE FALSE
      OBVIOUS
    <3> DEFINE q == strpbrk(mem, 1)
    <3>1. q \in 1 .. l + 1 /\ mem[q] \in Delims
      BY <2>1, <2>4, DelimiterIsFirst
    <3> HIDE DEF q
    <3>2. q # l + 1
      BY <2>1, <3>1 DEF DelimAssumption
    <3>3. q \in 1 .. l
      BY <2>1, <3>1, <3>2
    <3> QED
      BY <2>1, <2>3, <3>1, <3>3
  <2>7. PICK f : IsPass(f, mem) /\ CountingPass(mem) = f[1]
    BY <2>1, PassIs
  <2>8. 1 \in 0 .. Len(mem)
    BY <2>1
  <2>9. CountingPass(mem) = [starts |-> <<1>>, last |-> "open"]
    BY <2>5, <2>6, <2>7, <2>8 DEF IsPass, PassFrom
  <2>10. Len(<<1>>) = 1
    OBVIOUS
  <2>11. splitByDelimStr(mem).outcome = "trap"
    BY <2>9, <2>10 DEF splitByDelimStr
  <2> QED
    BY <2>11 DEF Outcome, mem
<1> QED
  BY <1>1, StringsTyped, PTL

-----------------------------------------------------------------------------
(* The names of ValidNames.                                                *)

(* A nick of any length is one word, has no comma and no '!' in it, and is *)
(* no channel's name.                                                      *)
THEOREM NicksAreWords ==
  NameSpec => []NickIsOneWord
<1>1. NickIsOneWord
  <2> SUFFICES ASSUME isValidNick(text)
               PROVE  /\ \A i \in DOMAIN text :
                           text[i] \notin {SP, Comma, Bang}
                      /\ ~ isValidChanname(text)
    BY DEF NickIsOneWord
  <2>1. ASSUME NEW i \in DOMAIN text
        PROVE  text[i] \notin {SP, Comma, Bang}
    <3>1. isalnum(text[i]) \/ text[i] \in Special
      BY DEF isValidNick
    <3> QED
      BY <3>1 DEF isalnum, isalpha, Special, SP, Comma,
                  Bang
  <2>2. text[1] \notin {35, 38}
    <3>1. isalpha(text[1])
      BY DEF isValidNick
    <3>2. ASSUME NEW c, isalpha(c) PROVE c # 35 /\ c # 38
      BY <3>2 DEF isalpha
    <3> QED
      BY <3>1, <3>2
  <2> QED
    BY <2>1, <2>2 DEF isValidChanname
<1> QED
  BY <1>1, PTL

-----------------------------------------------------------------------------
(* The start of sircd, InitNode.                                           *)

(* The configuration is what the parser makes of the whole file.           *)
Parsed ==
  /\ rt_parse_accepts(file)
  /\ curr_node_config_file = rt_parse_config_file(NoConfig, file)

Entry(matches) == curr_node_config_entry = Max(matches)

IInvNode ==
  /\ curr_nodeID \in NodeIDs /\ file \in Files
  /\ LET matches == EntriesOf(curr_node_config_file, curr_nodeID)
     IN  \/ sircd_status = "parse" /\ curr_node_config_file = NoConfig
         \/ sircd_status = "exit" /\ ~rt_parse_accepts(file)
         \/ sircd_status = "search" /\ Parsed
         \/ sircd_status = "running" /\ Parsed /\ matches # {} /\ Entry(matches)
         \/ sircd_status = "exit" /\ Parsed /\ matches = {}

LEMMA NodeInvariant ==
  NodeSpec => []IInvNode
<1>1. NodeInit => IInvNode
  BY DEF NodeInit, IInvNode
<1>2. IInvNode /\ [NodeNext]_sircd_vars => IInvNode'
  <2> SUFFICES ASSUME IInvNode, [NodeNext]_sircd_vars PROVE IInvNode'
    OBVIOUS
  <2>1. CASE ParseExits
    BY <2>1 DEF ParseExits, IInvNode
  <2>2. CASE Parse
    BY <2>2 DEF Parse, IInvNode, Parsed
  <2>3. CASE init_node
    BY <2>3 DEF init_node, IInvNode, Parsed, Entry
  <2>4. CASE UNCHANGED sircd_vars
    BY <2>4 DEF sircd_vars, IInvNode, Parsed, Entry
  <2> QED
    BY <2>1, <2>2, <2>3, <2>4 DEF NodeNext
<1> QED
  BY <1>1, <1>2, PTL DEF NodeSpec

(* A file within the limit is read to its end.                             *)
LEMMA AllIsRead ==
  ASSUME RtConfigAssumption, file \in Files
  PROVE  /\ Len(file) \in Nat /\ DOMAIN file = 1 .. Len(file)
         /\ Len(file) <= MAX_CONFIG_FILE_LINES => LinesRead(file) = 1 .. Len(file)
<1>1. PICK n \in 0 .. MaxFileLines : file \in [1 .. n -> NodeIDs \cup {Blank, Bad}]
  BY DEF Files
<1>2. n \in Nat /\ Len(file) = n /\ DOMAIN file = 1 .. n
  BY <1>1 DEF RtConfigAssumption
<1>3. ASSUME n <= MAX_CONFIG_FILE_LINES PROVE LinesRead(file) = 1 .. n
  <2>1. MAX_CONFIG_FILE_LINES \in Nat
    BY DEF RtConfigAssumption
  <2>2. \A x \in {n, MAX_CONFIG_FILE_LINES} : n <= x
    BY <1>2, <1>3
  <2> DEFINE m == Min({n, MAX_CONFIG_FILE_LINES})
  <2>3. m \in {n, MAX_CONFIG_FILE_LINES} /\ \A x \in {n, MAX_CONFIG_FILE_LINES} : m <= x
    BY <2>2 DEF Min
  <2>4. LinesRead(file) = 1 .. m
    BY <1>2 DEF LinesRead
  <2> HIDE DEF m
  <2>5. m = n
    BY <2>1, <2>3, <1>2, <1>3
  <2> QED
    BY <2>4, <2>5
<1> QED
  BY <1>2, <1>3

(* It is accepted if and only if it is well-formed.                        *)
LEMMA AcceptedIs ==
  ASSUME RtConfigAssumption, file \in Files
  PROVE  rt_parse_accepts(file) <=> WellFormed
<1>1. Bad \notin ToSet(file) <=> \A i \in 1 .. Len(file) : file[i] # Bad
  BY AllIsRead DEF ToSet
<1> QED
  BY <1>1, AllIsRead DEF rt_parse_accepts, WellFormed

(* What an accepted file without a blank line leaves in the configuration. *)
LEMMA ParsedIs ==
  ASSUME RtConfigAssumption, file \in Files, Parsed, Blank \notin ToSet(file)
  PROVE  /\ curr_node_config_file.size = Len(file)
         /\ \A i \in 1 .. Len(file) : curr_node_config_file.entries[i] = file[i]
<1>1. PICK n \in Nat : n = Len(file)
  BY AllIsRead
<1>2. Len(file) = n /\ DOMAIN file = 1 .. n
  BY <1>1, AllIsRead
<1>3. n <= MAX_CONFIG_FILE_LINES /\ MAX_CONFIG_FILE_LINES \in Nat
  BY <1>2 DEF Parsed, rt_parse_accepts, RtConfigAssumption
<1>4. LinesRead(file) = 1 .. n
  BY <1>2, <1>3, AllIsRead
<1> DEFINE nodes == {i \in 1 .. n : file[i] # Blank}
<1>5. /\ curr_node_config_file.size = Cardinality(nodes)
      /\ curr_node_config_file.entries =
           [i \in 1 .. MAX_CONFIG_FILE_LINES |->
              IF i \in nodes THEN file[i] ELSE NoConfig.entries[i]]
  <2> DEFINE read == {i \in LinesRead(file) : file[i] # Blank}
             entries(x) == [i \in 1 .. MAX_CONFIG_FILE_LINES |->
                              IF i \in x THEN file[i] ELSE NoConfig.entries[i]]
  <2>0. \A S : Cardinality(S) = Cardinality(S)
    BY DEF Cardinality, Cardinality
  <2>1. curr_node_config_file = [size |-> Cardinality(read), entries |-> entries(read)]
    BY <2>0 DEF Parsed, rt_parse_config_file
  <2>2. read = nodes
    BY <1>4
  <2> HIDE DEF read, nodes, entries
  <2>3. /\ curr_node_config_file.size = Cardinality(nodes)
        /\ curr_node_config_file.entries = entries(nodes)
    BY <2>1, <2>2
  <2> QED
    BY <2>3 DEF entries
<1>6. nodes = 1 .. n
  BY <1>2 DEF ToSet
<1>7. Cardinality(1 .. n) = n
  BY FS_Interval
<1>8. ASSUME NEW i \in 1 .. n PROVE curr_node_config_file.entries[i] = file[i]
  <2>1. i \in 1 .. MAX_CONFIG_FILE_LINES
    BY <1>3
  <2>2. curr_node_config_file.entries[i] =
          IF i \in nodes THEN file[i] ELSE NoConfig.entries[i]
    BY <1>5, <2>1
  <2> QED
    BY <2>2, <1>6
<1> HIDE DEF nodes
<1> QED
  BY <1>2, <1>5, <1>6, <1>7, <1>8

(* Whatever the limit and however often a node is listed: a file without a *)
(* blank line starts sircd exactly if it is well-formed and names the      *)
(* node, as the last line that does.                                       *)
THEOREM StartsAsListed == NodeSpec => []RunsAsListed
<1> USE RtConfigAssumption
<1>1. ASSUME IInvNode PROVE RunsAsListed
  <2> SUFFICES ASSUME Blank \notin ToSet(file)
               PROVE  /\ sircd_status = "running" =>
                           WellFormed /\ Listed # {} /\ curr_node_config_entry = Max(Listed)
                      /\ sircd_status = "exit" => ~WellFormed \/ Listed = {}
    BY DEF RunsAsListed
  <2>1. file \in Files
    BY <1>1 DEF IInvNode
  <2>2. rt_parse_accepts(file) <=> WellFormed
    BY <2>1, AcceptedIs
  <2> DEFINE matches == EntriesOf(curr_node_config_file, curr_nodeID)
  <2>3. Parsed => matches = Listed
    <3> SUFFICES ASSUME Parsed PROVE matches = Listed
      OBVIOUS
    <3>1. /\ curr_node_config_file.size = Len(file)
          /\ \A i \in 1 .. Len(file) : curr_node_config_file.entries[i] = file[i]
      BY <2>1, ParsedIs
    <3>2. DOMAIN file = 1 .. Len(file)
      BY <2>1, AllIsRead
    <3> QED
      BY <3>1, <3>2 DEF EntriesOf, Listed
  <2>4. Parsed => WellFormed
    BY <2>2 DEF Parsed
  <2> HIDE DEF matches
  <2>5. \/ sircd_status = "parse" \/ sircd_status = "search"
        \/ sircd_status = "exit" /\ ~rt_parse_accepts(file)
        \/ sircd_status = "running" /\ Parsed /\ matches # {} /\ Entry(matches)
        \/ sircd_status = "exit" /\ Parsed /\ matches = {}
    BY <1>1 DEF IInvNode, matches
  <2> QED
    BY <2>2, <2>3, <2>4, <2>5 DEF Entry
<1> QED
  BY <1>1, NodeInvariant, PTL

-----------------------------------------------------------------------------
(* The command line of the daemon, RtArgs.                                 *)

(* The last value of an option, its default when it has none.              *)
UsesIn(options, c) == {k \in DOMAIN options : options[k].c = c}
LastIn(options, c) ==
  IF UsesIn(options, c) = {} THEN Defaults[c]
  ELSE options[Max(UsesIn(options, c))].val

Option == [c : _rt_optstring \cup Numbers,
           val : UNION {ValuesOf(c) : c \in _rt_optstring \cup Numbers}]

IInvArgs ==
  /\ given \in Seq(Option)
  /\ DOMAIN args = {"i", "a", "n", "r", "t", "config"}
  /\ args_status \in {"options", "parsed"} =>
       \A c \in Numbers : args[c] = LastIn(given, c)

(* One more option only changes what its own letter means.                 *)
LEMMA LastInAppend ==
  ASSUME NEW S, NEW options \in Seq(S), NEW o \in S, NEW c
  PROVE  LastIn(Append(options, o), c) = IF o.c = c THEN o.val ELSE LastIn(options, c)
<1> DEFINE more == Append(options, o)
           n == Len(options)
<1>1. /\ n \in Nat /\ DOMAIN options = 1 .. n /\ DOMAIN more = 1 .. n + 1
      /\ \A k \in 1 .. n : more[k] = options[k]
      /\ more[n + 1] = o
  <2>1. /\ more \in Seq(S) /\ Len(more) = n + 1
        /\ \A k \in 1 .. n : more[k] = options[k]
        /\ more[n + 1] = o
    BY AppendProperties
  <2> QED
    BY <2>1, LenProperties
<1> HIDE DEF more, n
<1>2. CASE o.c = c
  <2>1. n + 1 \in UsesIn(more, c) /\ \A k \in UsesIn(more, c) : n + 1 >= k
    BY <1>1, <1>2 DEF UsesIn
  <2> DEFINE m == Max(UsesIn(more, c))
  <2>2. m \in UsesIn(more, c) /\ \A k \in UsesIn(more, c) : m >= k
    BY <2>1 DEF Max
  <2> HIDE DEF m
  <2>3. m = n + 1
    BY <2>1, <2>2, <1>1 DEF UsesIn
  <2>4. LastIn(more, c) = o.val
    BY <2>1, <2>3, <1>1 DEF LastIn, m
  <2> QED
    BY <2>4, <1>2 DEF more
<1>3. CASE o.c # c
  <2>1. UsesIn(more, c) = UsesIn(options, c)
    BY <1>1, <1>3 DEF UsesIn
  <2>2. LastIn(more, c) = LastIn(options, c)
    <3>1. CASE UsesIn(options, c) = {}
      BY <2>1, <3>1 DEF LastIn
    <3>2. CASE UsesIn(options, c) # {}
      <4> DEFINE uses == UsesIn(options, c)
                 m == Max(uses)
      <4>1. \E k \in uses : \A j \in uses : k >= j
        <5> DEFINE Above == {x \in 0 .. n : \A k \in uses : k <= x}
        <5>1. uses \subseteq 1 .. n
          BY <1>1 DEF UsesIn
        <5> HIDE DEF uses
        <5>2. n \in Above /\ Above \in SUBSET Nat
          BY <1>1, <5>1
        <5>3. PICK x \in Above : \A y \in Above : x <= y
          <6> HIDE DEF Above
          <6> QED
            BY <5>2, LeastNumber
        <5>4. x \in uses
          <6> SUFFICES ASSUME x \notin uses PROVE FALSE
            OBVIOUS
          <6>1. \A k \in uses : k <= x - 1 /\ k \in 1 .. n
            BY <5>1, <5>3
          <6>2. PICK k \in uses : TRUE
            BY <3>2 DEF uses
          <6>3. x \in 0 .. n /\ x - 1 \in 0 .. n
            BY <6>1, <6>2, <5>3, <1>1
          <6>4. x - 1 \in Above
            BY <6>1, <6>3
          <6>5. ~(x <= x - 1)
            BY <6>3
          <6> QED
            BY <6>4, <6>5, <5>3
        <5>5. \A j \in uses : x >= j
          BY <5>1, <5>3
        <5> QED
          BY <5>4, <5>5
      <4>2. m \in uses
        BY <4>1 DEF Max
      <4>3. m \in 1 .. n
        BY <4>2, <1>1 DEF UsesIn
      <4> HIDE DEF m
      <4>4. more[m] = options[m]
        BY <4>3, <1>1
      <4> QED
        BY <2>1, <3>2, <4>4 DEF LastIn, m
    <3> QED
      BY <3>1, <3>2
  <2> QED
    BY <2>2, <1>3 DEF more
<1> QED
  BY <1>2, <1>3

LEMMA GivenOne ==
  ASSUME IInvArgs, NEW c \in _rt_optstring \cup Numbers,
         NEW val \in ValuesOf(c), Given(c, val)
  PROVE  /\ given' \in Seq(Option)
         /\ args_status = "options"
         /\ \A d : LastIn(given', d) = IF c = d THEN val ELSE LastIn(given, d)
<1> DEFINE o == [c |-> c, val |-> val]
<1>1. o \in Option /\ o.c = c /\ o.val = val
  BY DEF Option
<1>2. given' = Append(given, o) /\ given \in Seq(Option) /\ args_status = "options"
  BY DEF Given, IInvArgs
<1> HIDE DEF o
<1>3. given' \in Seq(Option)
  BY <1>1, <1>2, AppendProperties
<1>4. \A d : LastIn(given', d) = IF o.c = d THEN o.val ELSE LastIn(given, d)
  BY <1>1, <1>2, LastInAppend
<1> QED
  BY <1>1, <1>2, <1>3, <1>4

(* The daemon gets, for each of its numeric options, the last value on the *)
(* command line, however many there are, or the default.                   *)
THEOREM LastValueCounts ==
  ArgsSpec => []AsGiven
<1>1. ArgsInit => IInvArgs
  <2> SUFFICES ASSUME ArgsInit PROVE IInvArgs
    OBVIOUS
  <2>1. given = <<>> /\ args = Defaults
    BY DEF ArgsInit
  <2>2. \A c : LastIn(<<>>, c) = Defaults[c]
    BY DEF LastIn, UsesIn
  <2>3. DOMAIN args = {"i", "a", "n", "r", "t", "config"}
    BY <2>1 DEF Defaults
  <2> QED
    BY <2>1, <2>2, <2>3, EmptySeq DEF IInvArgs
<1>2. IInvArgs /\ [ArgsNext]_args_vars => IInvArgs'
  <2> SUFFICES ASSUME IInvArgs, [ArgsNext]_args_vars PROVE IInvArgs'
    OBVIOUS
  <2>1. \A c \in Numbers : args_status = "options" => args[c] = LastIn(given, c)
    BY DEF IInvArgs
  <2>2. ASSUME NEW c \in _rt_optstring \cup Numbers,
               NEW val \in ValuesOf(c), TakeNumber(c, val)
        PROVE  IInvArgs'
    <3>1. /\ args' = [args EXCEPT ![c] = val] /\ c \in Numbers
          /\ args_status' = args_status /\ Given(c, val)
      BY <2>2 DEF TakeNumber
    <3>2. /\ given' \in Seq(Option) /\ args_status = "options"
          /\ \A d : LastIn(given', d) = IF c = d THEN val ELSE LastIn(given, d)
      BY <3>1, GivenOne
    <3>3. /\ DOMAIN args' = DOMAIN args
          /\ \A d \in DOMAIN args : args'[d] = IF d = c THEN val ELSE args[d]
      BY <3>1
    <3>4. \A d \in Numbers : d \in DOMAIN args
      BY DEF IInvArgs, Numbers
    <3>5. \A d \in Numbers : args'[d] = LastIn(given', d)
      BY <2>1, <3>2, <3>3, <3>4
    <3> QED
      BY <3>2, <3>3, <3>5 DEF IInvArgs
  <2>3. ASSUME NEW c \in {"c", "G"}, NEW val \in ValuesOf(c),
               Given(c, val), UNCHANGED args_status,
               DOMAIN args' = DOMAIN args,
               \A d \in Numbers : args'[d] = args[d]
        PROVE  IInvArgs'
    <3>1. c \in _rt_optstring \cup Numbers /\ c \notin Numbers
      BY DEF _rt_optstring, Numbers
    <3>2. /\ given' \in Seq(Option) /\ args_status = "options"
          /\ \A d : LastIn(given', d) = IF c = d THEN val ELSE LastIn(given, d)
      BY <2>3, <3>1, GivenOne
    <3>3. \A d \in Numbers : args'[d] = LastIn(given', d)
      BY <2>1, <2>3, <3>1, <3>2
    <3> QED
      BY <2>3, <3>2, <3>3 DEF IInvArgs
  <2>4. ASSUME NEW new \in Files, TakeConfig(new) PROVE IInvArgs'
    <3>1. new \in ValuesOf("c")
      BY DEF ValuesOf, Numbers
    <3>2. /\ Given("c", new) /\ UNCHANGED args_status
          /\ args' = [args EXCEPT !.config = rt_parse_config_file(@, new)]
      BY <2>4 DEF TakeConfig
    <3>3. DOMAIN args' = DOMAIN args /\ \A d \in DOMAIN args : d # "config" => args'[d] = args[d]
      BY <3>2
    <3>4. \A d \in Numbers : d # "config" /\ d \in DOMAIN args
      BY DEF IInvArgs, Numbers
    <3> QED
      BY <2>3, <3>1, <3>2, <3>3, <3>4
  <2>5. ASSUME NEW val \in ValuesOf("G"), IgnoreOption(val) PROVE IInvArgs'
    BY <2>3, <2>5 DEF IgnoreOption
  <2>6. ASSUME NEW c \in _rt_optstring \cup Numbers,
               NEW val \in ValuesOf(c), RefuseOption(c, val)
        PROVE  IInvArgs'
    <3>1. Given(c, val) /\ args_status' = "exit" /\ args' = args
      BY <2>6 DEF RefuseOption
    <3>2. given' \in Seq(Option)
      BY <3>1, GivenOne
    <3> QED
      BY <3>1, <3>2 DEF IInvArgs
  <2>7. CASE Validate
    <3>1. args_status = "options" /\ args' = args /\ given' = given
      BY <2>7 DEF Validate
    <3> QED
      BY <2>1, <3>1 DEF IInvArgs
  <2>8. CASE UNCHANGED args_vars
    BY <2>8 DEF args_vars, IInvArgs
  <2> QED
    BY <2>2, <2>4, <2>5, <2>6, <2>7, <2>8 DEF ArgsNext
<1>3. IInvArgs => AsGiven
  BY DEF IInvArgs, AsGiven, LastIn, UsesIn
<1> QED
  BY <1>1, <1>2, <1>3, PTL DEF ArgsSpec

=============================================================================
