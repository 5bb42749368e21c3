----------------------------- MODULE LineProofs -----------------------------
(***************************************************************************)
(* From the invariant LineInv: what handle_line takes out of a line, of    *)
(* any length, is what the line's grammar says.  And of numeric replies of *)
(* any size: which of them are written outside buf, and that a reply that  *)
(* is cut is a full line.                                                  *)
(***************************************************************************)
EXTENDS ReplyBuf, MCHandleLine, ListLemmas

LEMMA MinOfTwo ==
  ASSUME NEW x \in Int, NEW y \in Int
  PROVE  Min({x, y}) = IF x <= y THEN x ELSE y
<1> DEFINE m == IF x <= y THEN x ELSE y
<1>1. m \in {x, y} /\ \A z \in {x, y} : m <= z
  OBVIOUS
<1>2. \A z \in {x, y} : (\A w \in {x, y} : z <= w) => z = m
  OBVIOUS
<1> HIDE DEF m
<1>3. Min({x, y}) = CHOOSE z \in {x, y} : \A w \in {x, y} : z <= w
  BY DEF Min
<1>4. Min({x, y}) = m
  BY <1>1, <1>2, <1>3
<1> QED
  BY <1>4 DEF m

-----------------------------------------------------------------------------
(* The line's memory: NULs are written over spaces and the colon of the    *)
(* trailing parameter, and nowhere else.                                   *)
Chars == LineLetters \cup {Space, Colon}
MemoryInv ==
  /\ line \in Seq(Chars) /\ mem \in Seq(Chars \cup {NUL})
  /\ Len(mem) = Len(line) + 1 /\ mem[Len(mem)] = NUL
  /\ \A k \in DOMAIN line :
       /\ mem[k] \in {NUL, line[k]}
       /\ line[k] # Space /\ k # Rest => mem[k] = line[k]
Uncut(p, q) == \A k \in p .. q : mem[k] = line[k]

PrefixRead == prefix # 0 => prefix = 2 /\ line # <<>> /\ line[1] = Colon
CommandFound ==
  /\ From # 0 /\ command \in Starts
  /\ \A k \in From .. command - 1 : line[k] = Space
  /\ PrefixRead /\ (prefix # 0 => mem[From] = NUL)

(* Only spaces from the end of the command to pstart.                      *)
BehindCommand ==
  /\ pstart \in DOMAIN mem /\ mem[pstart] # Space
  /\ \E e \in command + 1 .. pstart - 1 :
       /\ \A k \in command .. e - 1 : line[k] # Space
       /\ \A k \in e .. pstart - 1 : line[k] = Space /\ mem[k] = NUL

(* The parameters so far are the words behind the command, each of them    *)
(* ended; the next one, if there is one, is at pstart.                     *)
Taken ==
  /\ mem[EndOf(command)] = NUL
  /\ params \in Seq(Starts)
  /\ \A i \in DOMAIN params :
       Cardinality(Below(params[i])) = i /\ mem[EndOf(params[i])] = NUL
TrailingCut ==
  /\ trailing = IF Rest = 0 THEN 0 ELSE Rest + 1
  /\ Rest # 0 => Uncut(Rest + 1, Len(line))
AtNextWord ==
  /\ pstart \in DOMAIN mem /\ mem[WordsEnd] = NUL
  /\ Uncut(pstart, WordsEnd - 1)
  /\ Cardinality(Below(pstart)) = Len(params) + 1
  /\ IF mem[pstart] = NUL THEN Starts = Below(pstart) ELSE pstart \in Starts

(* What the line has been cut into, before the command is looked up.       *)
CutAsWritten ==
  /\ WordsOf # <<>>
  /\ String(command) = Head(WordsOf)
  /\ params \in Seq(Nat)
  /\ [i \in DOMAIN params |-> String(params[i])] = Parameters
  /\ prefix # 0 => String(prefix) = SubSeq(line, 2, From - 1)

LineInv ==
  /\ MemoryInv
  /\ line_pc = "prefix" => Uncut(1, Len(line)) /\ params = <<>> /\ trailing = 0
  /\ line_pc = "command" =>
       /\ Uncut(1, Len(line)) /\ params = <<>> /\ trailing = 0
       /\ command = From /\ From \in DOMAIN line /\ PrefixRead
  /\ line_pc = "pstart" =>
       /\ CommandFound /\ Uncut(command, Len(line))
       /\ params = <<>> /\ trailing = 0
  /\ line_pc = "colon" =>
       CommandFound /\ BehindCommand /\ Uncut(pstart, Len(line)) /\ params = <<>>
  /\ line_pc = "params" =>
       /\ CommandFound /\ TrailingCut /\ Taken /\ AtNextWord
       /\ Len(params) < MAX_MSG_TOKENS
  /\ line_pc = "trailing" =>
       /\ CommandFound /\ TrailingCut /\ Taken
       /\ Len(params) < Cardinality(Starts) /\ Len(params) <= MAX_MSG_TOKENS
       /\ \/ Len(params) = MAX_MSG_TOKENS
          \/ Len(params) + 1 = Cardinality(Starts)
  /\ line_pc = "dispatch" => CutAsWritten
  /\ line_pc = "done" => ParsedAsWritten

-----------------------------------------------------------------------------
(* The grammar: where the words begin and end.                             *)

LEMMA LineTyped ==
  ASSUME line \in Seq(Chars)
  PROVE  /\ Len(line) \in Nat /\ DOMAIN line = 1 .. Len(line)
         /\ \A k \in 1 .. Len(line) : line[k] # NUL
         /\ line = <<>> <=> Len(line) = 0
<1>1. \A k \in 1 .. Len(line) : line[k] \in Chars
  BY ElementOfSeq
<1>2. NUL \notin Chars
  BY HandleLineAssumption DEF Chars
<1>3. line = <<>> <=> Len(line) = 0
  BY EmptySeq
<1> QED
  BY <1>1, <1>2, <1>3, LenProperties

LEMMA FromIs ==
  ASSUME line \in Seq(Chars)
  PROVE  /\ From \in Nat /\ From <= Len(line) + 1
         /\ line = <<>> \/ line[1] # Colon => From = 1
         /\ line # <<>> /\ line[1] = Colon =>
              IF From = 0
              THEN \A k \in 1 .. Len(line) : line[k] # Space
              ELSE /\ From \in 2 .. Len(line) /\ line[From] = Space
                   /\ \A k \in 1 .. From - 1 : line[k] # Space
<1> DEFINE S == {p \in DOMAIN line : line[p] = Space}
<1>0. Len(line) \in Nat /\ DOMAIN line = 1 .. Len(line)
  BY LineTyped
<1>1. CASE line = <<>> \/ line[1] # Colon
  BY <1>0, <1>1 DEF From
<1>2. CASE line # <<>> /\ line[1] = Colon
  <2>0. From = Where(S) /\ S \in SUBSET Nat
    BY <1>0, <1>2 DEF From
  <2>1. CASE S = {}
    <3>1. From = 0
      BY <2>0, <2>1, WhereIsFirst
    <3> QED
      BY <3>1, <2>1, <1>0, <1>2
  <2>2. CASE S # {}
    <3>1. From \in S /\ \A x \in S : From <= x
      BY <2>0, <2>2, WhereIsFirst
    <3>2. From \in 1 .. Len(line) /\ line[From] = Space /\ From # 1
      BY <3>1, <1>0, <1>2, HandleLineAssumption
    <3>3. ASSUME NEW k \in 1 .. From - 1 PROVE line[k] # Space
      <4>1. k \in DOMAIN line /\ ~(From <= k)
        BY <3>2, <1>0
      <4> QED
        BY <4>1, <3>1
    <3> QED
      BY <3>2, <3>3, <1>0, <1>2
  <2> QED
    BY <2>1, <2>2
<1> QED
  BY <1>1, <1>2

(* p is a colon behind a space and behind a word.                          *)
IsRest(p) ==
  /\ p \in 2 .. Len(line)
  /\ p > From /\ line[p] = Colon /\ line[p - 1] = Space
  /\ \E q \in 1 .. p - 1 : q >= From /\ line[q] # Space

LEMMA RestIs ==
  ASSUME line \in Seq(Chars)
  PROVE  /\ Rest \in Nat
         /\ IF Rest = 0 THEN \A p : ~IsRest(p)
            ELSE IsRest(Rest) /\ \A p : IsRest(p) => Rest <= p
<1> DEFINE S == {p \in 2 .. Len(line) :
                   /\ p > From /\ line[p] = Colon /\ line[p - 1] = Space
                   /\ \E q \in 1 .. p - 1 : q >= From /\ line[q] # Space}
<1>1. S \in SUBSET Nat /\ Rest = Where(S) /\ \A p : p \in S <=> IsRest(p)
  BY LineTyped DEF Rest, IsRest
<1>2. 0 \notin S
  OBVIOUS
<1> HIDE DEF S
<1>3. CASE S = {}
  <2>1. Rest = 0
    BY <1>1, <1>3, WhereIsFirst
  <2> QED
    BY <2>1, <1>1, <1>3
<1>4. CASE S # {}
  <2>1. Rest \in S /\ \A x \in S : Rest <= x
    BY <1>1, <1>4, WhereIsFirst
  <2> QED
    BY <2>1, <1>1, <1>2
<1> QED
  BY <1>3, <1>4

LEMMA WordsEndIs ==
  ASSUME line \in Seq(Chars), From # 0
  PROVE  /\ WordsEnd \in From .. Len(line) + 1
         /\ Rest = 0 => WordsEnd = Len(line) + 1
         /\ Rest # 0 =>
              /\ WordsEnd = Rest - 1 /\ From < WordsEnd
              /\ Rest \in 2 .. Len(line)
              /\ line[WordsEnd] = Space /\ line[Rest] = Colon
<1>1. From \in Nat /\ From <= Len(line) + 1 /\ Len(line) \in Nat
  BY FromIs, LineTyped
<1>2. CASE Rest = 0
  BY <1>1, <1>2 DEF WordsEnd
<1>3. CASE Rest # 0
  <2>1. IsRest(Rest)
    BY <1>3, RestIs
  <2>2. PICK q \in 1 .. Rest - 1 : q >= From /\ line[q] # Space
    BY <2>1 DEF IsRest
  <2>3. Rest \in 2 .. Len(line) /\ line[Rest - 1] = Space /\ line[Rest] = Colon
    BY <2>1 DEF IsRest
  <2>4. q # Rest - 1
    BY <2>2, <2>3
  <2>5. WordsEnd = Rest - 1
    BY <1>3 DEF WordsEnd
  <2> QED
    BY <1>1, <1>3, <2>2, <2>3, <2>4, <2>5
<1> QED
  BY <1>2, <1>3

(* A word ends at the first space behind its start, or where the words do. *)
LEMMA EndOfIs ==
  ASSUME line \in Seq(Chars), From # 0, NEW p \in From .. WordsEnd
  PROVE  /\ EndOf(p) \in p .. WordsEnd
         /\ EndOf(p) = WordsEnd \/ line[EndOf(p)] = Space
         /\ \A k \in p .. EndOf(p) - 1 : line[k] # Space /\ k # WordsEnd
<1> DEFINE S == {q \in p .. WordsEnd : q = WordsEnd \/ line[q] = Space}
<1>1. WordsEnd \in Nat /\ p \in Nat
  BY WordsEndIs, FromIs, LineTyped
<1>2. S \in SUBSET Nat /\ WordsEnd \in S
  BY <1>1
<1>3. EndOf(p) \in S /\ \A x \in S : EndOf(p) <= x
  <2> HIDE DEF S
  <2>1. \E m \in S : \A n \in S : m <= n
    BY <1>2, LeastNumber
  <2>2. EndOf(p) = Min(S)
    BY DEF EndOf, S
  <2> QED
    BY <2>1, <2>2 DEF Min
<1>4. ASSUME NEW k \in p .. EndOf(p) - 1 PROVE line[k] # Space /\ k # WordsEnd
  <2>1. k \in p .. WordsEnd /\ ~(EndOf(p) <= k)
    BY <1>1, <1>3
  <2> QED
    BY <2>1, <1>3
<1> QED
  BY <1>3, <1>4

(* ... and nothing else is its end.                                        *)
LEMMA EndIs ==
  ASSUME line \in Seq(Chars), From # 0, NEW p \in From .. WordsEnd,
         NEW e \in p .. WordsEnd, e = WordsEnd \/ line[e] = Space,
         \A k \in p .. e - 1 : line[k] # Space
  PROVE  EndOf(p) = e
<1>1. WordsEnd \in Nat /\ p \in Nat
  BY WordsEndIs, FromIs, LineTyped
<1>2. /\ EndOf(p) \in p .. WordsEnd
      /\ EndOf(p) = WordsEnd \/ line[EndOf(p)] = Space
      /\ \A k \in p .. EndOf(p) - 1 : line[k] # Space /\ k # WordsEnd
  BY EndOfIs
<1>3. ~(e < EndOf(p))
  BY <1>1, <1>2
<1>4. ~(EndOf(p) < e)
  BY <1>1, <1>2
<1> QED
  BY <1>1, <1>2, <1>3, <1>4

(* The words in the order of their starts.                                 *)
LEMMA StartsAre ==
  ASSUME line \in Seq(Chars), From # 0
  PROVE  /\ Starts = {p \in From .. WordsEnd - 1 :
                       line[p] # Space /\ (p = From \/ line[p - 1] = Space)}
         /\ From \in Nat \ {0} /\ WordsEnd \in Nat /\ Starts \in SUBSET Nat
         /\ IsFiniteSet(Starts) /\ Cardinality(Starts) \in Nat
<1>1. From \in Nat \ {0} /\ WordsEnd \in Nat
  BY FromIs, WordsEndIs, LineTyped
<1>2. Starts = {p \in From .. WordsEnd - 1 :
                  line[p] # Space /\ (p = From \/ line[p - 1] = Space)}
  BY DEF Starts
<1>3. Starts \subseteq From .. WordsEnd - 1
  BY <1>2
<1>4. IsFiniteSet(From .. WordsEnd - 1)
  BY <1>1, FS_Interval
<1>5. IsFiniteSet(Starts)
  BY <1>3, <1>4, FS_Subset
<1> QED
  BY <1>1, <1>2, <1>3, <1>5, FS_CardinalityType

LEMMA BelowIs ==
  ASSUME line \in Seq(Chars), From # 0, NEW p
  PROVE  /\ Below(p) \subseteq Starts /\ p \notin Below(p)
         /\ IsFiniteSet(Below(p)) /\ Cardinality(Below(p)) \in Nat
         /\ Cardinality(Below(p)) <= Cardinality(Starts)
<1>1. Below(p) \subseteq Starts /\ p \notin Below(p)
  BY StartsAre DEF Below
<1> QED
  BY <1>1, StartsAre, FS_Subset, FS_CardinalityType

LEMMA BelowStrictly ==
  ASSUME line \in Seq(Chars), From # 0, NEW p \in Starts, NEW T,
         T \subseteq Starts, p \in T, Below(p) \subseteq T
  PROVE  Cardinality(Below(p)) < Cardinality(T)
<1>1. IsFiniteSet(T) /\ Cardinality(T) \in Nat
  BY StartsAre, FS_Subset, FS_CardinalityType
<1>2. /\ IsFiniteSet(Below(p)) /\ p \notin Below(p)
      /\ Cardinality(Below(p)) \in Nat
  BY BelowIs
<1>3. Cardinality(Below(p) \cup {p}) = Cardinality(Below(p)) + 1
  BY <1>2, FS_AddElement
<1>4. Cardinality(Below(p) \cup {p}) <= Cardinality(T)
  <2>1. Below(p) \cup {p} \subseteq T
    OBVIOUS
  <2> QED
    BY <2>1, <1>1, FS_Subset
<1> QED
  BY <1>1, <1>2, <1>3, <1>4

LEMMA BelowTellsApart ==
  ASSUME line \in Seq(Chars), From # 0, NEW p \in Starts, NEW q \in Starts,
         Cardinality(Below(p)) = Cardinality(Below(q))
  PROVE  p = q
<1>0. p \in Nat /\ q \in Nat /\ Starts \in SUBSET Nat
  BY StartsAre
<1>1. ASSUME NEW x \in Starts, NEW y \in Starts, x < y
      PROVE  Cardinality(Below(x)) < Cardinality(Below(y))
  <2>1. Below(y) \subseteq Starts /\ x \in Below(y)
    BY <1>1 DEF Below
  <2>2. Below(x) \subseteq Below(y)
    <3>1. x \in Nat /\ y \in Nat /\ \A z \in Starts : z \in Nat
      BY <1>0
    <3>2. \A z \in Starts : z < x => z < y
      BY <3>1, <1>1
    <3> QED
      BY <3>2 DEF Below
  <2> QED
    BY <2>1, <2>2, BelowStrictly
<1>2. Cardinality(Below(p)) \in Nat /\ Cardinality(Below(q)) \in Nat
  BY BelowIs
<1>3. ~(p < q) /\ ~(q < p)
  BY <1>1, <1>2
<1> QED
  BY <1>0, <1>3

LEMMA WordNumber ==
  ASSUME line \in Seq(Chars), From # 0, NEW p \in Starts,
         NEW n \in Nat, Cardinality(Below(p)) = n
  PROVE  n + 1 \in 1 .. Cardinality(Starts) /\ WordsOf[n + 1] = WordAt(p)
<1>1. n < Cardinality(Starts)
  BY BelowStrictly, BelowIs
<1>2. n + 1 \in 1 .. Cardinality(Starts) /\ n + 1 - 1 = n
  BY <1>1, StartsAre
<1>3. (CHOOSE q \in Starts : Cardinality(Below(q)) = n) = p
  BY BelowTellsApart
<1>4. WordsOf[n + 1]
        = WordAt(CHOOSE q \in Starts : Cardinality(Below(q)) = n + 1 - 1)
  BY <1>2 DEF WordsOf
<1> QED
  BY <1>2, <1>3, <1>4

LEMMA FirstStart ==
  ASSUME line \in Seq(Chars), From # 0, NEW p \in From .. WordsEnd,
         \A k \in From .. p - 1 : line[k] = Space
  PROVE  /\ p # WordsEnd /\ line[p] # Space => p \in Starts /\ Below(p) = {}
         /\ p = WordsEnd => Starts = {}
<1> USE StartsAre
<1>1. \A q \in Starts : ~(q < p)
  <2> SUFFICES ASSUME NEW q \in Starts, q < p PROVE FALSE
    OBVIOUS
  <2>1. q \in From .. p - 1
    OBVIOUS
  <2> QED
    BY <2>1
<1>2. ASSUME p # WordsEnd, line[p] # Space PROVE p \in Starts
  <2>1. p \in From .. WordsEnd - 1
    BY <1>2
  <2>2. p = From \/ line[p - 1] = Space
    BY <2>1
  <2> QED
    BY <2>1, <2>2, <1>2
<1>3. p = WordsEnd => \A q \in Starts : q < p
  OBVIOUS
<1> QED
  BY <1>1, <1>2, <1>3 DEF Below

(* The next word is behind the spaces behind this one.                     *)
LEMMA NextStart ==
  ASSUME line \in Seq(Chars), From # 0, NEW p \in Starts,
         NEW q \in EndOf(p) .. WordsEnd,
         \A k \in EndOf(p) .. q - 1 : line[k] = Space,
         q = WordsEnd \/ line[q] # Space
  PROVE  /\ Cardinality(Below(q)) = Cardinality(Below(p)) + 1
         /\ IF q = WordsEnd THEN Starts = Below(q) ELSE q \in Starts
<1>1. /\ Starts = {r \in From .. WordsEnd - 1 :
                     line[r] # Space /\ (r = From \/ line[r - 1] = Space)}
      /\ From \in Nat \ {0} /\ WordsEnd \in Nat
  BY StartsAre
<1>2. p \in From .. WordsEnd - 1 /\ p \in From .. WordsEnd /\ line[p] # Space
  BY <1>1
<1>3. /\ EndOf(p) \in p .. WordsEnd
      /\ EndOf(p) = WordsEnd \/ line[EndOf(p)] = Space
      /\ \A k \in p .. EndOf(p) - 1 : line[k] # Space
  BY <1>2, EndOfIs
<1>4. EndOf(p) # p
  BY <1>2, <1>3
<1>5. ASSUME NEW r \in Starts, r < q, r # p PROVE r < p
  <2> SUFFICES ASSUME p < r PROVE FALSE
    BY <1>1, <1>2, <1>5
  <2>1. line[r] # Space /\ line[r - 1] = Space
    BY <1>1, <1>2
  <2>2. CASE r < EndOf(p)
    <3>1. r - 1 \in p .. EndOf(p) - 1
      BY <1>1, <1>2, <1>3, <2>2
    <3> QED
      BY <3>1, <2>1, <1>3
  <2>3. CASE r = EndOf(p)
    BY <2>1, <2>3, <1>1, <1>3, <1>5
  <2>4. CASE EndOf(p) < r
    <3>1. r \in EndOf(p) .. q - 1
      BY <1>1, <1>3, <1>5, <2>4
    <3> QED
      BY <3>1, <2>1
  <2> QED
    BY <1>1, <1>3, <2>2, <2>3, <2>4
<1>6. p < q
  BY <1>1, <1>2, <1>3, <1>4
<1>7. Below(q) = Below(p) \cup {p}
  BY <1>1, <1>2, <1>3, <1>5, <1>6 DEF Below
<1>8. Cardinality(Below(q)) = Cardinality(Below(p)) + 1
  BY <1>7, BelowIs, FS_AddElement
<1>9. CASE q = WordsEnd
  <2>1. Starts = Below(q)
    BY <1>9, <1>1 DEF Below
  <2> QED
    BY <2>1, <1>8, <1>9
<1>10. CASE q # WordsEnd
  <2>1. q \in From .. WordsEnd - 1 /\ line[q] # Space
    BY <1>1, <1>2, <1>3, <1>10
  <2>2. EndOf(p) # WordsEnd /\ q # EndOf(p)
    BY <1>1, <1>3, <1>10, <2>1
  <2>3. q - 1 \in EndOf(p) .. q - 1
    BY <1>1, <1>3, <2>1, <2>2
  <2>4. q \in Starts
    BY <1>1, <2>1, <2>3
  <2> QED
    BY <2>4, <1>8, <1>10
<1> QED
  BY <1>9, <1>10

-----------------------------------------------------------------------------
(* What the searches find in the line's memory, and what the loops that    *)
(* write NULs leave of it.                                                 *)

LEMMA MemoryTyped ==
  ASSUME MemoryInv
  PROVE  /\ line \in Seq(Chars) /\ Len(line) \in Nat
         /\ DOMAIN line = 1 .. Len(line)
         /\ Len(mem) = Len(line) + 1 /\ Len(mem) \in Nat \ {0}
         /\ DOMAIN mem = 1 .. Len(mem) /\ mem[Len(mem)] = NUL
         /\ \A k \in 1 .. Len(mem) : mem[k] \in Chars \cup {NUL}
<1>1. \A k \in 1 .. Len(mem) : mem[k] \in Chars \cup {NUL}
  BY ElementOfSeq DEF MemoryInv
<1>2. line \in Seq(Chars) /\ Len(mem) = Len(line) + 1 /\ mem[Len(mem)] = NUL
  BY DEF MemoryInv
<1>3. DOMAIN mem = 1 .. Len(mem)
  BY LenProperties DEF MemoryInv
<1> QED
  BY <1>1, <1>2, <1>3, LineTyped

(* What is not cut up to a NUL is one string.                              *)
LEMMA StringIs ==
  ASSUME MemoryInv, NEW p \in Nat \ {0}, NEW e \in p .. Len(mem), mem[e] = NUL,
         \A k \in p .. e - 1 : mem[k] = line[k]
  PROVE  String(p) = SubSeq(line, p, e - 1)
<1> USE MemoryTyped
<1>1. \A k \in p .. e - 1 : k \in 1 .. Len(line) /\ mem[k] # NUL
  BY LineTyped
<1>2. NulAfter(mem, p) = e
  <2>1. \/ NulAfter(mem, p) = 0 /\ NoneOf(mem, p, Len(mem), {NUL})
        \/ /\ NulAfter(mem, p) \in p .. Len(mem)
           /\ mem[NulAfter(mem, p)] = NUL
           /\ NoneOf(mem, p, NulAfter(mem, p) - 1, {NUL})
    BY NulIsFirst
  <2>2. ~NoneOf(mem, p, Len(mem), {NUL})
    BY DEF NoneOf
  <2>3. ~(NulAfter(mem, p) \in p .. e - 1)
    BY <2>1, <2>2, <1>1
  <2>4. ~(e < NulAfter(mem, p))
    <3> SUFFICES ASSUME e < NulAfter(mem, p) PROVE FALSE
      OBVIOUS
    <3>1. NoneOf(mem, p, NulAfter(mem, p) - 1, {NUL})
      BY <2>1, <2>2
    <3>2. e \in p .. NulAfter(mem, p) - 1
      BY <2>1, <2>2
    <3> QED
      BY <3>1, <3>2 DEF NoneOf
  <2> QED
    BY <2>1, <2>2, <2>3, <2>4
<1> DEFINE B == Chars \cup {NUL}
           x == SubSeq(mem, p, e - 1)
           y == SubSeq(line, p, e - 1)
<1>3. \A k \in p .. e - 1 : mem[k] \in B /\ line[k] \in B
  <2>1. \A k \in 1 .. Len(line) : line[k] \in Chars
    BY ElementOfSeq
  <2> QED
    BY <1>1, <2>1
<1>4. p \in Int /\ e - 1 \in Int
  OBVIOUS
<1> HIDE DEF B
<1>5. /\ x \in Seq(B) /\ Len(x) = IF p <= e - 1 THEN e - 1 - p + 1 ELSE 0
      /\ \A i \in 1 .. e - 1 - p + 1 : x[i] = mem[p + i - 1]
  BY <1>3, <1>4, SubSeqProperties
<1>6. /\ y \in Seq(B) /\ Len(y) = IF p <= e - 1 THEN e - 1 - p + 1 ELSE 0
      /\ \A i \in 1 .. e - 1 - p + 1 : y[i] = line[p + i - 1]
  BY <1>3, <1>4, SubSeqProperties
<1> HIDE DEF x, y
<1>7. \A i \in 1 .. Len(x) : x[i] = y[i]
  <2> TAKE i \in 1 .. Len(x)
  <2>1. i \in 1 .. e - 1 - p + 1 /\ p + i - 1 \in p .. e - 1
    BY <1>5
  <2> QED
    BY <2>1, <1>5, <1>6
<1>8. x = y
  BY <1>5, <1>6, <1>7, SeqEqual
<1> QED
  BY <1>2, <1>8 DEF String, x, y

LEMMA strchrIs ==
  ASSUME MemoryInv, NEW p \in Nat \ {0}, NEW e \in p .. Len(mem),
         mem[e] \in {Space, NUL},
         \A k \in p .. e - 1 : mem[k] # Space /\ mem[k] # NUL
  PROVE  strchr(p) = IF mem[e] = Space THEN e ELSE 0
<1> DEFINE n == NulAfter(mem, p)
           S == {q \in p .. n : mem[q] = Space}
<1> USE MemoryTyped, HandleLineAssumption
<1>1. n \in e .. Len(mem) /\ mem[n] = NUL /\ NoneOf(mem, p, n - 1, {NUL})
  <2>1. \/ n = 0 /\ NoneOf(mem, p, Len(mem), {NUL})
        \/ n \in p .. Len(mem) /\ mem[n] = NUL /\ NoneOf(mem, p, n - 1, {NUL})
    BY NulIsFirst
  <2>2. ~NoneOf(mem, p, Len(mem), {NUL})
    BY DEF NoneOf
  <2> HIDE DEF n
  <2>3. ~(n \in p .. e - 1)
    BY <2>1, <2>2
  <2> QED
    BY <2>1, <2>2, <2>3
<1>2. strchr(p) = Where(S)
  BY DEF strchr
<1> HIDE DEF n
<1>3. S \in SUBSET Nat
  BY <1>1
<1>4. CASE mem[e] = Space
  <2>1. e \in S
    BY <1>1, <1>4
  <2>2. Where(S) \in S /\ Where(S) <= e
    BY <1>3, <2>1, WhereIsFirst
  <2>3. ~(Where(S) \in p .. e - 1)
    BY <2>2
  <2>4. Where(S) = e
    BY <2>2, <2>3, <1>1
  <2> QED
    BY <2>4, <1>2, <1>4
<1>5. CASE mem[e] = NUL
  <2>1. n = e
    BY <1>1, <1>5 DEF NoneOf
  <2>2. S = {}
    BY <2>1, <1>5
  <2> QED
    BY <2>2, <1>2, <1>3, <1>5, WhereIsFirst
<1> QED
  BY <1>4, <1>5

LEMMA PastSpacesIs ==
  ASSUME MemoryInv, NEW p \in 1 .. Len(mem)
  PROVE  /\ PastSpaces(p) \in p .. Len(mem) /\ mem[PastSpaces(p)] # Space
         /\ \A k \in p .. PastSpaces(p) - 1 : mem[k] = Space
<1> DEFINE S == {q \in p .. Len(mem) : mem[q] # Space}
<1> USE MemoryTyped, HandleLineAssumption
<1>1. S \in SUBSET Nat /\ Len(mem) \in S
  OBVIOUS
<1>2. PastSpaces(p) \in S /\ \A x \in S : PastSpaces(p) <= x
  <2> HIDE DEF S
  <2>1. \E m \in S : \A n \in S : m <= n
    BY <1>1, LeastNumber
  <2>2. PastSpaces(p) = Min(S)
    BY DEF PastSpaces, S
  <2> QED
    BY <2>1, <2>2 DEF Min
<1>3. ASSUME NEW k \in p .. PastSpaces(p) - 1 PROVE mem[k] = Space
  <2>1. k \in p .. Len(mem) /\ ~(PastSpaces(p) <= k)
    BY <1>2
  <2> QED
    BY <2>1, <1>2
<1> QED
  BY <1>2, <1>3

LEMMA LineStays ==
  ASSUME line' = line
  PROVE  /\ From' = From /\ Rest' = Rest /\ WordsEnd' = WordsEnd
         /\ Starts' = Starts /\ WordsOf' = WordsOf /\ Parameters' = Parameters
         /\ \A p : EndOf(p)' = EndOf(p) /\ Below(p)' = Below(p)
<1>1. From' = From
  BY DEF From
<1>2. Rest' = Rest
  BY <1>1 DEF Rest
<1>3. WordsEnd' = WordsEnd
  BY <1>2 DEF WordsEnd
<1>4. Starts' = Starts
  BY <1>1, <1>3 DEF Starts
<1>5. \A p : EndOf(p)' = EndOf(p)
  BY <1>3 DEF EndOf
<1>6. \A p : Below(p)' = Below(p)
  BY <1>4 DEF Below
<1>7. WordsOf' = WordsOf
  BY <1>3, <1>4 DEF WordsOf, WordAt, EndOf, Below
<1>8. Trailing' = Trailing
  BY <1>2 DEF Trailing
<1>9. Parameters' = Parameters
  BY <1>7, <1>8 DEF Parameters
<1> QED
  BY <1>1, <1>2, <1>3, <1>4, <1>5, <1>6, <1>7, <1>9

(* NULs written over spaces and over the colon of the trailing parameter.  *)
LEMMA ClearedIs ==
  ASSUME MemoryInv, line' = line, NEW p \in Nat, NEW q \in Nat,
         mem' = Cleared(p, q),
         \A k \in p .. q - 1 : k \in DOMAIN line => line[k] = Space \/ k = Rest
  PROVE  /\ MemoryInv'
         /\ \A k \in 1 .. Len(mem) :
              mem'[k] = IF k \in p .. q - 1 THEN NUL ELSE mem[k]
<1> DEFINE B == Chars \cup {NUL}
<1>1. /\ line \in Seq(Chars) /\ Len(line) \in Nat
      /\ DOMAIN line = 1 .. Len(line)
      /\ Len(mem) = Len(line) + 1 /\ Len(mem) \in Nat \ {0}
      /\ DOMAIN mem = 1 .. Len(mem) /\ mem[Len(mem)] = NUL
      /\ \A k \in 1 .. Len(mem) : mem[k] \in B
  BY MemoryTyped
<1>2. mem' = [k \in 1 .. Len(mem) |-> IF k \in p .. q - 1 THEN NUL ELSE mem[k]]
  BY <1>1 DEF Cleared
<1>3. \A k \in 1 .. Len(mem) : mem'[k] = IF k \in p .. q - 1 THEN NUL ELSE mem[k]
  BY <1>2
<1>4. mem' \in [1 .. Len(mem) -> B]
  BY <1>1, <1>2
<1>5. mem' \in Seq(B) /\ Len(mem') = Len(mem)
  BY <1>1, <1>4
<1>6. mem'[Len(mem')] = NUL
  BY <1>1, <1>3, <1>5
<1>7. ASSUME NEW k \in DOMAIN line
      PROVE  /\ mem'[k] \in {NUL, line[k]}
             /\ line[k] # Space /\ k # Rest => mem'[k] = line[k]
  <2>1. /\ mem[k] \in {NUL, line[k]}
        /\ line[k] # Space /\ k # Rest => mem[k] = line[k]
    BY DEF MemoryInv
  <2>2. mem'[k] = IF k \in p .. q - 1 THEN NUL ELSE mem[k]
    BY <1>1, <1>3
  <2> QED
    BY <2>1, <2>2
<1>8. Rest' = Rest /\ Chars' = Chars
  BY LineStays DEF Chars
<1>9. MemoryInv'
  BY <1>1, <1>5, <1>6, <1>7, <1>8 DEF MemoryInv
<1> QED
  BY <1>3, <1>9

-----------------------------------------------------------------------------
(* The steps of handle_line, each from one state of LineInv to the next.   *)

LEMMA MemoryStays ==
  ASSUME MemoryInv, mem' = mem, line' = line
  PROVE  MemoryInv'
<1>1. Rest' = Rest
  BY LineStays
<1> QED
  BY <1>1 DEF MemoryInv, Chars

LEMMA WordsThereAre ==
  ASSUME line \in Seq(Chars)
  PROVE  /\ From = 0 \/ Starts = {} => WordsOf = <<>>
         /\ From # 0 /\ Starts # {} => WordsOf # <<>>
<1>1. ASSUME From = 0 \/ Starts = {} PROVE WordsOf = <<>>
  <2>1. Starts = {}
    BY <1>1 DEF Starts
  <2>2. Cardinality(Starts) = 0
    BY <2>1, FS_EmptySet
  <2> QED
    BY <2>2 DEF WordsOf
<1>2. ASSUME From # 0, Starts # {} PROVE WordsOf # <<>>
  <2>1. Cardinality(Starts) \in Nat \ {0}
    BY <1>2, StartsAre, FS_EmptySet
  <2>2. 1 \in DOMAIN WordsOf
    BY <2>1 DEF WordsOf
  <2> QED
    BY <2>2
<1> QED
  BY <1>1, <1>2

LEMMA NoWordNoCommand ==
  ASSUME MemoryInv', line' = line, From = 0 \/ Starts = {}, NoCommand
  PROVE  LineInv'
<1>1. WordsOf' = <<>>
  <2>1. line \in Seq(Chars)
    BY DEF MemoryInv, Chars
  <2>2. WordsOf = <<>>
    BY <2>1, WordsThereAre
  <2> QED
    BY <2>2, LineStays
<1>2. line_pc' = "done" /\ outcome' = "no command"
  BY DEF NoCommand
<1>3. ParsedAsWritten'
  BY <1>1, <1>2 DEF ParsedAsWritten
<1> QED
  BY <1>2, <1>3 DEF LineInv

LEMMA TakePrefixStep ==
  ASSUME LineInv, TakePrefix, line' = line
  PROVE  LineInv'
<1>1. /\ line_pc = "prefix" /\ MemoryInv /\ Uncut(1, Len(line))
      /\ params = <<>> /\ trailing = 0
  BY DEF TakePrefix, LineInv
<1>2. /\ mem' = mem /\ params' = <<>> /\ trailing' = 0
      /\ IF mem[1] = Colon THEN prefix' = 2 /\ command' = strchr(2)
                           ELSE prefix' = 0 /\ command' = 1
      /\ IF command' = 0 \/ mem[command'] = NUL
         THEN NoCommand ELSE line_pc' = "command"
  BY <1>1 DEF TakePrefix
<1>3. MemoryInv'
  BY <1>1, <1>2, MemoryStays
<1> USE HandleLineAssumption
<1>4. /\ line \in Seq(Chars) /\ Len(line) \in Nat
      /\ DOMAIN line = 1 .. Len(line)
      /\ Len(mem) = Len(line) + 1 /\ mem[Len(mem)] = NUL
      /\ \A k \in 1 .. Len(line) : mem[k] = line[k] /\ line[k] # NUL
      /\ line = <<>> <=> Len(line) = 0
  BY <1>1, MemoryTyped, LineTyped DEF Uncut
<1>5. command' = From
  <2>1. CASE mem[1] = Colon
    <3>1. line # <<>> /\ line[1] = Colon /\ Len(mem) >= 2
      BY <1>4, <2>1
    <3>2. CASE From = 0
      <4>1. \A k \in 2 .. Len(mem) - 1 : mem[k] # Space /\ mem[k] # NUL
        BY <1>4, <3>1, <3>2, FromIs
      <4>2. Len(mem) \in 2 .. Len(mem) /\ mem[Len(mem)] # Space
        BY <1>4, <3>1
      <4>3. strchr(2) = 0
        BY <1>1, <1>4, <4>1, <4>2, strchrIs
      <4> QED
        BY <4>3, <1>2, <2>1, <3>2
    <3>3. CASE From # 0
      <4>1. /\ From \in 2 .. Len(line) /\ line[From] = Space
            /\ \A k \in 1 .. From - 1 : line[k] # Space
        BY <1>4, <3>1, <3>3, FromIs
      <4>2. From \in 2 .. Len(mem) /\ mem[From] = Space
        BY <1>4, <4>1
      <4>3. \A k \in 2 .. From - 1 : mem[k] # Space /\ mem[k] # NUL
        BY <1>4, <4>1
      <4>4. strchr(2) = From
        BY <1>1, <4>2, <4>3, strchrIs
      <4> QED
        BY <4>4, <1>2, <2>1
    <3> QED
      BY <3>2, <3>3
  <2>2. CASE mem[1] # Colon
    <3>1. line = <<>> \/ line[1] # Colon
      BY <1>4, <2>2
    <3> QED
      BY <3>1, <2>2, <1>2, <1>4, FromIs
  <2> QED
    BY <2>1, <2>2
<1>6. From \in Nat /\ From <= Len(line) + 1
  BY <1>4, FromIs
<1>7. CASE From = 0 \/ mem[From] = NUL
  <2>1. From = 0 \/ Starts = {}
    <3> SUFFICES ASSUME From # 0 PROVE Starts = {}
      OBVIOUS
    <3>1. From = Len(line) + 1
      BY <1>4, <1>6, <1>7
    <3>2. WordsEnd = From
      BY <1>4, <1>6, <3>1, WordsEndIs
    <3> QED
      BY <1>4, <1>6, <3>2, FirstStart
  <2> QED
    BY <2>1, <1>2, <1>3, <1>5, <1>7, NoWordNoCommand
<1>8. CASE ~(From = 0 \/ mem[From] = NUL)
  <2>1. line_pc' = "command"
    BY <1>2, <1>5, <1>8
  <2>2. From \in DOMAIN line
    BY <1>4, <1>6, <1>8
  <2>3. PrefixRead'
    BY <1>2, <1>4, <2>2 DEF PrefixRead
  <2>4. Uncut(1, Len(line))'
    BY <1>1, <1>2 DEF Uncut
  <2>5. (command = From /\ From \in DOMAIN line)'
    BY <2>2, <1>5, LineStays
  <2> QED
    BY <1>2, <1>3, <2>1, <2>3, <2>4, <2>5 DEF LineInv
<1> QED
  BY <1>7, <1>8

(* The first word begins in front of the end of the words.                 *)
LEMMA FirstWordIsBefore ==
  ASSUME line \in Seq(Chars), From # 0, NEW q \in From .. Len(line),
         line[q] # Space, \A k \in From .. q - 1 : line[k] = Space
  PROVE  q \in From .. WordsEnd /\ q # WordsEnd
<1>1. /\ From \in Nat /\ Len(line) \in Nat
      /\ WordsEnd \in From .. Len(line) + 1
      /\ Rest = 0 => WordsEnd = Len(line) + 1
      /\ Rest # 0 => WordsEnd = Rest - 1 /\ line[WordsEnd] = Space
  BY WordsEndIs, FromIs, LineTyped
<1>2. CASE Rest = 0
  BY <1>1, <1>2
<1>3. CASE Rest # 0
  <2>1. PICK r \in 1 .. Rest - 1 : r >= From /\ line[r] # Space
    BY <1>3, RestIs DEF IsRest
  <2>2. r # WordsEnd /\ r <= WordsEnd
    BY <1>1, <1>3, <2>1
  <2>3. ~(r \in From .. q - 1)
    BY <2>1
  <2> QED
    BY <1>1, <2>1, <2>2, <2>3
<1> QED
  BY <1>2, <1>3

LEMMA SkipToCommandStep ==
  ASSUME LineInv, SkipToCommand, line' = line
  PROVE  LineInv'
<1>1. /\ line_pc = "command" /\ MemoryInv /\ Uncut(1, Len(line))
      /\ params = <<>> /\ trailing = 0
      /\ command = From /\ From \in DOMAIN line /\ PrefixRead
  BY DEF SkipToCommand, LineInv
<1> DEFINE q == PastSpaces(From)
<1>2. /\ command' = q /\ mem' = Cleared(From, q)
      /\ IF mem[q] = NUL THEN NoCommand ELSE line_pc' = "pstart"
      /\ prefix' = prefix /\ params' = <<>> /\ trailing' = 0
  BY <1>1 DEF SkipToCommand
<1> USE HandleLineAssumption
<1>3. /\ line \in Seq(Chars) /\ Len(line) \in Nat
      /\ DOMAIN line = 1 .. Len(line)
      /\ Len(mem) = Len(line) + 1 /\ mem[Len(mem)] = NUL
      /\ \A k \in 1 .. Len(line) : mem[k] = line[k] /\ line[k] # NUL
  BY <1>1, MemoryTyped, LineTyped DEF Uncut
<1>4. From \in 1 .. Len(mem) /\ From \in Nat \ {0}
  BY <1>1, <1>3
<1>5. /\ q \in From .. Len(mem) /\ mem[q] # Space
      /\ \A k \in From .. q - 1 : mem[k] = Space
  BY <1>1, <1>4, PastSpacesIs
<1> HIDE DEF q
<1>6. \A k \in From .. q - 1 : k \in DOMAIN line /\ line[k] = Space
  BY <1>3, <1>4, <1>5
<1>7. /\ MemoryInv'
      /\ \A k \in 1 .. Len(mem) :
           mem'[k] = IF k \in From .. q - 1 THEN NUL ELSE mem[k]
  <2>1. q \in Nat /\ From \in Nat
    BY <1>4, <1>5
  <2> QED
    BY <2>1, <1>1, <1>2, <1>6, ClearedIs
<1>8. CASE mem[q] = NUL
  <2>1. q = Len(line) + 1
    BY <1>3, <1>4, <1>5, <1>8
  <2>2. WordsEnd \in From .. Len(line) + 1
    BY <1>3, <1>4, WordsEndIs
  <2>3. \A k \in From .. WordsEnd - 1 : line[k] = Space
    BY <1>3, <1>4, <1>6, <2>1, <2>2
  <2>4. WordsEnd \in From .. WordsEnd
    BY <1>3, <1>4, <2>2
  <2>5. Starts = {}
    BY <1>3, <1>4, <2>3, <2>4, FirstStart
  <2> QED
    BY <2>5, <1>2, <1>7, <1>8, NoWordNoCommand
<1>9. CASE mem[q] # NUL
  <2>1. q \in From .. Len(line) /\ line[q] # Space
    BY <1>3, <1>4, <1>5, <1>9
  <2>2. q \in From .. WordsEnd /\ q # WordsEnd
    BY <1>3, <1>4, <1>6, <2>1, FirstWordIsBefore
  <2>3. q \in Starts
    BY <1>3, <1>4, <1>6, <2>1, <2>2, FirstStart
  <2>4. prefix # 0 => mem'[From] = NUL
    <3> SUFFICES ASSUME prefix # 0 PROVE mem'[From] = NUL
      OBVIOUS
    <3>1. line[From] = Space
      BY <1>1, <1>3, <1>4, FromIs DEF PrefixRead
    <3>2. From \in From .. q - 1
      BY <1>4, <2>1, <3>1
    <3> QED
      BY <3>2, <1>4, <1>7
  <2>5. CommandFound'
    <3>1. PrefixRead'
      BY <1>1, <1>2 DEF PrefixRead
    <3>2. From' = From /\ Starts' = Starts
      BY LineStays
    <3> QED
      BY <3>1, <3>2, <1>2, <1>4, <1>6, <2>3, <2>4 DEF CommandFound
  <2>6. Uncut(command, Len(line))'
    <3>1. \A k \in q .. Len(line) : mem'[k] = line[k]
      BY <1>3, <1>4, <1>5, <1>7
    <3> QED
      BY <3>1, <1>2 DEF Uncut
  <2> QED
    BY <2>5, <2>6, <1>2, <1>7, <1>9 DEF LineInv
<1> QED
  BY <1>8, <1>9

(* Facts about the command that the later steps share.                     *)
LEMMA CommandIs ==
  ASSUME MemoryInv, CommandFound
  PROVE  /\ From \in Nat \ {0} /\ WordsEnd \in Nat
         /\ WordsEnd <= Len(line) + 1
         /\ command \in From .. WordsEnd - 1 /\ line[command] # Space
         /\ Cardinality(Below(command)) = 0
<1>1. line \in Seq(Chars) /\ From # 0 /\ command \in Starts
  BY MemoryTyped DEF CommandFound
<1>2. /\ From \in Nat \ {0} /\ WordsEnd \in Nat
      /\ command \in From .. WordsEnd - 1 /\ line[command] # Space
  BY <1>1, StartsAre
<1>3. WordsEnd <= Len(line) + 1
  BY <1>1, <1>2, WordsEndIs, LineTyped
<1>4. command \in From .. WordsEnd /\ command # WordsEnd
  BY <1>2
<1>5. Below(command) = {}
  BY <1>1, <1>2, <1>4, FirstStart DEF CommandFound
<1> QED
  BY <1>2, <1>3, <1>5, FS_EmptySet

LEMMA CommandStays ==
  ASSUME MemoryInv, CommandFound, UNCHANGED <<line, prefix, command>>,
         \A k \in 1 .. Len(mem) : mem'[k] \in {NUL, mem[k]}
  PROVE  CommandFound'
<1>1. From' = From /\ Starts' = Starts
  BY LineStays
<1>2. PrefixRead'
  BY DEF CommandFound, PrefixRead
<1>3. prefix # 0 => mem'[From] = NUL
  <2>1. From \in 1 .. Len(mem)
    BY CommandIs, MemoryTyped
  <2> QED
    BY <2>1 DEF CommandFound
<1> QED
  BY <1>1, <1>2, <1>3 DEF CommandFound

(* The first space or NUL at or behind a position.                         *)
LEMMA FirstStop ==
  ASSUME MemoryInv, NEW p \in 1 .. Len(mem)
  PROVE  \E e \in p .. Len(mem) :
           /\ mem[e] \in {Space, NUL}
           /\ \A k \in p .. e - 1 : mem[k] # Space /\ mem[k] # NUL
<1> DEFINE S == {q \in p .. Len(mem) : mem[q] \in {Space, NUL}}
<1>1. Len(mem) \in Nat \ {0} /\ mem[Len(mem)] = NUL
  BY MemoryTyped
<1>2. S \in SUBSET Nat /\ Len(mem) \in S
  BY <1>1
<1>3. PICK e \in S : \A n \in S : e <= n
  <2> HIDE DEF S
  <2> QED
    BY <1>2, LeastNumber
<1>4. ASSUME NEW k \in p .. e - 1 PROVE mem[k] # Space /\ mem[k] # NUL
  <2>1. k \in p .. Len(mem) /\ ~(e <= k)
    BY <1>1, <1>3
  <2> QED
    BY <2>1, <1>3
<1> QED
  BY <1>3, <1>4

LEMMA EndCommandStep ==
  ASSUME LineInv, EndCommand, line' = line
  PROVE  LineInv'
<1>1. /\ line_pc = "pstart" /\ MemoryInv /\ CommandFound
      /\ Uncut(command, Len(line)) /\ params = <<>> /\ trailing = 0
  BY DEF EndCommand, LineInv
<1>2. /\ Advance(strchr(command))
      /\ line_pc' = IF pstart' = 0 THEN "trailing" ELSE "colon"
      /\ UNCHANGED <<prefix, command>> /\ params' = <<>> /\ trailing' = 0
  BY <1>1 DEF EndCommand
<1> USE HandleLineAssumption
<1>3. /\ line \in Seq(Chars) /\ Len(line) \in Nat
      /\ DOMAIN line = 1 .. Len(line)
      /\ Len(mem) = Len(line) + 1 /\ mem[Len(mem)] = NUL
      /\ \A k \in 1 .. Len(line) : line[k] # NUL
      /\ \A k \in command .. Len(line) : mem[k] = line[k]
  BY <1>1, MemoryTyped, LineTyped DEF Uncut
<1>4. /\ From \in Nat \ {0} /\ WordsEnd \in Nat /\ WordsEnd <= Len(line) + 1
      /\ command \in From .. WordsEnd - 1 /\ line[command] # Space
      /\ Cardinality(Below(command)) = 0 /\ command \in Starts
  BY <1>1, CommandIs DEF CommandFound
<1>5. PICK e \in command .. Len(mem) :
        /\ mem[e] \in {Space, NUL}
        /\ \A k \in command .. e - 1 : mem[k] # Space /\ mem[k] # NUL
  <2>1. command \in 1 .. Len(mem)
    BY <1>3, <1>4
  <2> QED
    BY <2>1, <1>1, FirstStop
<1>6. strchr(command) = IF mem[e] = Space THEN e ELSE 0
  <2>1. command \in Nat \ {0}
    BY <1>4
  <2> QED
    BY <2>1, <1>1, <1>5, strchrIs
<1>7. CASE mem[e] = NUL
  <2>1. /\ pstart' = 0 /\ mem' = mem /\ line_pc' = "trailing"
    BY <1>2, <1>6, <1>7 DEF Advance
  <2>2. e = Len(line) + 1
    BY <1>3, <1>4, <1>5, <1>7
  <2>3. \A k \in command .. Len(line) : line[k] # Space
    BY <1>3, <1>4, <1>5, <2>2
  <2>4. Rest = 0 /\ WordsEnd = Len(line) + 1
    BY <1>3, <1>4, <2>3, WordsEndIs
  <2>5. EndOf(command) = WordsEnd
    <3>1. command \in From .. WordsEnd /\ WordsEnd \in command .. WordsEnd
      BY <1>4
    <3>2. \A k \in command .. WordsEnd - 1 : line[k] # Space
      BY <2>3, <2>4
    <3> QED
      BY <1>3, <1>4, <3>1, <3>2, EndIs
  <2>6. Cardinality(Starts) = 1
    <3>1. WordsEnd \in EndOf(command) .. WordsEnd
      BY <1>4, <2>5
    <3>2. \A k \in EndOf(command) .. WordsEnd - 1 : line[k] = Space
      BY <1>4, <2>5
    <3>3. /\ Cardinality(Below(WordsEnd)) = Cardinality(Below(command)) + 1
          /\ Starts = Below(WordsEnd)
      BY <1>3, <1>4, <3>1, <3>2, NextStart
    <3> QED
      BY <3>3, <1>4
  <2>7. MemoryInv' /\ CommandFound'
    BY <1>1, <1>2, <2>1, MemoryStays, CommandStays
  <2>8. TrailingCut'
    BY <1>2, <2>4, LineStays DEF TrailingCut
  <2>9. Taken'
    <3>1. mem[WordsEnd] = NUL
      BY <1>3, <2>4
    <3>2. (mem[EndOf(command)])' = NUL
      BY <3>1, <1>2, <2>1, <2>5, LineStays
    <3> QED
      BY <3>2, <1>2, LineStays DEF Taken
  <2>10. /\ (Len(params) < Cardinality(Starts))'
         /\ (Len(params) <= MAX_MSG_TOKENS)'
         /\ (Len(params) + 1 = Cardinality(Starts))'
    <3>1. Len(params') = 0 /\ Cardinality(Starts') = 1
      BY <1>2, <2>6, LineStays
    <3> QED
      BY <3>1
  <2> QED
    BY <2>1, <2>7, <2>8, <2>9, <2>10 DEF LineInv
<1>8. CASE mem[e] = Space
  <2> DEFINE q == PastSpaces(e)
  <2>1. pstart' = q /\ mem' = Cleared(e, q)
    BY <1>2, <1>4, <1>6, <1>8 DEF Advance
  <2>2. e \in 1 .. Len(mem)
    BY <1>3, <1>4
  <2>3. /\ q \in e .. Len(mem) /\ mem[q] # Space
        /\ \A k \in e .. q - 1 : mem[k] = Space
    BY <1>1, <2>2, PastSpacesIs
  <2> HIDE DEF q
  <2>4. e # q /\ e # command
    BY <1>3, <1>4, <1>8, <2>3
  <2>5. \A k \in e .. q - 1 : k \in DOMAIN line /\ line[k] = Space
    BY <1>3, <1>4, <2>2, <2>3
  <2>6. /\ MemoryInv'
        /\ \A k \in 1 .. Len(mem) :
             mem'[k] = IF k \in e .. q - 1 THEN NUL ELSE mem[k]
    <3>1. e \in Nat /\ q \in Nat
      BY <2>2, <2>3
    <3> QED
      BY <3>1, <1>1, <2>1, <2>5, ClearedIs
  <2>7. CommandFound'
    BY <1>1, <1>2, <2>6, CommandStays
  <2>8. line_pc' = "colon"
    BY <1>2, <2>1, <2>2, <2>3
  <2>9. BehindCommand'
    <3>1. q \in 1 .. Len(mem) /\ mem'[q] # Space
      BY <2>2, <2>3, <2>6
    <3>2. e \in command + 1 .. q - 1
      BY <1>3, <1>4, <2>2, <2>3, <2>4
    <3>3. \A k \in command .. e - 1 : line[k] # Space
      BY <1>3, <1>4, <1>5
    <3>4. \A k \in e .. q - 1 : line[k] = Space /\ mem'[k] = NUL
      BY <1>3, <1>4, <2>3, <2>5, <2>6
    <3>5. DOMAIN mem' = 1 .. Len(mem)
      BY <1>3, <2>6, MemoryTyped DEF MemoryInv
    <3> QED
      BY <3>1, <3>2, <3>3, <3>4, <3>5, <1>2, <2>1 DEF BehindCommand
  <2>10. Uncut(pstart, Len(line))'
    <3>1. \A k \in q .. Len(line) : mem'[k] = line[k]
      BY <1>3, <1>4, <2>2, <2>3, <2>6
    <3> QED
      BY <3>1, <2>1 DEF Uncut
  <2> QED
    BY <1>2, <2>6, <2>7, <2>8, <2>9, <2>10 DEF LineInv
<1> QED
  BY <1>5, <1>7, <1>8

(* What the lemmas on FindTrailing know when it begins; e is where the     *)
(* command ends.                                                           *)
AtColon(e) ==
  /\ MemoryInv /\ CommandFound /\ Uncut(pstart, Len(line)) /\ params = <<>>
  /\ pstart \in DOMAIN mem /\ mem[pstart] # Space
  /\ e \in command + 1 .. pstart - 1
  /\ \A k \in command .. e - 1 : line[k] # Space
  /\ \A k \in e .. pstart - 1 : line[k] = Space /\ mem[k] = NUL

LEMMA AtColonTyped ==
  ASSUME NEW e, AtColon(e)
  PROVE  /\ line \in Seq(Chars) /\ Len(line) \in Nat
         /\ DOMAIN line = 1 .. Len(line)
         /\ Len(mem) = Len(line) + 1 /\ mem[Len(mem)] = NUL
         /\ DOMAIN mem = 1 .. Len(mem)
         /\ From \in Nat \ {0} /\ command \in Nat /\ From <= command
         /\ e \in Nat /\ command < e /\ pstart \in Nat /\ e < pstart
         /\ pstart <= Len(mem)
         /\ line[command] # Space
         /\ \A k \in pstart .. Len(line) : mem[k] = line[k] /\ line[k] # NUL
<1>1. /\ line \in Seq(Chars) /\ Len(line) \in Nat
      /\ DOMAIN line = 1 .. Len(line)
      /\ Len(mem) = Len(line) + 1 /\ mem[Len(mem)] = NUL
      /\ DOMAIN mem = 1 .. Len(mem)
      /\ \A k \in 1 .. Len(line) : line[k] # NUL
  BY MemoryTyped, LineTyped DEF AtColon
<1>2. /\ From \in Nat \ {0} /\ WordsEnd \in Nat
      /\ command \in From .. WordsEnd - 1 /\ line[command] # Space
  BY CommandIs DEF AtColon
<1>3. /\ pstart \in 1 .. Len(mem) /\ e \in command + 1 .. pstart - 1
      /\ \A k \in pstart .. Len(line) : mem[k] = line[k]
  BY <1>1 DEF AtColon, Uncut
<1> QED
  BY <1>1, <1>2, <1>3

(* No colon behind a space and a word before pstart.                       *)
LEMMA RestIsNotBefore ==
  ASSUME NEW e, AtColon(e), NEW p, IsRest(p)
  PROVE  pstart <= p
<1> USE HandleLineAssumption, AtColonTyped
<1>1. /\ p \in 2 .. Len(line) /\ p > From
      /\ line[p] = Colon /\ line[p - 1] = Space
  BY DEF IsRest
<1>2. PICK r \in 1 .. p - 1 : r >= From /\ line[r] # Space
  BY DEF IsRest
<1>3. \A k \in From .. command - 1 : line[k] = Space
  BY DEF AtColon, CommandFound
<1>4. command <= r
  BY <1>2, <1>3
<1>5. ~(p - 1 \in command .. e - 1)
  BY <1>1 DEF AtColon
<1>6. ~(p \in e .. pstart - 1)
  BY <1>1 DEF AtColon
<1> QED
  BY <1>1, <1>2, <1>4, <1>5, <1>6

LEMMA RestBehind ==
  ASSUME NEW e, AtColon(e), NEW p \in pstart .. Len(line),
         line[p] = Colon, line[p - 1] = Space
  PROVE  IsRest(p)
<1> USE AtColonTyped
<1>1. p \in 2 .. Len(line) /\ p > From
  OBVIOUS
<1>2. command \in 1 .. p - 1 /\ command >= From /\ line[command] # Space
  OBVIOUS
<1> QED
  BY <1>1, <1>2 DEF IsRest

LEMMA FoundIs ==
  ASSUME NEW e, AtColon(e)
  PROVE  /\ mem[pstart] = Colon => Rest = pstart
         /\ mem[pstart] # Colon =>
              /\ SpaceColon = IF Rest = 0 THEN 0 ELSE Rest - 1
              /\ Rest # 0 => pstart < Rest - 1
<1> USE HandleLineAssumption, AtColonTyped
<1>1. /\ Rest \in Nat
      /\ IF Rest = 0 THEN \A p : ~IsRest(p)
         ELSE IsRest(Rest) /\ \A p : IsRest(p) => Rest <= p
  BY RestIs
<1>2. ASSUME mem[pstart] = Colon PROVE Rest = pstart
  <2>1. pstart \in pstart .. Len(line)
    BY <1>2
  <2>2. line[pstart] = Colon
    BY <2>1, <1>2
  <2>3. pstart - 1 \in e .. pstart - 1
    OBVIOUS
  <2>4. line[pstart - 1] = Space
    BY <2>3 DEF AtColon
  <2>5. IsRest(pstart)
    BY <2>1, <2>2, <2>4, RestBehind
  <2>6. Rest # 0 /\ Rest <= pstart
    BY <2>5, <1>1
  <2>7. pstart <= Rest
    BY <2>6, <1>1, RestIsNotBefore
  <2> QED
    BY <2>6, <2>7, <1>1
<1> DEFINE S == {q \in pstart .. Len(mem) - 1 : mem[q] = Space /\ mem[q + 1] = Colon}
<1>3. S \in SUBSET Nat /\ SpaceColon = Where(S)
  BY DEF SpaceColon
<1>4. ASSUME NEW q \in S PROVE IsRest(q + 1)
  <2>1. q + 1 # Len(mem) /\ q + 1 \in pstart .. Len(line)
    BY <1>4
  <2>2. q \in pstart .. Len(line)
    BY <2>1
  <2>3. line[q] = Space /\ line[q + 1] = Colon /\ q + 1 - 1 = q
    BY <2>1, <2>2, <1>4
  <2> QED
    BY <2>1, <2>3, RestBehind
<1>5. ASSUME mem[pstart] # Colon, Rest # 0
      PROVE  Rest - 1 \in S /\ pstart < Rest - 1
  <2>1. pstart <= Rest
    BY <1>1, <1>5, RestIsNotBefore
  <2>2. /\ Rest \in 2 .. Len(line) /\ line[Rest] = Colon
        /\ line[Rest - 1] = Space
    BY <1>1, <1>5 DEF IsRest
  <2>3. Rest \in pstart .. Len(line)
    BY <2>1, <2>2
  <2>4. mem[Rest] = Colon
    BY <2>2, <2>3
  <2>5. Rest # pstart
    BY <2>4, <1>5
  <2>6. Rest - 1 \in pstart .. Len(line)
    BY <2>3, <2>5
  <2>7. mem[Rest - 1] = Space
    BY <2>2, <2>6
  <2>8. Rest - 1 # pstart
    BY <2>7 DEF AtColon
  <2> QED
    BY <2>3, <2>4, <2>6, <2>7, <2>8
<1>6. ASSUME mem[pstart] # Colon
      PROVE  SpaceColon = IF Rest = 0 THEN 0 ELSE Rest - 1
  <2>1. CASE Rest = 0
    <3>1. S = {}
      BY <1>1, <1>4, <2>1
    <3> QED
      BY <3>1, <1>3, <2>1, WhereIsFirst
  <2>2. CASE Rest # 0
    <3>1. Rest - 1 \in S
      BY <1>5, <1>6, <2>2
    <3> HIDE DEF S
    <3>2. SpaceColon \in S /\ SpaceColon <= Rest - 1
      BY <1>3, <3>1, WhereIsFirst
    <3>3. Rest <= SpaceColon + 1
      BY <3>2, <1>1, <1>4, <2>2
    <3>4. SpaceColon \in Nat
      BY <3>2, <1>3
    <3> QED
      BY <3>2, <3>3, <3>4, <1>1, <2>2
  <2> QED
    BY <2>1, <2>2
<1> QED
  BY <1>2, <1>5, <1>6

(* The space in front of the trailing parameter and its colon are cut, and *)
(* nothing else is.                                                        *)
LEMMA TrailingIsCut ==
  ASSUME NEW e, AtColon(e), line_pc = "colon", FindTrailing, line' = line
  PROVE  /\ MemoryInv' /\ trailing' = (IF Rest = 0 THEN 0 ELSE Rest + 1)
         /\ \A k \in 1 .. Len(mem) :
              mem'[k] = IF Rest # 0 /\ k \in {Rest - 1, Rest} THEN NUL ELSE mem[k]
<1> USE HandleLineAssumption, AtColonTyped
<1> DEFINE found == IF mem[pstart] = Colon THEN pstart ELSE SpaceColon
<1>1. IF found = 0
      THEN trailing' = 0 /\ mem' = mem
      ELSE trailing' = PastSpaces(found) + 1 /\ mem' = Cleared(found, trailing')
  BY DEF FindTrailing
<1>2. MemoryInv
  BY DEF AtColon
<1>3. IsRest(Rest) \/ Rest = 0
  BY RestIs
<1>4. CASE mem[pstart] = Colon
  <2>1. Rest = pstart /\ found = pstart
    BY <1>4, FoundIs
  <2>2. pstart \in 1 .. Len(mem)
    OBVIOUS
  <2>3. PastSpaces(pstart) = pstart
    BY <1>2, <1>4, <2>2, PastSpacesIs
  <2>4. trailing' = pstart + 1 /\ mem' = Cleared(pstart, pstart + 1)
    BY <1>1, <2>1, <2>3
  <2>5. \A k \in pstart .. pstart + 1 - 1 :
          k \in DOMAIN line => line[k] = Space \/ k = Rest
    BY <2>1
  <2>6. /\ MemoryInv'
        /\ \A k \in 1 .. Len(mem) :
             mem'[k] = IF k \in pstart .. pstart + 1 - 1 THEN NUL ELSE mem[k]
    <3>1. pstart \in Nat /\ pstart + 1 \in Nat
      OBVIOUS
    <3> QED
      BY ONLY <1>2, <2>4, <2>5, <3>1, line' = line, ClearedIs
  <2>7. mem[pstart - 1] = NUL
    <3>1. pstart - 1 \in e .. pstart - 1
      OBVIOUS
    <3> QED
      BY <3>1 DEF AtColon
  <2>8. \A k \in 1 .. Len(mem) :
          k \in pstart .. pstart + 1 - 1 <=> k = Rest
    BY <2>1
  <2>9. Rest # 0 /\ trailing' = Rest + 1 /\ mem[Rest - 1] = NUL
    BY <2>1, <2>4, <2>7
  <2>10. ASSUME NEW k \in 1 .. Len(mem)
         PROVE  mem'[k] = IF Rest # 0 /\ k \in {Rest - 1, Rest} THEN NUL ELSE mem[k]
    BY <2>6, <2>8, <2>9
  <2> QED
    BY <2>6, <2>9, <2>10
<1>5. CASE mem[pstart] # Colon /\ Rest = 0
  <2>1. found = 0
    BY <1>5, FoundIs
  <2> QED
    BY <1>1, <1>2, <1>5, <2>1, MemoryStays
<1>6. CASE mem[pstart] # Colon /\ Rest # 0
  <2>1. found = Rest - 1 /\ pstart < Rest - 1
    BY <1>6, FoundIs
  <2>2. /\ Rest \in 2 .. Len(line) /\ line[Rest] = Colon
        /\ line[Rest - 1] = Space
    BY <1>3, <1>6 DEF IsRest
  <2>3. mem[Rest - 1] = Space /\ mem[Rest] = Colon
    <3>1. Rest - 1 \in pstart .. Len(line) /\ Rest \in pstart .. Len(line)
      BY <2>1, <2>2
    <3> QED
      BY <2>2, <3>1
  <2>4. /\ PastSpaces(Rest - 1) \in Rest - 1 .. Len(mem)
        /\ mem[PastSpaces(Rest - 1)] # Space
        /\ \A k \in Rest - 1 .. PastSpaces(Rest - 1) - 1 : mem[k] = Space
    <3>1. Rest - 1 \in 1 .. Len(mem)
      BY <2>2
    <3> QED
      BY <3>1, <1>2, PastSpacesIs
  <2>5. PastSpaces(Rest - 1) = Rest
    <3>1. PastSpaces(Rest - 1) # Rest - 1
      BY <2>3, <2>4
    <3>2. ~(Rest \in Rest - 1 .. PastSpaces(Rest - 1) - 1)
      BY <2>3, <2>4
    <3> QED
      BY <2>2, <2>4, <3>1, <3>2
  <2>6. trailing' = Rest + 1 /\ mem' = Cleared(Rest - 1, Rest + 1)
    BY <1>1, <2>1, <2>2, <2>5
  <2>7. PICK p \in Nat, q \in Nat : p = Rest - 1 /\ q = Rest + 1
    BY <2>2
  <2>8. mem' = Cleared(p, q)
    BY <2>6, <2>7
  <2>9. \A k \in p .. q - 1 : k = p \/ k = Rest
    BY <2>2, <2>7
  <2>10. \A k \in p .. q - 1 : k \in DOMAIN line => line[k] = Space \/ k = Rest
    BY <2>2, <2>7, <2>9
  <2>11. /\ MemoryInv'
         /\ \A k \in 1 .. Len(mem) :
              mem'[k] = IF k \in p .. q - 1 THEN NUL ELSE mem[k]
    BY ONLY <1>2, <2>8, <2>10, line' = line, ClearedIs
  <2>12. \A k : k \in p .. q - 1 <=> k \in {Rest - 1, Rest}
    BY <2>2, <2>7
  <2> QED
    BY <1>6, <2>6, <2>11, <2>12
<1> QED
  BY <1>4, <1>5, <1>6

LEMMA FindTrailingStep ==
  ASSUME LineInv, FindTrailing, line' = line
  PROVE  LineInv'
<1>1. /\ line_pc = "colon" /\ MemoryInv /\ CommandFound /\ BehindCommand
      /\ Uncut(pstart, Len(line)) /\ params = <<>>
  BY DEF FindTrailing, LineInv
<1>2. PICK e : AtColon(e)
  BY <1>1 DEF BehindCommand, AtColon
<1>3. /\ MemoryInv' /\ trailing' = (IF Rest = 0 THEN 0 ELSE Rest + 1)
      /\ \A k \in 1 .. Len(mem) :
           mem'[k] = IF Rest # 0 /\ k \in {Rest - 1, Rest} THEN NUL ELSE mem[k]
  BY <1>1, <1>2, TrailingIsCut
<1>4. /\ line_pc' = "params" /\ params' = <<>> /\ pstart' = pstart
      /\ UNCHANGED <<prefix, command>>
  BY <1>1 DEF FindTrailing
<1> USE HandleLineAssumption
<1>5. /\ line \in Seq(Chars) /\ Len(line) \in Nat
      /\ Len(mem) = Len(line) + 1 /\ mem[Len(mem)] = NUL
      /\ From \in Nat \ {0} /\ command \in Nat /\ From <= command
      /\ e \in Nat /\ command < e /\ pstart \in Nat /\ e < pstart
      /\ pstart <= Len(mem) /\ mem[pstart] # Space
      /\ \A k \in pstart .. Len(line) : mem[k] = line[k] /\ line[k] # NUL
      /\ \A k \in command .. e - 1 : line[k] # Space
      /\ \A k \in e .. pstart - 1 : line[k] = Space /\ mem[k] = NUL
  BY <1>2, AtColonTyped DEF AtColon
<1>6. CommandFound'
  BY <1>1, <1>3, <1>4, CommandStays
<1>7. /\ WordsEnd \in From .. Len(line) + 1
      /\ Rest = 0 => WordsEnd = Len(line) + 1
      /\ Rest # 0 => /\ WordsEnd = Rest - 1 /\ Rest \in 2 .. Len(line)
                     /\ line[WordsEnd] = Space
  BY <1>5, WordsEndIs
<1>8. /\ mem[pstart] = Colon => Rest = pstart
      /\ mem[pstart] # Colon /\ Rest # 0 => pstart < Rest - 1
  BY <1>2, FoundIs
<1>9. e <= WordsEnd
  <2>1. CASE Rest = 0
    BY <1>5, <1>7, <2>1
  <2>2. CASE Rest # 0
    BY <1>5, <1>7, <1>8, <2>2
  <2> QED
    BY <2>1, <2>2
<1>10. EndOf(command) = e
  <2>1. command \in From .. WordsEnd /\ e \in command .. WordsEnd
    BY <1>5, <1>7, <1>9
  <2>2. line[e] = Space
    BY <1>5
  <2> QED
    BY <1>5, <2>1, <2>2, EndIs
<1>11. command \in Starts /\ Cardinality(Below(command)) = 0
  BY <1>1, CommandIs DEF CommandFound
<1>12. Taken'
  <2>1. e \in 1 .. Len(mem) /\ mem[e] = NUL
    BY <1>5
  <2>2. mem'[e] = NUL
    BY <1>3, <2>1
  <2>3. (mem[EndOf(command)])' = NUL
    BY <2>2, <1>4, <1>10, LineStays
  <2> QED
    BY <2>3, <1>4, LineStays DEF Taken
<1>13. TrailingCut'
  <2>1. Rest' = Rest
    BY LineStays
  <2>2. ASSUME Rest # 0, NEW k \in Rest + 1 .. Len(line) PROVE mem'[k] = line[k]
    <3>1. k \in pstart .. Len(line) /\ k \in 1 .. Len(mem)
      BY <1>5, <1>7, <1>8, <2>2
    <3>2. k \notin {Rest - 1, Rest}
      BY <1>7, <2>2
    <3> QED
      BY <3>1, <3>2, <1>3, <1>5
  <2>3. Rest # 0 => Uncut(Rest + 1, Len(line))'
    BY <2>1, <2>2 DEF Uncut
  <2> QED
    BY <2>1, <2>3, <1>3 DEF TrailingCut
<1>14. pstart \in 1 .. Len(mem)
  BY <1>5
<1>15. Cardinality(Below(pstart)) = 1
       /\ IF mem'[pstart] = NUL THEN Starts = Below(pstart) ELSE pstart \in Starts
  <2>1. CASE Rest = pstart
    <3>1. /\ WordsEnd \in EndOf(command) .. WordsEnd
          /\ \A k \in EndOf(command) .. WordsEnd - 1 : line[k] = Space
      BY <1>5, <1>7, <1>9, <1>10, <2>1
    <3>2. /\ Cardinality(Below(WordsEnd)) = Cardinality(Below(command)) + 1
          /\ Starts = Below(WordsEnd)
      BY <1>5, <1>11, <3>1, NextStart
    <3>3. WordsEnd < pstart /\ \A q \in Starts : q \in Nat
      BY <1>5, <1>7, <2>1, StartsAre
    <3>4. Below(pstart) = Starts
      <4>1. \A q \in Starts : q < WordsEnd
        BY <3>2 DEF Below
      <4>2. \A q \in Starts : q < pstart
        BY <1>5, <1>7, <3>3, <4>1
      <4> QED
        BY <4>2 DEF Below
    <3>5. mem'[pstart] = NUL
      BY <1>3, <1>5, <1>14, <2>1
    <3> QED
      BY <3>2, <3>4, <3>5, <1>11
  <2>2. CASE Rest # pstart
    <3>1. pstart \in EndOf(command) .. WordsEnd
      BY <1>5, <1>7, <1>8, <1>10, <2>2
    <3>2. \A k \in EndOf(command) .. pstart - 1 : line[k] = Space
      BY <1>5, <1>10
    <3>3. pstart = Len(mem) \/ pstart \in pstart .. Len(line)
      BY <1>5
    <3>4. pstart = Len(mem) => Rest = 0 /\ pstart = WordsEnd /\ mem'[pstart] = NUL
      BY <1>3, <1>5, <1>7, <1>8, <1>14, <2>2
    <3>5. pstart # Len(mem) => /\ line[pstart] # Space /\ pstart # WordsEnd
                               /\ mem'[pstart] # NUL
      <4> SUFFICES ASSUME pstart # Len(mem)
                   PROVE  /\ line[pstart] # Space /\ pstart # WordsEnd
                          /\ mem'[pstart] # NUL
        OBVIOUS
      <4>1. line[pstart] # Space /\ mem[pstart] # NUL
        BY <1>5, <3>3
      <4>2. pstart # WordsEnd
        BY <1>5, <1>7, <4>1
      <4>3. ~(Rest # 0 /\ pstart \in {Rest - 1, Rest})
        BY <1>7, <2>2, <4>2
      <4>4. mem'[pstart] = mem[pstart]
        BY <1>3, <1>14, <4>3
      <4> QED
        BY <4>1, <4>2, <4>4
    <3>6. /\ Cardinality(Below(pstart)) = Cardinality(Below(command)) + 1
          /\ IF pstart = WordsEnd THEN Starts = Below(pstart) ELSE pstart \in Starts
      BY <1>5, <1>11, <3>1, <3>2, <3>4, <3>5, NextStart
    <3> QED
      BY <3>4, <3>5, <3>6, <1>11
  <2> QED
    BY <2>1, <2>2
<1>16. AtNextWord'
  <2>1. pstart' \in DOMAIN mem'
    BY <1>3, <1>4, <1>5, <1>14 DEF MemoryInv
  <2>2. mem'[WordsEnd] = NUL
    <3>1. WordsEnd \in 1 .. Len(mem)
      BY <1>5, <1>7
    <3> QED
      BY <3>1, <1>3, <1>5, <1>7
  <2>3. \A k \in pstart .. WordsEnd - 1 : mem'[k] = line[k]
    <3> TAKE k \in pstart .. WordsEnd - 1
    <3>1. k \in pstart .. Len(line) /\ k \in 1 .. Len(mem)
      BY <1>5, <1>7
    <3>2. ~(Rest # 0 /\ k \in {Rest - 1, Rest})
      BY <1>5, <1>7
    <3> QED
      BY <3>1, <3>2, <1>3, <1>5
  <2>4. /\ WordsEnd' = WordsEnd /\ Starts' = Starts
        /\ \A p : Below(p)' = Below(p)
    BY LineStays
  <2>5. Below(pstart)' = Below(pstart)
    BY <1>4, <2>4 DEF Below
  <2>6. Uncut(pstart, WordsEnd - 1)'
    BY <2>3, <2>4, <1>4 DEF Uncut
  <2>7. Len(params') = 0
    BY <1>4
  <2> QED
    BY <2>1, <2>2, <2>4, <2>5, <2>6, <2>7, <1>4, <1>15 DEF AtNextWord
<1>17. (Len(params) < MAX_MSG_TOKENS)'
  BY <1>4
<1> QED
  BY <1>3, <1>4, <1>6, <1>12, <1>13, <1>16, <1>17 DEF LineInv

(* One more word is taken; mem[EndOf(pstart)] is NUL by then.              *)
LEMMA TakenOneMore ==
  ASSUME MemoryInv, CommandFound, Taken, pstart \in Starts, line' = line,
         Cardinality(Below(pstart)) = Len(params) + 1,
         params' = Append(params, pstart), command' = command,
         \A k \in 1 .. Len(mem) : mem'[k] \in {NUL, mem[k]},
         mem'[EndOf(pstart)] = NUL
  PROVE  Taken' /\ Len(params') = Len(params) + 1 /\ Len(params) \in Nat
<1>1. /\ params \in Seq(Starts) /\ mem[EndOf(command)] = NUL
      /\ \A i \in DOMAIN params :
           Cardinality(Below(params[i])) = i /\ mem[EndOf(params[i])] = NUL
  BY DEF Taken
<1>2. Len(params) \in Nat /\ DOMAIN params = 1 .. Len(params)
  BY <1>1, LenProperties
<1>3. /\ params' \in Seq(Starts) /\ Len(params') = Len(params) + 1
      /\ DOMAIN params' = 1 .. Len(params) + 1
      /\ \A i \in 1 .. Len(params) + 1 :
           params'[i] = IF i = Len(params) + 1 THEN pstart ELSE params[i]
  BY <1>1, <1>2, AppendProperties
<1>4. ASSUME NEW p \in Starts PROVE EndOf(p) \in 1 .. Len(mem)
  <2>1. line \in Seq(Chars) /\ From # 0 /\ Len(mem) = Len(line) + 1
    BY MemoryTyped DEF CommandFound
  <2>2. p \in From .. WordsEnd - 1 /\ From \in Nat \ {0} /\ WordsEnd \in Nat
    BY <2>1, StartsAre
  <2>3. p \in From .. WordsEnd
    BY <2>2
  <2>4. EndOf(p) \in p .. WordsEnd /\ WordsEnd \in From .. Len(line) + 1
    BY <2>1, <2>3, EndOfIs, WordsEndIs
  <2> QED
    BY <2>1, <2>2, <2>4
<1>5. ASSUME NEW p \in Starts, mem[EndOf(p)] = NUL PROVE mem'[EndOf(p)] = NUL
  BY <1>4, <1>5
<1>6. mem'[EndOf(command)] = NUL
  BY <1>1, <1>5 DEF CommandFound
<1>7. ASSUME NEW i \in 1 .. Len(params) + 1
      PROVE  Cardinality(Below(params'[i])) = i /\ mem'[EndOf(params'[i])] = NUL
  <2>1. CASE i = Len(params) + 1
    BY <1>3, <2>1
  <2>2. CASE i # Len(params) + 1
    <3>1. i \in 1 .. Len(params) /\ params'[i] = params[i]
      BY <1>2, <1>3, <2>2
    <3>2. params[i] \in Starts
      BY <1>1, <3>1, ElementOfSeq
    <3> QED
      BY <1>1, <1>2, <1>5, <3>1, <3>2
  <2> QED
    BY <2>1, <2>2
<1>8. Starts' = Starts /\ \A p : EndOf(p)' = EndOf(p) /\ Below(p)' = Below(p)
  BY LineStays
<1>9. EndOf(command)' = EndOf(command)
  BY <1>8 DEF EndOf
<1>10. \A i \in DOMAIN params' :
         (Cardinality(Below(params[i])) = i /\ mem[EndOf(params[i])] = NUL)'
  BY <1>3, <1>7, LineStays DEF EndOf, Below
<1>11. Taken'
  BY <1>3, <1>6, <1>8, <1>9, <1>10 DEF Taken
<1> QED
  BY <1>2, <1>3, <1>11

LEMMA TrailingStays ==
  ASSUME MemoryInv, TrailingCut, line' = line, trailing' = trailing,
         \A k \in 1 .. Len(mem) : Rest # 0 /\ k > Rest => mem'[k] = mem[k]
  PROVE  TrailingCut'
<1>1. Rest' = Rest
  BY LineStays
<1>2. Len(line) \in Nat /\ Len(mem) = Len(line) + 1 /\ Rest \in Nat
  BY MemoryTyped, RestIs
<1>3. ASSUME Rest # 0 PROVE \A k \in Rest + 1 .. Len(line) : mem'[k] = line[k]
  BY <1>2, <1>3 DEF TrailingCut, Uncut
<1>4. Rest # 0 => Uncut(Rest + 1, Len(line))'
  BY <1>1, <1>3 DEF Uncut
<1> QED
  BY <1>1, <1>4 DEF TrailingCut

LEMMA TakeParamStep ==
  ASSUME LineInv, TakeParam, line' = line
  PROVE  LineInv'
<1>1. /\ line_pc = "params" /\ MemoryInv /\ CommandFound /\ TrailingCut /\ Taken
      /\ AtNextWord /\ Len(params) < MAX_MSG_TOKENS
  BY DEF TakeParam, LineInv
<1>2. /\ UNCHANGED <<prefix, command, trailing>>
      /\ IF mem[pstart] = NUL
         THEN line_pc' = "trailing" /\ UNCHANGED <<params, pstart, mem>>
         ELSE /\ params' = Append(params, pstart)
              /\ Advance(strchr(pstart))
              /\ line_pc' = IF pstart' # 0 /\ Len(params') < MAX_MSG_TOKENS
                            THEN "params" ELSE "trailing"
  BY DEF TakeParam
<1> USE HandleLineAssumption
<1>3. /\ line \in Seq(Chars) /\ Len(line) \in Nat
      /\ DOMAIN line = 1 .. Len(line)
      /\ Len(mem) = Len(line) + 1 /\ DOMAIN mem = 1 .. Len(mem)
      /\ \A k \in 1 .. Len(line) : line[k] # NUL
      /\ From \in Nat \ {0} /\ WordsEnd \in Nat
      /\ From <= WordsEnd /\ WordsEnd <= Len(line) + 1
      /\ Rest # 0 => WordsEnd = Rest - 1 /\ Rest \in Nat
  BY <1>1, MemoryTyped, LineTyped, WordsEndIs, CommandIs
<1>4. /\ pstart \in 1 .. Len(mem) /\ mem[WordsEnd] = NUL
      /\ \A k \in pstart .. WordsEnd - 1 : mem[k] = line[k]
      /\ Cardinality(Below(pstart)) = Len(params) + 1
      /\ IF mem[pstart] = NUL THEN Starts = Below(pstart) ELSE pstart \in Starts
  BY <1>1, <1>3 DEF AtNextWord, Uncut
<1>5. /\ Starts' = Starts /\ WordsEnd' = WordsEnd
      /\ \A p : EndOf(p)' = EndOf(p) /\ Below(p)' = Below(p)
  BY LineStays
<1>6. Len(params) \in Nat
  BY <1>1, LenProperties DEF Taken
<1>7. CASE mem[pstart] = NUL
  <2>1. line_pc' = "trailing" /\ UNCHANGED <<params, pstart, mem>>
    BY <1>2, <1>7
  <2>2. MemoryInv' /\ CommandFound' /\ TrailingCut'
    BY <1>1, <1>2, <2>1, MemoryStays, CommandStays, TrailingStays
  <2>3. Taken'
    BY <1>1, <1>2, <2>1, LineStays DEF Taken, EndOf, Below
  <2>4. Len(params) + 1 = Cardinality(Starts)
    BY <1>4, <1>7
  <2>5. /\ (Len(params) < Cardinality(Starts))' /\ (Len(params) <= MAX_MSG_TOKENS)'
        /\ (Len(params) + 1 = Cardinality(Starts))'
    BY <1>1, <1>5, <1>6, <2>1, <2>4
  <2> QED
    BY <2>1, <2>2, <2>3, <2>5 DEF LineInv
<1>8. CASE mem[pstart] # NUL
  <2> DEFINE e == EndOf(pstart)
  <2>0. /\ params' = Append(params, pstart) /\ Advance(strchr(pstart))
        /\ line_pc' = IF pstart' # 0 /\ Len(params') < MAX_MSG_TOKENS
                      THEN "params" ELSE "trailing"
        /\ pstart \in Starts
    BY <1>2, <1>4, <1>8
  <2>1. pstart \in From .. WordsEnd - 1
    BY <1>3, <2>0, StartsAre
  <2>2. /\ e \in pstart .. WordsEnd
        /\ e = WordsEnd \/ line[e] = Space
        /\ \A k \in pstart .. e - 1 : line[k] # Space
    <3>1. pstart \in From .. WordsEnd
      BY <1>3, <2>1
    <3> QED
      BY <3>1, <1>3, EndOfIs
  <2> HIDE DEF e
  <2>3. e \in 1 .. Len(mem) /\ pstart \in Nat \ {0}
    BY <1>3, <1>4, <2>2
  <2>4. \A k \in pstart .. e - 1 : mem[k] # Space /\ mem[k] # NUL
    <3> TAKE k \in pstart .. e - 1
    <3>1. k \in pstart .. WordsEnd - 1 /\ k \in 1 .. Len(line)
      BY <1>3, <1>4, <2>2
    <3> QED
      BY <3>1, <1>3, <1>4, <2>2
  <2>5. e # WordsEnd => e \in pstart .. WordsEnd - 1 /\ mem[e] = Space
    <3>1. e # WordsEnd => e \in pstart .. WordsEnd - 1
      BY <1>3, <1>4, <2>2
    <3> QED
      BY <3>1, <1>4, <2>2
  <2>6. strchr(pstart) = IF mem[e] = Space THEN e ELSE 0
    <3>1. mem[e] \in {Space, NUL} /\ e \in pstart .. Len(mem)
      BY <1>3, <1>4, <2>2, <2>3, <2>5
    <3> QED
      BY <3>1, <1>1, <2>3, <2>4, strchrIs
  <2>7. Cardinality(Below(pstart)) < Cardinality(Starts)
        /\ Cardinality(Starts) \in Nat
    BY <1>3, <2>0, BelowStrictly, BelowIs, StartsAre
  <2>8. CASE e = WordsEnd
    <3>1. pstart' = 0 /\ mem' = mem /\ line_pc' = "trailing"
      BY <1>4, <2>0, <2>6, <2>8 DEF Advance
    <3>2. MemoryInv' /\ CommandFound' /\ TrailingCut'
      BY <1>1, <1>2, <3>1, MemoryStays, CommandStays, TrailingStays
    <3>3. mem'[EndOf(pstart)] = NUL
      BY <1>4, <2>8, <3>1 DEF e
    <3>4. Taken' /\ Len(params') = Len(params) + 1
      BY <1>1, <1>2, <1>4, <2>0, <3>1, <3>3, TakenOneMore
    <3>5. Cardinality(Starts) = Len(params) + 2
      <4>1. /\ WordsEnd \in EndOf(pstart) .. WordsEnd
            /\ \A k \in EndOf(pstart) .. WordsEnd - 1 : line[k] = Space
        BY <1>3, <2>8 DEF e
      <4>2. /\ Cardinality(Below(WordsEnd)) = Cardinality(Below(pstart)) + 1
            /\ Starts = Below(WordsEnd)
        BY <1>3, <2>0, <4>1, NextStart
      <4> QED
        BY <4>2, <1>4, <1>6
    <3>6. /\ (Len(params) < Cardinality(Starts))' /\ (Len(params) <= MAX_MSG_TOKENS)'
          /\ (Len(params) + 1 = Cardinality(Starts))'
      BY <1>1, <1>5, <1>6, <3>4, <3>5
    <3> QED
      BY <3>1, <3>2, <3>4, <3>6 DEF LineInv
  <2>9. CASE e # WordsEnd
    <3> DEFINE q == PastSpaces(e)
    <3>1. e \in pstart .. WordsEnd - 1 /\ mem[e] = Space
      BY <2>5, <2>9
    <3>2. pstart' = q /\ mem' = Cleared(e, q)
      BY <2>0, <2>3, <2>6, <3>1 DEF Advance
    <3>3. /\ q \in e .. Len(mem) /\ mem[q] # Space
          /\ \A k \in e .. q - 1 : mem[k] = Space
      BY <1>1, <2>3, PastSpacesIs
    <3> HIDE DEF q
    <3>4. e < q /\ q <= WordsEnd
      <4>1. ~(WordsEnd \in e .. q - 1)
        BY <1>4, <3>3
      <4>2. q # e
        BY <3>1, <3>3
      <4> QED
        BY <4>1, <4>2, <1>3, <1>4, <2>3, <3>1, <3>3
    <3>5. \A k \in e .. q - 1 : k \in 1 .. Len(line) /\ line[k] = Space
      <4> TAKE k \in e .. q - 1
      <4>1. k \in pstart .. WordsEnd - 1 /\ k \in 1 .. Len(line)
        BY <1>3, <1>4, <2>2, <2>3, <3>3, <3>4
      <4> QED
        BY <4>1, <1>4, <3>3
    <3>6. /\ MemoryInv'
          /\ \A k \in 1 .. Len(mem) :
               mem'[k] = IF k \in e .. q - 1 THEN NUL ELSE mem[k]
      <4>1. e \in Nat /\ q \in Nat
        BY <2>3, <3>3
      <4>2. \A k \in e .. q - 1 : k \in DOMAIN line => line[k] = Space \/ k = Rest
        BY <3>5
      <4> QED
        BY ONLY <1>1, <3>2, <4>1, <4>2, line' = line, ClearedIs
    <3>7. CommandFound'
      BY <1>1, <1>2, <3>6, CommandStays
    <3>8. TrailingCut'
      <4>1. ASSUME NEW k \in 1 .. Len(mem), Rest # 0, k > Rest
            PROVE  mem'[k] = mem[k]
        <5>1. ~(k \in e .. q - 1)
          BY <1>3, <2>3, <3>3, <3>4, <4>1
        <5> QED
          BY <5>1, <3>6
      <4> QED
        BY <4>1, <1>1, <1>2, TrailingStays
    <3>9. mem'[EndOf(pstart)] = NUL
      <4>1. e \in e .. q - 1
        BY <2>3, <3>3, <3>4
      <4> QED
        BY <4>1, <2>3, <3>6 DEF e
    <3>10. Taken' /\ Len(params') = Len(params) + 1
      <4>1. \A k \in 1 .. Len(mem) : mem'[k] \in {NUL, mem[k]}
        BY <3>6
      <4> QED
        BY <1>1, <1>2, <1>4, <2>0, <3>9, <4>1, TakenOneMore
    <3>11. q \in 1 .. Len(mem) /\ mem'[q] = mem[q]
      <4>1. q \in 1 .. Len(mem) /\ ~(q \in e .. q - 1)
        BY <2>3, <3>3
      <4> QED
        BY <4>1, <3>6
    <3>12. q # WordsEnd => /\ q \in pstart .. WordsEnd - 1 /\ line[q] # Space
                           /\ mem'[q] # NUL
      <4>1. q # WordsEnd => q \in pstart .. WordsEnd - 1 /\ q \in 1 .. Len(line)
        BY <1>3, <1>4, <2>2, <3>3, <3>4
      <4> QED
        BY <4>1, <1>3, <1>4, <3>3, <3>11
    <3>13. /\ Cardinality(Below(q)) = Cardinality(Below(pstart)) + 1
           /\ IF q = WordsEnd THEN Starts = Below(q) ELSE q \in Starts
      <4>1. q \in EndOf(pstart) .. WordsEnd
        BY <1>3, <2>3, <3>3, <3>4 DEF e
      <4>2. \A k \in EndOf(pstart) .. q - 1 : line[k] = Space
        BY <3>5 DEF e
      <4> QED
        BY <1>3, <2>0, <3>12, <4>1, <4>2, NextStart
    <3>14. CASE Len(params') < MAX_MSG_TOKENS
      <4>1. line_pc' = "params"
        BY <2>0, <3>2, <3>11, <3>14
      <4>2. AtNextWord'
        <5>1. q \in DOMAIN mem'
          BY <1>3, <3>6, <3>11, MemoryTyped DEF MemoryInv
        <5>2. mem'[WordsEnd] = NUL
          <6>1. WordsEnd \in 1 .. Len(mem)
            BY <1>3
          <6> QED
            BY <6>1, <1>4, <3>6
        <5>3. \A k \in q .. WordsEnd - 1 : mem'[k] = line[k]
          <6> TAKE k \in q .. WordsEnd - 1
          <6>1. /\ k \in pstart .. WordsEnd - 1 /\ k \in 1 .. Len(mem)
                /\ ~(k \in e .. q - 1)
            BY <1>3, <1>4, <2>2, <3>3
          <6> QED
            BY <6>1, <1>4, <3>6
        <5>4. Uncut(pstart, WordsEnd - 1)'
          BY <5>3, <1>5, <3>2 DEF Uncut
        <5>5. Below(pstart)' = Below(q)
          BY <1>5, <3>2 DEF Below
        <5>6. Cardinality(Below(q)) = Len(params') + 1
          BY <1>4, <1>6, <3>10, <3>13
        <5>7. IF mem'[q] = NUL THEN Starts = Below(q) ELSE q \in Starts
          BY <3>12, <3>13, <5>2
        <5> QED
          BY <5>1, <5>2, <5>4, <5>5, <5>6, <5>7, <1>5, <3>2 DEF AtNextWord
      <4> QED
        BY <4>1, <4>2, <3>6, <3>7, <3>8, <3>10, <3>14 DEF LineInv
    <3>15. CASE ~(Len(params') < MAX_MSG_TOKENS)
      <4>1. line_pc' = "trailing"
        BY <2>0, <3>15
      <4>2. Len(params') = MAX_MSG_TOKENS
        BY <1>1, <1>6, <3>10, <3>15
      <4>3. /\ (Len(params) < Cardinality(Starts))'
            /\ (Len(params) <= MAX_MSG_TOKENS)'
        BY <1>4, <1>5, <2>7, <3>10, <4>2
      <4>4. (Len(params) = MAX_MSG_TOKENS)'
        BY <4>2
      <4> QED
        BY <4>1, <4>3, <4>4, <3>6, <3>7, <3>8, <3>10 DEF LineInv
    <3> QED
      BY <3>14, <3>15
  <2> QED
    BY <2>8, <2>9
<1> QED
  BY <1>7, <1>8

(* A word that a NUL ends is what the grammar says it is.                  *)
LEMMA WordIs ==
  ASSUME MemoryInv, From # 0, NEW p \in Starts, mem[EndOf(p)] = NUL
  PROVE  String(p) = WordAt(p)
<1>1. /\ line \in Seq(Chars) /\ Len(line) \in Nat
      /\ DOMAIN line = 1 .. Len(line) /\ Len(mem) = Len(line) + 1
  BY MemoryTyped
<1>2. /\ From \in Nat \ {0} /\ WordsEnd \in Nat /\ p \in From .. WordsEnd - 1
      /\ WordsEnd \in From .. Len(line) + 1
      /\ Rest # 0 => WordsEnd = Rest - 1 /\ Rest \in Nat
  BY <1>1, StartsAre, WordsEndIs
<1>3. /\ EndOf(p) \in p .. WordsEnd
      /\ \A k \in p .. EndOf(p) - 1 : line[k] # Space
  <2>1. p \in From .. WordsEnd
    BY <1>2
  <2> QED
    BY <2>1, <1>1, <1>2, EndOfIs
<1>4. \A k \in p .. EndOf(p) - 1 : mem[k] = line[k]
  <2> TAKE k \in p .. EndOf(p) - 1
  <2>1. k \in DOMAIN line /\ (Rest # 0 => k # Rest)
    BY <1>1, <1>2, <1>3
  <2>2. k # Rest
    BY <2>1, <1>1, <1>2
  <2> QED
    BY <2>1, <2>2, <1>3 DEF MemoryInv
<1>5. p \in Nat \ {0} /\ EndOf(p) \in p .. Len(mem)
  BY <1>1, <1>2, <1>3
<1>6. String(p) = SubSeq(line, p, EndOf(p) - 1)
  BY <1>4, <1>5, StringIs
<1> QED
  BY <1>6 DEF WordAt

(* The parameters of the grammar, one by one.                              *)
LEMMA ParametersAre ==
  ASSUME line \in Seq(Chars), From # 0, NEW n \in Nat \ {0},
         Cardinality(Starts) = n, NEW m \in Nat,
         m = (IF (IF Rest = 0 THEN n - 1 ELSE n) <= MAX_MSG_TOKENS
              THEN (IF Rest = 0 THEN n - 1 ELSE n) ELSE MAX_MSG_TOKENS),
         NEW V, NEW f \in Seq(V), Len(f) = m,
         \A i \in 1 .. m :
           f[i] = IF i < n THEN WordsOf[i + 1]
                  ELSE SubSeq(line, Rest + 1, Len(line))
  PROVE  f = Parameters /\ Len(Parameters) = m
<1> DEFINE rest == SubSeq(line, Rest + 1, Len(line))
           B == {WordsOf[i] : i \in 1 .. n} \cup {rest}
           words == WordsOf
           all == Tail(WordsOf) \o Trailing
<1>0. MAX_MSG_TOKENS \in Nat \ {0}
  BY HandleLineAssumption
<1>1. words \in Seq(B) /\ Len(words) = n /\ words # <<>>
  <2>1. DOMAIN words = 1 .. n /\ words = [i \in 1 .. n |-> words[i]]
    BY DEF WordsOf
  <2>2. \A i \in 1 .. n : words[i] \in B
    OBVIOUS
  <2> HIDE DEF words, B
  <2>3. words \in [1 .. n -> B]
    BY <2>1, <2>2
  <2>4. words \in Seq(B) /\ Len(words) = n
    BY ONLY <2>3, n \in Nat \ {0}
  <2> QED
    BY <2>4
<1>2. Trailing \in Seq(B) /\ Len(Trailing) = (IF Rest = 0 THEN 0 ELSE 1)
      /\ (Rest # 0 => Trailing[1] = rest)
  <2>1. rest \in B
    OBVIOUS
  <2>2. Trailing = IF Rest = 0 THEN <<>> ELSE <<rest>>
    BY DEF Trailing
  <2> HIDE DEF rest, B
  <2> QED
    BY <2>1, <2>2
<1> HIDE DEF B
<1>3. /\ Tail(words) \in Seq(B) /\ Len(Tail(words)) = n - 1
      /\ \A i \in 1 .. n - 1 : Tail(words)[i] = words[i + 1]
  <2> HIDE DEF words
  <2> QED
    BY <1>1, HeadTailProperties
<1>4. /\ all \in Seq(B)
      /\ Len(all) = n - 1 + Len(Trailing)
      /\ \A i \in 1 .. n - 1 + Len(Trailing) :
           all[i] = IF i <= n - 1 THEN Tail(words)[i] ELSE Trailing[i - (n - 1)]
  <2>1. PICK first \in Seq(B), last \in Seq(B) :
          first = Tail(words) /\ last = Trailing
    BY <1>2, <1>3
  <2>2. /\ first \o last \in Seq(B) /\ Len(first \o last) = Len(first) + Len(last)
        /\ \A i \in 1 .. Len(first) + Len(last) :
             (first \o last)[i] = IF i <= Len(first) THEN first[i]
                                 ELSE last[i - Len(first)]
    BY ONLY <2>1, ConcatProperties
  <2>3. all = first \o last /\ Len(first) = n - 1
    BY <1>3, <2>1
  <2> HIDE DEF all, words
  <2> QED
    BY <2>1, <2>2, <2>3
<1> HIDE DEF all, rest
<1>5. /\ Len(all) \in Nat /\ Len(all) = IF Rest = 0 THEN n - 1 ELSE n
      /\ \A i \in 1 .. Len(all) : all[i] = IF i < n THEN WordsOf[i + 1] ELSE rest
  <2>1. Len(all) = IF Rest = 0 THEN n - 1 ELSE n
    BY <1>2, <1>4
  <2>2. ASSUME NEW i \in 1 .. Len(all)
        PROVE  all[i] = IF i < n THEN WordsOf[i + 1] ELSE rest
    <3>1. CASE i < n
      <4>1. i \in 1 .. n - 1 /\ i <= n - 1 /\ i \in 1 .. n - 1 + Len(Trailing)
        BY <2>1, <3>1, <1>2
      <4>2. all[i] = Tail(words)[i] /\ Tail(words)[i] = words[i + 1]
        BY ONLY <4>1, <1>3, <1>4
      <4> QED
        BY ONLY <4>2, <3>1 DEF words
    <3>2. CASE ~(i < n)
      <4>1. Rest # 0 /\ i = n
        BY <2>1, <3>2
      <4>2. ~(i <= n - 1) /\ i - (n - 1) = 1 /\ i \in 1 .. n - 1 + Len(Trailing)
        BY <4>1, <1>2
      <4> QED
        BY <4>1, <4>2, <3>2, <1>2, <1>4
    <3> QED
      BY <3>1, <3>2
  <2> QED
    BY <2>1, <2>2
<1>6. Min({Len(all), MAX_MSG_TOKENS}) = m /\ m <= Len(all)
  <2>1. Min({Len(all), MAX_MSG_TOKENS})
          = IF Len(all) <= MAX_MSG_TOKENS THEN Len(all) ELSE MAX_MSG_TOKENS
    <3>1. Len(all) \in Nat
      BY <1>5
    <3> QED
      BY ONLY <3>1, <1>0, MinOfTwo
  <2> QED
    BY <2>1, <1>0, <1>5
<1>7. Parameters = SubSeq(all, 1, m)
  BY <1>6 DEF Parameters, all
<1>8. /\ SubSeq(all, 1, m) \in Seq(B) /\ Len(SubSeq(all, 1, m)) = m
      /\ \A i \in 1 .. m : SubSeq(all, 1, m)[i] = all[i]
  <2>1. \A i \in 1 .. m : all[i] \in B
    BY <1>4, <1>5, <1>6, ElementOfSeq
  <2>2. /\ SubSeq(all, 1, m) \in Seq(B)
        /\ Len(SubSeq(all, 1, m)) = IF 1 <= m THEN m - 1 + 1 ELSE 0
        /\ \A i \in 1 .. m - 1 + 1 : SubSeq(all, 1, m)[i] = all[1 + i - 1]
    BY <2>1, SubSeqProperties
  <2> QED
    BY <2>2
<1>9. \A i \in 1 .. m : f[i] = all[i]
  <2> TAKE i \in 1 .. m
  <2>1. i \in 1 .. Len(all)
    BY <1>5, <1>6
  <2> QED
    BY <2>1, <1>5 DEF rest
<1>10. f \in Seq(B) /\ Len(f) = m
  <2>1. \A i \in 1 .. m : f[i] \in B
    <3>1. \A i \in 1 .. Len(all) : all[i] \in B
      BY <1>4, ElementOfSeq
    <3>2. 1 .. m \subseteq 1 .. Len(all)
      BY <1>5, <1>6
    <3> QED
      BY ONLY <1>9, <3>1, <3>2
  <2>2. DOMAIN f = 1 .. m /\ f = [i \in DOMAIN f |-> f[i]]
    BY LenProperties
  <2>3. f \in [1 .. m -> B]
    BY ONLY <2>1, <2>2
  <2> QED
    BY <2>3
<1>11. f = SubSeq(all, 1, m)
  <2> DEFINE g == SubSeq(all, 1, m)
  <2>1. /\ g \in Seq(B) /\ Len(g) = m /\ \A i \in 1 .. m : f[i] = g[i]
    BY <1>8, <1>9
  <2> HIDE DEF g
  <2>2. f = g
    BY <2>1, <1>10, SeqEqual
  <2> QED
    BY <2>2 DEF g
<1> QED
  BY <1>7, <1>8, <1>11

LEMMA AddTrailingStep ==
  ASSUME LineInv, AddTrailing, line' = line
  PROVE  LineInv'
<1>1. /\ line_pc = "trailing" /\ MemoryInv /\ CommandFound /\ TrailingCut /\ Taken
      /\ Len(params) < Cardinality(Starts) /\ Len(params) <= MAX_MSG_TOKENS
      /\ \/ Len(params) = MAX_MSG_TOKENS
         \/ Len(params) + 1 = Cardinality(Starts)
  BY DEF AddTrailing, LineInv
<1>2. /\ params' = IF trailing # 0 /\ Len(params) < MAX_MSG_TOKENS
                   THEN Append(params, trailing) ELSE params
      /\ line_pc' = "dispatch" /\ UNCHANGED <<mem, prefix, command>>
  BY DEF AddTrailing
<1>3. /\ line \in Seq(Chars) /\ Len(line) \in Nat
      /\ DOMAIN line = 1 .. Len(line)
      /\ Len(mem) = Len(line) + 1 /\ mem[Len(mem)] = NUL
      /\ From \in Nat \ {0} /\ command \in Starts /\ Starts \in SUBSET Nat
      /\ MAX_MSG_TOKENS \in Nat \ {0}
  BY <1>1, MemoryTyped, CommandIs, StartsAre, HandleLineAssumption DEF CommandFound
<1>4. /\ params \in Seq(Starts) /\ Len(params) \in Nat
      /\ DOMAIN params = 1 .. Len(params)
      /\ \A i \in 1 .. Len(params) : params[i] \in Starts
  BY <1>1, LenProperties, ElementOfSeq DEF Taken
<1>7. PICK n \in Nat \ {0} : n = Cardinality(Starts)
  <2>1. Cardinality(Starts) \in Nat
    BY <1>3, StartsAre DEF CommandFound
  <2>2. Cardinality(Starts) # 0
    BY <1>1, <1>4
  <2> QED
    BY <2>1, <2>2
<1>a. /\ params \in Seq(Nat) /\ Len(params) < n /\ Len(params) <= MAX_MSG_TOKENS
      /\ Len(params) = MAX_MSG_TOKENS \/ Len(params) + 1 = n
  <2>1. Starts \subseteq Nat
    BY <1>3
  <2>2. PICK l \in Nat : l = Len(params)
    BY <1>4
  <2>3. DOMAIN params = 1 .. l /\ params = [i \in DOMAIN params |-> params[i]]
        /\ \A i \in 1 .. l : params[i] \in Nat
    BY <1>4, <2>1, <2>2
  <2>4. params \in [1 .. l -> Nat]
    BY ONLY <2>3
  <2>5. params \in Seq(Nat)
    BY ONLY <2>2, <2>4
  <2> QED
    BY <1>1, <1>7, <2>5
<1>c. PICK l \in Nat : l = Len(params)
  BY <1>4
<1>d. /\ l < MAX_MSG_TOKENS => l = n - 1
      /\ l < MAX_MSG_TOKENS \/ l = MAX_MSG_TOKENS
  <2>1. l < n /\ l <= MAX_MSG_TOKENS /\ (l = MAX_MSG_TOKENS \/ l + 1 = n)
    BY <1>a, <1>c
  <2> QED
    BY ONLY <1>3, <2>1, l \in Nat, n \in Nat \ {0}
<1>5. ASSUME NEW i \in 1 .. Len(params)
      PROVE  String(params[i]) = WordsOf[i + 1] /\ i < n
  <2>1. /\ params[i] \in Starts /\ Cardinality(Below(params[i])) = i
        /\ mem[EndOf(params[i])] = NUL /\ i \in Nat
    BY <1>1, <1>4 DEF Taken
  <2>2. String(params[i]) = WordAt(params[i])
    BY <1>1, <1>3, <2>1, WordIs
  <2>3. WordsOf[i + 1] = WordAt(params[i])
    BY <1>3, <2>1, WordNumber
  <2> QED
    BY <2>2, <2>3, <1>a, <1>4
<1>6. String(command) = Head(WordsOf) /\ WordsOf # <<>>
  <2>1. String(command) = WordAt(command)
    BY <1>1, <1>3, WordIs DEF Taken
  <2>2. Cardinality(Below(command)) = 0
    BY <1>1, CommandIs
  <2>3. WordsOf[0 + 1] = WordAt(command)
    BY <1>3, <2>2, WordNumber
  <2>4. WordsOf # <<>>
    BY <1>3, WordsThereAre
  <2> QED
    BY <2>1, <2>3, <2>4
<1>8. trailing = IF Rest = 0 THEN 0 ELSE Rest + 1
  BY <1>1 DEF TrailingCut
<1>9. Rest # 0 => /\ Rest \in 2 .. Len(line) /\ trailing \in Nat \ {0}
                  /\ String(trailing) = SubSeq(line, Rest + 1, Len(line))
  <2> SUFFICES ASSUME Rest # 0
               PROVE  /\ Rest \in 2 .. Len(line) /\ trailing \in Nat \ {0}
                      /\ String(trailing) = SubSeq(line, Rest + 1, Len(line))
    OBVIOUS
  <2>1. Rest \in 2 .. Len(line)
    BY <1>3, WordsEndIs
  <2>2. \A k \in Rest + 1 .. Len(mem) - 1 : mem[k] = line[k]
    BY <1>1, <1>3 DEF TrailingCut, Uncut
  <2>3. Rest + 1 \in Nat \ {0} /\ Len(mem) \in Rest + 1 .. Len(mem)
    BY <1>3, <2>1
  <2>4. String(Rest + 1) = SubSeq(line, Rest + 1, Len(mem) - 1)
    BY <1>1, <1>3, <2>2, <2>3, StringIs
  <2>5. Len(mem) - 1 = Len(line)
    BY <1>3
  <2> QED
    BY <1>8, <2>1, <2>3, <2>4, <2>5
<1>10. /\ params' \in Seq(Nat) /\ DOMAIN params' = 1 .. Len(params')
       /\ Len(params') \in Nat
       /\ Len(params') = (IF (IF Rest = 0 THEN n - 1 ELSE n) <= MAX_MSG_TOKENS
                          THEN (IF Rest = 0 THEN n - 1 ELSE n)
                          ELSE MAX_MSG_TOKENS)
       /\ \A i \in 1 .. Len(params') :
            IF i < n THEN i \in 1 .. Len(params) /\ params'[i] = params[i]
            ELSE Rest # 0 /\ params'[i] = trailing
  <2>1. CASE Len(params) = MAX_MSG_TOKENS
    <3>1. params' = params
      BY <1>2, <1>3, <2>1
    <3> QED
      BY <3>1, <1>a, <2>1, <1>3, <1>4, <1>7
  <2>2. CASE Len(params) < MAX_MSG_TOKENS /\ Rest = 0
    <3>1. params' = params
      BY <1>2, <1>8, <2>2
    <3>2. Len(params) = n - 1
      BY <1>c, <1>d, <2>2
    <3> QED
      BY <3>1, <3>2, <1>a, <2>2, <1>3, <1>4, <1>7
  <2>3. CASE Len(params) < MAX_MSG_TOKENS /\ Rest # 0
    <3>1. params' = Append(params, trailing)
      BY <1>2, <1>9, <2>3
    <3>2. Len(params) = n - 1
      BY <1>c, <1>d, <2>3
    <3>3. /\ params' \in Seq(Nat) /\ Len(params') = Len(params) + 1
          /\ \A i \in 1 .. Len(params) + 1 :
               params'[i] = IF i = Len(params) + 1 THEN trailing ELSE params[i]
      BY <3>1, <1>a, <1>9, <2>3, AppendProperties
    <3>4. Len(params') = n /\ DOMAIN params' = 1 .. Len(params')
      BY <3>2, <3>3, <1>7, LenProperties
    <3> QED
      BY <3>1, <3>2, <3>3, <3>4, <2>3, <1>3, <1>4, <1>7
  <2>4. Len(params) < MAX_MSG_TOKENS \/ Len(params) = MAX_MSG_TOKENS
    BY <1>c, <1>d
  <2> QED
    BY <2>1, <2>2, <2>3, <2>4
<1>b. PICK m \in Nat : m = Len(params')
  BY <1>10
<1> DEFINE f == [i \in 1 .. m |-> String(params'[i])]
<1>11. f = Parameters
  <2>1. \A i \in 1 .. m :
          f[i] = IF i < n THEN WordsOf[i + 1] ELSE SubSeq(line, Rest + 1, Len(line))
    <3> TAKE i \in 1 .. m
    <3>1. f[i] = String(params'[i]) /\ i \in 1 .. Len(params')
      BY <1>b
    <3> HIDE DEF f
    <3>2. CASE i < n
      BY <3>1, <3>2, <1>5, <1>10
    <3>3. CASE ~(i < n)
      BY <3>1, <3>3, <1>9, <1>10
    <3> QED
      BY <3>2, <3>3
  <2> DEFINE V == {f[i] : i \in 1 .. m}
  <2>2. f \in Seq(V) /\ Len(f) = m
    <3>1. DOMAIN f = 1 .. m /\ f = [i \in DOMAIN f |-> f[i]]
      OBVIOUS
    <3> HIDE DEF f
    <3>2. f \in [1 .. m -> V]
      BY <3>1
    <3> HIDE DEF V
    <3> QED
      BY <3>2
  <2> HIDE DEF V
  <2> HIDE DEF f
  <2>3. /\ line \in Seq(Chars) /\ From # 0 /\ Cardinality(Starts) = n
        /\ n \in Nat \ {0} /\ m \in Nat
    BY <1>3, <1>7, <1>b
  <2>4. m = (IF (IF Rest = 0 THEN n - 1 ELSE n) <= MAX_MSG_TOKENS
             THEN (IF Rest = 0 THEN n - 1 ELSE n) ELSE MAX_MSG_TOKENS)
    BY <1>10, <1>b
  <2> QED
    BY ONLY <2>1, <2>2, <2>3, <2>4, ParametersAre
<1>12. [i \in DOMAIN params |-> String(params[i])]' = Parameters
  <2>1. f = [i \in DOMAIN params' |-> String(params'[i])]
    BY <1>10, <1>b
  <2>2. [i \in DOMAIN params |-> String(params[i])]'
          = [i \in DOMAIN params' |-> String(params'[i])]
    BY <1>2 DEF String
  <2> QED
    BY <1>11, <2>1, <2>2
<1>13. prefix # 0 => String(prefix) = SubSeq(line, 2, From - 1)
  <2> SUFFICES ASSUME prefix # 0
               PROVE  String(prefix) = SubSeq(line, 2, From - 1)
    OBVIOUS
  <2>1. prefix = 2 /\ line # <<>> /\ line[1] = Colon /\ mem[From] = NUL
    BY <1>1 DEF CommandFound, PrefixRead
  <2>2. /\ From \in 2 .. Len(line)
        /\ \A k \in 1 .. From - 1 : line[k] # Space
    BY <1>3, <2>1, FromIs
  <2>3. \A k \in 2 .. From - 1 : mem[k] = line[k]
    <3>1. Rest # 0 => Rest > From
      BY <1>3, RestIs DEF IsRest
    <3> TAKE k \in 2 .. From - 1
    <3>2. k \in DOMAIN line /\ k # Rest
      BY <1>3, <2>2, <3>1, RestIs
    <3> QED
      BY <1>1, <2>2, <3>2 DEF MemoryInv
  <2>4. From \in 2 .. Len(mem)
    BY <1>3, <2>2
  <2> QED
    BY <1>1, <2>1, <2>3, <2>4, StringIs
<1>14. CutAsWritten'
  <2>1. WordsOf' = WordsOf /\ Parameters' = Parameters /\ From' = From
    BY LineStays
  <2>2. String(command)' = String(command) /\ String(prefix)' = String(prefix)
    BY <1>2 DEF String
  <2> QED
    BY <2>1, <2>2, <1>2, <1>6, <1>10, <1>12, <1>13 DEF CutAsWritten
<1> QED
  BY <1>1, <1>2, <1>14, MemoryStays DEF LineInv

LEMMA DispatchStep ==
  ASSUME LineInv, Dispatch, line' = line
  PROVE  LineInv'
<1>1. line_pc = "dispatch" /\ MemoryInv /\ CutAsWritten
  BY DEF Dispatch, LineInv
<1>2. /\ line_pc' = "done" /\ outcome' = Answer(String(command), Len(params))
      /\ UNCHANGED <<mem, registered, prefix, command, params>>
  BY DEF Dispatch
<1>3. Len(Parameters) = Len(params)
  <2>1. Len(params) \in Nat /\ DOMAIN params = 1 .. Len(params)
    BY <1>1, LenProperties DEF CutAsWritten
  <2>2. Parameters = [i \in 1 .. Len(params) |-> String(params[i])]
    BY <1>1, <2>1 DEF CutAsWritten
  <2> QED
    BY <2>1, <2>2
<1>4. outcome' = Answer(Head(WordsOf), Len(Parameters))
  BY <1>1, <1>2, <1>3 DEF CutAsWritten
<1>5. Answer(Head(WordsOf), Len(Parameters))' = Answer(Head(WordsOf), Len(Parameters))
  BY <1>2, LineStays DEF Answer
<1>6. /\ WordsOf' = WordsOf /\ Parameters' = Parameters /\ From' = From
  BY LineStays
<1>7. /\ String(command)' = String(command) /\ String(prefix)' = String(prefix)
      /\ [i \in DOMAIN params |-> String(params[i])]'
           = [i \in DOMAIN params |-> String(params[i])]
  BY <1>2 DEF String
<1>8. ParsedAsWritten'
  BY <1>1, <1>2, <1>4, <1>5, <1>6, <1>7 DEF CutAsWritten, ParsedAsWritten
<1> QED
  BY <1>1, <1>2, <1>8, MemoryStays DEF LineInv

LEMMA StutterStep ==
  ASSUME LineInv,
         UNCHANGED <<mem, registered, prefix, command, pstart, trailing, params,
                     line_pc, outcome, line>>
  PROVE  LineInv'
<1>1. /\ From' = From /\ Rest' = Rest /\ WordsEnd' = WordsEnd
      /\ Starts' = Starts /\ WordsOf' = WordsOf /\ Parameters' = Parameters
  BY LineStays
<1>2. EndOf(command)' = EndOf(command) /\ Below(pstart)' = Below(pstart)
  BY <1>1 DEF EndOf, Below
<1>3. MemoryInv /\ MemoryInv'
  BY MemoryStays DEF LineInv
<1>4. Uncut(1, Len(line)) => Uncut(1, Len(line))'
  BY DEF Uncut
<1>5. Uncut(command, Len(line)) => Uncut(command, Len(line))'
  BY DEF Uncut
<1>6. Uncut(pstart, Len(line)) => Uncut(pstart, Len(line))'
  BY DEF Uncut
<1>7. PrefixRead => PrefixRead'
  BY DEF PrefixRead
<1>8. CommandFound => CommandFound'
  BY <1>1, <1>7 DEF CommandFound
<1>9. BehindCommand => BehindCommand'
  BY DEF BehindCommand
<1>10. TrailingCut => TrailingCut'
  BY <1>1 DEF TrailingCut, Uncut
<1>11. Taken => Taken'
  <2>1. \A i \in DOMAIN params :
          /\ Below(params[i])' = Below(params[i])
          /\ EndOf(params[i])' = EndOf(params[i])
    BY <1>1 DEF EndOf, Below
  <2> QED
    BY <1>1, <1>2, <2>1 DEF Taken
<1>12. AtNextWord => AtNextWord'
  BY <1>1, <1>2 DEF AtNextWord, Uncut
<1>13. /\ String(command)' = String(command) /\ String(prefix)' = String(prefix)
       /\ [i \in DOMAIN params |-> String(params[i])]'
            = [i \in DOMAIN params |-> String(params[i])]
  BY DEF String
<1>14. CutAsWritten => CutAsWritten'
  BY <1>1, <1>13 DEF CutAsWritten
<1>15. Answer(Head(WordsOf), Len(Parameters))' = Answer(Head(WordsOf), Len(Parameters))
  BY <1>1 DEF Answer
<1>16. ParsedAsWritten => ParsedAsWritten'
  BY <1>1, <1>13, <1>15 DEF ParsedAsWritten
<1> QED
  BY <1>1, <1>3, <1>4, <1>5, <1>6, <1>7, <1>8, <1>9, <1>10, <1>11, <1>12,
     <1>14, <1>16 DEF LineInv

LEMMA ParseBegins ==
  ASSUME ParseInit
  PROVE  LineInv
<1>1. PICK x \in ReceivedLines : mem = x \o <<NUL>>
  BY DEF ParseInit, LineInit
<1>2. x \in Seq(Chars)
  BY DEF ReceivedLines, Chars
<1> DEFINE B == Chars \cup {NUL}
<1>3. /\ mem \in Seq(B) /\ Len(x) \in Nat /\ Len(mem) = Len(x) + 1
      /\ mem[Len(mem)] = NUL
      /\ \A k \in 1 .. Len(x) : mem[k] = x[k]
  <2>1. x \in Seq(B) /\ <<NUL>> \in Seq(B) /\ Len(<<NUL>>) = 1
    BY <1>2
  <2> HIDE DEF B
  <2>2. /\ x \o <<NUL>> \in Seq(B) /\ Len(x \o <<NUL>>) = Len(x) + 1
        /\ \A k \in 1 .. Len(x) + 1 :
             (x \o <<NUL>>)[k] = IF k <= Len(x) THEN x[k] ELSE <<NUL>>[k - Len(x)]
    BY <2>1, ConcatProperties
  <2>3. Len(x) \in Nat
    BY <2>1, LenProperties
  <2> QED
    BY <1>1, <2>2, <2>3
<1>4. line = x
  <2>1. line = SubSeq(mem, 1, Len(x))
    <3>1. line = SubSeq(mem, 1, Len(mem) - 1) /\ Len(mem) - 1 = Len(x)
      BY <1>3 DEF ParseInit, Front
    <3> QED
      BY <3>1
  <2> HIDE DEF B
  <2> DEFINE y == SubSeq(mem, 1, Len(x))
  <2>2. /\ y \in Seq(B) /\ Len(y) = Len(x)
        /\ \A k \in 1 .. Len(x) : y[k] = mem[k]
    <3>1. \A k \in 1 .. Len(x) : mem[k] \in B
      BY <1>3, ElementOfSeq
    <3> QED
      BY <1>3, <3>1, SubSeqProperties
  <2> HIDE DEF y
  <2>3. x \in Seq(B)
    BY <1>2 DEF B
  <2>4. y = x
    BY <1>3, <2>2, <2>3, SeqEqual
  <2> QED
    BY <2>1, <2>4 DEF y
<1>5. MemoryInv
  BY <1>2, <1>3, <1>4, LenProperties DEF MemoryInv
<1>6. /\ line_pc = "prefix" /\ params = <<>> /\ trailing = 0
  BY DEF ParseInit, LineInit
<1>7. Uncut(1, Len(line))
  BY <1>3, <1>4 DEF Uncut
<1> QED
  BY <1>5, <1>6, <1>7 DEF LineInv

(* For lines of every length, any number of parameters and any set of      *)
(* commands: what handle_line (irc_proto.c:98-198) takes for the prefix,   *)
(* the command and the parameters is what the line has in their places,    *)
(* and the answer is the one they deserve.                                 *)
THEOREM LinesAreParsed == ParseSpec => []ParsedAsWritten
<1>1. ParseInit => LineInv
  BY ParseBegins
<1>2. ASSUME LineInv, [ParseNext]_parse_vars PROVE LineInv'
  <2>1. CASE UNCHANGED parse_vars
    <3>1. UNCHANGED <<mem, registered, prefix, command, pstart, trailing, params,
                      line_pc, outcome, line>>
      BY <2>1 DEF parse_vars, line_vars
    <3> QED
      BY <1>2, <3>1, StutterStep
  <2>2. CASE ParseNext
    <3>1. LineNext /\ line' = line
      BY <2>2 DEF ParseNext
    <3> QED
      BY <1>2, <3>1, TakePrefixStep, SkipToCommandStep, EndCommandStep,
         FindTrailingStep, TakeParamStep, AddTrailingStep, DispatchStep
      DEF LineNext
  <2> QED
    BY <1>2, <2>1, <2>2
<1>3. LineInv => ParsedAsWritten
  BY DEF LineInv, ParsedAsWritten
<1> QED
  BY <1>1, <1>2, <1>3, PTL DEF ParseSpec

-----------------------------------------------------------------------------
(* Numeric replies.                                                        *)

(* snprintf behind what fits in buf stays inside buf, whatever the text.   *)
LEMMA FitsInside ==
  ASSUME NEW at \in Nat, at < sizeof_buf, NEW text \in Nat
  PROVE  Inside(at, text)
<1>1. sizeof_buf \in Nat
  BY ReplyBufAssumption DEF sizeof_buf
<1>2. size_t(sizeof_buf - at) = sizeof_buf - at
  BY <1>1 DEF size_t
<1>3. Min({text, sizeof_buf - at - 1}) <= sizeof_buf - at - 1
  BY <1>1, MinOfTwo
<1>4. Min({text, sizeof_buf - at - 1}) \in Int
  BY <1>1, MinOfTwo
<1> QED
  BY <1>1, <1>2, <1>3, <1>4 DEF Inside

(* What prepareMessage sends of a text in buf.                             *)
LEMMA SentIs ==
  ASSUME NEW n \in Nat, numWritten' = n, prepareReply
  PROVE  sent' = IF n >= MAX_CONTENT_LENGTH THEN MAX_CONTENT_LENGTH + 2 ELSE n + 2
<1>1. MAX_CONTENT_LENGTH \in Nat /\ sizeof_buf - 1 = MAX_CONTENT_LENGTH
  BY ReplyBufAssumption DEF sizeof_buf
<1>2. {MAX_CONTENT_LENGTH, n, sizeof_buf - 1} = {MAX_CONTENT_LENGTH, n}
  BY <1>1
<1>3. sent' = Min({MAX_CONTENT_LENGTH, n}) + 2
  BY <1>2 DEF prepareReply
<1> QED
  BY <1>1, <1>3, MinOfTwo

(* The text that ends the reply, the names as far as buf holds them.       *)
Ending ==
  IF temp = 0 THEN Phrase
  ELSE IF temp <= sizeof_buf - 1 THEN temp ELSE sizeof_buf - 1

(* Which texts are still to be appended, and how far buf is written then.  *)
(* With the names behind it the first text leaves room for the last.       *)
FirstPending ==
  /\ pending = <<quoted, Ending>> /\ numWritten = Header
LastPending ==
  /\ pending = <<Ending>> /\ numWritten = Header + 1 + quoted
  /\ numWritten # sizeof_buf

ReplyInv ==
  /\ temp \in Nat /\ quoted \in Nat
  /\ pc = "start" => temp = 0
  /\ pc = "names" => temp > 0 /\ temp < sizeof_buf
  /\ pc = "texts" =>
       /\ FirstPending \/ LastPending
       /\ temp > 0 => Header + 1 + quoted <= sizeof_buf
  /\ OverflowsOnlyByWord /\ FullOrComplete

LEMMA ReplyBegins ==
  ASSUME NEW word \in Nat, NEW last, last = Ending', temp' \in Nat,
         temp' > 0 => Header + 1 + word <= sizeof_buf,
         Reply(<<word, last>>)
  PROVE  ReplyInv'
<1>1. /\ pending' = <<word, last>> /\ quoted' = word /\ numWritten' = Header
      /\ pc' = "texts"
  BY DEF Reply
<1>2. FirstPending'
  BY <1>1 DEF FirstPending
<1> QED
  BY <1>1, <1>2 DEF ReplyInv, OverflowsOnlyByWord, FullOrComplete

LEMMA ReplyOfNames ==
  ASSUME NEW channame \in Channames, NEW length \in Nat, length > 0,
         temp' = length, ReplyNames(channame, length)
  PROVE  ReplyInv'
<1>1. sizeof_buf - 1 \in Nat /\ channame \in Nat /\ Header + 1 + channame <= sizeof_buf
  BY ReplyBufAssumption DEF sizeof_buf
<1>2. Min({length, sizeof_buf - 1}) =
        IF length <= sizeof_buf - 1 THEN length ELSE sizeof_buf - 1
  BY <1>1, MinOfTwo
<1>3. Min({length, sizeof_buf - 1}) = Ending'
  BY <1>2 DEF Ending, sizeof_buf
<1> QED
  BY <1>1, <1>3, ReplyBegins DEF ReplyNames

(* One text is appended.                                                   *)
LEMMA AppendStep ==
  ASSUME ReplyInv, AppendText
  PROVE  ReplyInv'
<1> USE ReplyBufAssumption
<1>0. /\ sizeof_buf \in Nat /\ sizeof_buf = MAX_CONTENT_LENGTH + 1
      /\ Header \in Nat /\ Header < sizeof_buf /\ Phrase \in Nat
  BY DEF sizeof_buf
<1>1. /\ pc = "texts" /\ temp \in Nat /\ quoted \in Nat
      /\ FirstPending \/ LastPending
      /\ temp > 0 => Header + 1 + quoted <= sizeof_buf
      /\ temp' = temp /\ quoted' = quoted
  BY DEF AppendText, ReplyInv
<1>2. PICK colon \in IF Len(pending) = 1 THEN {0, 1} ELSE {0} :
        LET text == Head(pending) + 1 + colon
        IN  IF ~Inside(numWritten, text)
            THEN pc' = "outside" /\ UNCHANGED <<numWritten, pending, sent>>
            ELSE /\ numWritten' = numWritten + text
                 /\ pending' = Tail(pending)
                 /\ IF pending' = <<>> \/ numWritten' = sizeof_buf
                    THEN pc' = "done" /\ prepareReply
                    ELSE pc' = pc /\ sent' = sent
  BY DEF AppendText
<1>3. Ending \in Nat /\ Ending' = Ending
  BY <1>0, <1>1 DEF Ending, sizeof_buf
<1>4. CASE FirstPending
  <2>1. /\ Len(pending) = 2 /\ Head(pending) = quoted /\ Tail(pending) = <<Ending>>
        /\ numWritten = Header
    BY <1>4 DEF FirstPending
  <2>2. colon = 0
    BY <1>2, <2>1
  <2>3. quoted + 1 + 0 \in Nat /\ quoted + 1 + 0 = quoted + 1
    BY <1>1
  <2>4. Inside(numWritten, quoted + 1 + 0)
    BY <1>0, <2>1, <2>3, FitsInside
  <2>5. /\ numWritten' = Header + 1 + quoted /\ pending' = <<Ending>>
        /\ IF numWritten' = sizeof_buf
           THEN pc' = "done" /\ prepareReply
           ELSE pc' = pc /\ sent' = sent
    <3>1. Head(pending) + 1 + colon = quoted + 1 + 0
      BY <2>1, <2>2
    <3>2. /\ numWritten' = numWritten + (quoted + 1 + 0)
          /\ pending' = Tail(pending)
          /\ IF pending' = <<>> \/ numWritten' = sizeof_buf
             THEN pc' = "done" /\ prepareReply
             ELSE pc' = pc /\ sent' = sent
      BY <1>2, <2>4, <3>1
    <3>3. numWritten' = Header + 1 + quoted
      BY <1>0, <1>1, <2>1, <3>2
    <3>4. pending' = <<Ending>> /\ pending' # <<>>
      BY <2>1, <3>2
    <3> QED
      BY <3>2, <3>3, <3>4
  <2>6. CASE numWritten' = sizeof_buf
    <3>1. pc' = "done" /\ sent' = MAX_CONTENT_LENGTH + 2
      BY <1>0, <2>5, <2>6, SentIs
    <3> QED
      BY <1>1, <3>1 DEF ReplyInv, OverflowsOnlyByWord, FullOrComplete
  <2>7. CASE numWritten' # sizeof_buf
    <3>1. LastPending'
      BY <1>1, <1>3, <2>5, <2>7 DEF LastPending, sizeof_buf
    <3>2. Header + 1 + quoted <= sizeof_buf <=> Header + 1 + quoted' <= sizeof_buf
      BY <1>1
    <3> QED
      BY <1>1, <2>5, <2>7, <3>1, <3>2
      DEF ReplyInv, OverflowsOnlyByWord, FullOrComplete, sizeof_buf
  <2> QED
    BY <2>6, <2>7
<1>5. CASE LastPending
  <2>1. /\ Len(pending) = 1 /\ Head(pending) = Ending /\ Tail(pending) = <<>>
        /\ numWritten = Header + 1 + quoted /\ numWritten # sizeof_buf
    BY <1>5 DEF LastPending
  <2>2. colon \in {0, 1}
    BY <1>2, <2>1
  <2> DEFINE text == Ending + 1 + colon
             n == numWritten + text
  <2>3. text \in Nat /\ n \in Nat /\ numWritten \in Nat
    BY <1>0, <1>1, <1>3, <2>1, <2>2
  <2>4. CASE ~Inside(numWritten, text)
    <3>1. pc' = "outside"
      BY <1>2, <2>1, <2>4
    <3>2. ~(numWritten < sizeof_buf)
      BY <2>3, <2>4, FitsInside
    <3>3. Header + 1 + quoted > sizeof_buf
      BY <1>0, <2>1, <2>3, <3>2
    <3>4. temp = 0
      BY <1>0, <1>1, <3>3
    <3> QED
      BY <1>1, <3>1, <3>3, <3>4
      DEF ReplyInv, OverflowsOnlyByWord, FullOrComplete, sizeof_buf
  <2>5. CASE Inside(numWritten, text)
    <3>1. numWritten' = n /\ pc' = "done" /\ prepareReply
      BY <1>2, <2>1, <2>5
    <3> HIDE DEF n
    <3>2. sent' = IF n >= MAX_CONTENT_LENGTH THEN MAX_CONTENT_LENGTH + 2 ELSE n + 2
      BY <2>3, <3>1, SentIs
    <3>3. FullOrComplete'
      <4>1. CASE n >= MAX_CONTENT_LENGTH
        BY <3>2, <4>1 DEF FullOrComplete
      <4>2. CASE ~(n >= MAX_CONTENT_LENGTH)
        <5>1. n = Header + 1 + quoted + Ending + 1 + colon
          BY <1>0, <1>1, <1>3, <2>1, <2>2 DEF n
        <5>2. Ending < MAX_CONTENT_LENGTH
          BY <1>0, <1>1, <1>3, <2>2, <4>2, <5>1
        <5>3. Ending = IF temp = 0 THEN Phrase ELSE temp
          BY <1>0, <1>1, <5>2 DEF Ending
        <5>4. sent' - (Header + 1 + quoted + 1 + Ending + 2) = colon
          BY <1>0, <1>1, <1>3, <2>2, <3>2, <4>2, <5>1
        <5> QED
          BY <1>1, <2>2, <5>3, <5>4 DEF FullOrComplete
      <4> QED
        BY <4>1, <4>2
    <3> QED
      BY <1>1, <3>1, <3>3 DEF ReplyInv, OverflowsOnlyByWord
  <2> QED
    BY <2>4, <2>5
<1> QED
  BY <1>1, <1>4, <1>5

LEMMA ReplyInvariant == ReplySpec => []ReplyInv
<1> USE ReplyBufAssumption
<1>0. /\ sizeof_buf \in Nat /\ Header \in Nat /\ Phrase \in Nat
      /\ Words \subseteq Nat /\ Nicks \subseteq 1 .. sizeof_buf - 1
  BY DEF sizeof_buf
<1>1. ReplyInit => ReplyInv
  BY DEF ReplyInit, ReplyInv, OverflowsOnlyByWord, FullOrComplete
<1>2. ASSUME ReplyInv, [ReplyNext]_reply_vars PROVE ReplyInv'
  <2>1. ASSUME NEW word \in Words, Refuse(word) PROVE ReplyInv'
    <3>1. temp = 0 /\ temp' = 0
      BY <1>2, <2>1 DEF Refuse, ReplyInv
    <3>2. Phrase = Ending' /\ word \in Nat
      BY <1>0, <3>1 DEF Ending
    <3> QED
      BY <2>1, <3>1, <3>2, ReplyBegins DEF Refuse
  <2>2. ASSUME NEW nick \in Nicks, FirstName(nick) PROVE ReplyInv'
    <3>1. /\ temp' = nick /\ nick \in Nat /\ nick > 0 /\ nick < sizeof_buf
          /\ pc' = "names" /\ quoted' = quoted
      BY <1>0, <2>2 DEF FirstName
    <3> QED
      BY <1>2, <3>1 DEF ReplyInv, OverflowsOnlyByWord, FullOrComplete,
                        sizeof_buf
  <2>3. ASSUME NEW channame \in Channames, NamesComplete(channame) PROVE ReplyInv'
    <3>1. temp \in Nat /\ temp > 0 /\ temp' = temp
      BY <1>2, <2>3 DEF NamesComplete, ReplyInv
    <3> QED
      BY <2>3, <3>1, ReplyOfNames DEF NamesComplete
  <2>4. ASSUME NEW channame \in Channames, NEW nick \in Nicks, NextName(nick, channame)
        PROVE  ReplyInv'
    <3>1. pc = "names" /\ temp \in Nat /\ temp > 0 /\ temp < sizeof_buf /\ nick \in Nat
      BY <1>0, <1>2, <2>4 DEF NextName, ReplyInv
    <3>2. nick + 1 \in Nat
      BY <3>1
    <3>3. Inside(temp, nick + 1)
      BY <3>1, <3>2, FitsInside
    <3>4. temp' = temp + nick + 1 /\ temp' \in Nat /\ temp' > 0
      BY <2>4, <3>1, <3>3 DEF NextName
    <3>5. CASE temp' >= sizeof_buf
      <4>1. ReplyNames(channame, temp')
        BY <2>4, <3>3, <3>5 DEF NextName
      <4>2. PICK length \in Nat : length = temp'
        BY <3>4
      <4>3. ReplyNames(channame, length) /\ length > 0 /\ temp' = length
        BY <3>4, <4>1, <4>2
      <4> QED
        BY <4>3, ReplyOfNames
    <3>6. CASE ~(temp' >= sizeof_buf)
      <4>1. pc' = pc /\ quoted' = quoted
        BY <2>4, <3>3, <3>6 DEF NextName
      <4>2. temp' < sizeof_buf
        BY <1>0, <3>4, <3>6
      <4> QED
        BY <1>2, <3>1, <3>4, <4>1, <4>2
        DEF ReplyInv, OverflowsOnlyByWord, FullOrComplete, sizeof_buf
    <3> QED
      BY <3>5, <3>6
  <2>5. ASSUME AppendText PROVE ReplyInv'
    BY <1>2, <2>5, AppendStep
  <2>6. CASE UNCHANGED reply_vars
    BY <1>2, <2>6 DEF reply_vars, ReplyInv, FirstPending, LastPending, Ending,
                      OverflowsOnlyByWord, FullOrComplete, sizeof_buf
  <2> QED
    BY <1>2, <2>1, <2>2, <2>3, <2>4, <2>5, <2>6 DEF ReplyNext
<1> QED
  BY <1>1, <1>2, PTL DEF ReplySpec

(* For any lengths of words, nicks and names: a reply is written outside   *)
(* buf only behind a word of the client's that leaves no room in it, and   *)
(* never by the list of names (irc_proto.c:374-381).                       *)
THEOREM OnlyWordsOverflow == ReplySpec => []OverflowsOnlyByWord
<1>1. ReplyInv => OverflowsOnlyByWord
  BY DEF ReplyInv
<1> QED
  BY <1>1, ReplyInvariant, PTL

(* For any of them, too: a reply that goes out lists everybody and ends    *)
(* with the whole of its phrase, or it fills the line.                     *)
THEOREM CompleteOrFull == ReplySpec => []FullOrComplete
<1>1. ReplyInv => FullOrComplete
  BY DEF ReplyInv
<1> QED
  BY <1>1, ReplyInvariant, PTL

=============================================================================
