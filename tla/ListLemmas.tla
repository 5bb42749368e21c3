----------------------------- MODULE ListLemmas -----------------------------
(***************************************************************************)
(* Facts about lists that the proofs of several modules rest on: the least *)
(* counterexample, what arraylist_add and arraylist_remove do to the       *)
(* entries of a list that holds nothing twice, how often a list holds      *)
(* something, what lists of lists are when they are flattened, and what    *)
(* the searches in memory find.                                            *)
(***************************************************************************)
EXTENDS ArraylistOps, CStrings, TLAPS, SequenceTheorems, FiniteSetTheorems,
        FunctionTheorems, WellFoundedInduction

(* A property of numbers that does not hold everywhere has a least         *)
(* counterexample: what the proofs use in the place of induction.          *)
LEMMA LeastNumber ==
  ASSUME NEW T \in SUBSET Nat, T # {}
  PROVE  \E m \in T : \A n \in T : m <= n
<1> DEFINE R == OpToRel(<, Nat)
<1>1. IsWellFoundedOn(R, Nat)
  BY NatLessThanWellFounded
<1>2. \A x, y \in Nat : x < y => <<x, y>> \in R
  BY DEF OpToRel
<1> HIDE DEF R
<1>3. PICK m \in T : \A y \in T : ~ (<<y, m>> \in R)
  BY <1>1, WFMin
<1>4. m \in Nat /\ \A n \in T : n \in Nat
  OBVIOUS
<1>5. \A n \in T : ~(n < m)
  BY <1>2, <1>3, <1>4
<1>6. \A n \in T : m <= n
  BY <1>4, <1>5
<1> QED
  BY <1>6

(* arraylist_index_of finds the position of an entry.                      *)
LEMMA IndexOfEntry ==
  ASSUME NEW S, NEW s \in Seq(S), IsInjective(s), NEW x \in ToSet(s)
  PROVE  /\ arraylist_index_of(s, x) \in 1 .. Len(s)
         /\ s[arraylist_index_of(s, x)] = x
<1>1. PICK k \in DOMAIN s : s[k] = x
  BY DEF ToSet
<1>2. DOMAIN s = 1 .. Len(s) /\ Len(s) \in Nat
  BY LenProperties
<1>3. \A j \in DOMAIN s : s[j] = x => k <= j
  BY <1>1, <1>2 DEF IsInjective
<1> QED
  BY <1>1, <1>2, <1>3 DEF arraylist_index_of

(* RemoveAt takes one entry out and moves the ones behind it down.         *)
LEMMA RemoveAtEntries ==
  ASSUME NEW S, NEW s \in Seq(S), NEW i \in 1 .. Len(s)
  PROVE  LET r == RemoveAt(s, i)
         IN  /\ r \in Seq(S)
             /\ Len(r) = Len(s) - 1
             /\ \A j \in 1 .. Len(s) - 1 :
                  r[j] = IF j < i THEN s[j] ELSE s[j + 1]
<1> DEFINE front == SubSeq(s, 1, i - 1)
           back == SubSeq(s, i + 1, Len(s))
           r == RemoveAt(s, i)
<1>1. i \in 1 .. Len(s) /\ Len(s) \in Nat
  BY LenProperties
<1>2. \A j \in 1 .. Len(s) : s[j] \in S
  BY ElementOfSeq
<1>3. /\ front \in Seq(S)
      /\ Len(front) = i - 1
      /\ \A j \in 1 .. i - 1 : front[j] = s[j]
  <2>1. \A j \in 1 .. i - 1 : s[j] \in S
    BY <1>1, <1>2
  <2>2. 1 \in Int /\ i - 1 \in Int
    BY <1>1
  <2>3. /\ SubSeq(s, 1, i - 1) \in Seq(S)
        /\ Len(SubSeq(s, 1, i - 1)) = IF 1 <= i - 1 THEN i - 1 - 1 + 1 ELSE 0
        /\ \A j \in 1 .. i - 1 - 1 + 1 : SubSeq(s, 1, i - 1)[j] = s[1 + j - 1]
    BY <2>1, <2>2, SubSeqProperties
  <2> QED
    BY <2>3, <1>1
<1>4. /\ back \in Seq(S)
      /\ Len(back) = Len(s) - i
      /\ \A j \in 1 .. Len(s) - i : back[j] = s[i + j]
  <2>1. \A j \in i + 1 .. Len(s) : s[j] \in S
    BY <1>1, <1>2
  <2>2. i + 1 \in Int /\ Len(s) \in Int
    BY <1>1
  <2>3. /\ SubSeq(s, i + 1, Len(s)) \in Seq(S)
        /\ Len(SubSeq(s, i + 1, Len(s))) =
             IF i + 1 <= Len(s) THEN Len(s) - (i + 1) + 1 ELSE 0
        /\ \A j \in 1 .. Len(s) - (i + 1) + 1 :
             SubSeq(s, i + 1, Len(s))[j] = s[(i + 1) + j - 1]
    BY <2>1, <2>2, SubSeqProperties
  <2> QED
    BY <2>3, <1>1
<1>5. r = front \o back
  BY DEF RemoveAt
<1> HIDE DEF front, back, r
<1>6. /\ r \in Seq(S)
      /\ Len(r) = Len(front) + Len(back)
      /\ \A j \in 1 .. Len(front) + Len(back) :
           r[j] = IF j <= Len(front) THEN front[j] ELSE back[j - Len(front)]
  BY <1>3, <1>4, <1>5, ConcatProperties
<1>7. \A j \in 1 .. Len(s) - 1 : r[j] = IF j < i THEN s[j] ELSE s[j + 1]
  <2> TAKE j \in 1 .. Len(s) - 1
  <2>1. CASE j < i
    <3>1. /\ j \in 1 .. Len(front) + Len(back)
          /\ j <= Len(front) /\ j \in 1 .. i - 1
      BY <2>1, <1>1, <1>3, <1>4
    <3>2. r[j] = front[j]
      BY <3>1, <1>6
    <3> QED
      BY <3>1, <3>2, <2>1, <1>3
  <2>2. CASE j >= i
    <3>0. /\ j \in 1 .. Len(front) + Len(back)
          /\ ~(j <= Len(front))
          /\ j - Len(front) = j - (i - 1)
      BY <2>2, <1>1, <1>3, <1>4
    <3>1. r[j] = back[j - (i - 1)]
      BY <3>0, <1>6
    <3>2. j - (i - 1) \in 1 .. Len(s) - i
      BY <2>2, <1>1
    <3>3. back[j - (i - 1)] = s[i + (j - (i - 1))]
      BY <3>2, <1>4
    <3> QED
      BY <3>1, <3>3, <2>2, <1>1
  <2> QED
    BY <2>1, <2>2, <1>1
<1>8. Len(r) = Len(s) - 1
  BY <1>1, <1>3, <1>4, <1>6
<1> QED
  BY <1>6, <1>7, <1>8 DEF r

(* arraylist_remove, entry by entry.                                       *)
LEMMA RemoveEntries ==
  ASSUME NEW S, NEW s \in Seq(S), IsInjective(s), NEW x \in ToSet(s)
  PROVE  LET i == arraylist_index_of(s, x)
             r == arraylist_remove(s, x)
         IN  /\ r \in Seq(S)
             /\ Len(r) = Len(s) - 1
             /\ \A j \in 1 .. Len(s) - 1 :
                  r[j] = IF j < i THEN s[j] ELSE s[j + 1]
<1> DEFINE i == arraylist_index_of(s, x)
<1>1. i \in 1 .. Len(s)
  BY IndexOfEntry
<1>2. arraylist_remove(s, x) = RemoveAt(s, i)
  BY DEF arraylist_remove
<1> HIDE DEF i
<1> QED
  BY <1>1, <1>2, RemoveAtEntries DEF i

(* Removing an entry of a list without duplicates takes out that entry,    *)
(* all of it and nothing else: what removeIndex's memmove is for.          *)
LEMMA RemoveProperties ==
  ASSUME NEW S, NEW s \in Seq(S), IsInjective(s), NEW x
  PROVE  /\ arraylist_remove(s, x) \in Seq(S)
         /\ IsInjective(arraylist_remove(s, x))
         /\ ToSet(arraylist_remove(s, x)) = ToSet(s) \ {x}
         /\ Len(arraylist_remove(s, x)) =
              IF x \in ToSet(s) THEN Len(s) - 1 ELSE Len(s)
<1>1. CASE x \notin ToSet(s)
  BY <1>1 DEF arraylist_remove
<1>2. CASE x \in ToSet(s)
  <2> DEFINE i == arraylist_index_of(s, x)
             r == arraylist_remove(s, x)
  <2>1. i \in 1 .. Len(s) /\ s[i] = x /\ Len(s) \in Nat
    BY <1>2, IndexOfEntry, LenProperties
  <2>2. /\ r \in Seq(S)
        /\ Len(r) = Len(s) - 1
        /\ \A j \in 1 .. Len(s) - 1 : r[j] = IF j < i THEN s[j] ELSE s[j + 1]
    BY <1>2, RemoveEntries
  <2>3. DOMAIN s = 1 .. Len(s) /\ DOMAIN r = 1 .. Len(s) - 1
    BY <2>2, LenProperties
  <2> HIDE DEF i, r
  <2>4. IsInjective(r)
    <3> SUFFICES ASSUME NEW a \in 1 .. Len(s) - 1, NEW b \in 1 .. Len(s) - 1,
                        r[a] = r[b]
                 PROVE  a = b
      BY <2>3 DEF IsInjective
    <3>1. /\ r[a] = IF a < i THEN s[a] ELSE s[a + 1]
          /\ r[b] = IF b < i THEN s[b] ELSE s[b + 1]
      BY <2>2
    <3>2. \A j, k \in 1 .. Len(s) : s[j] = s[k] => j = k
      BY <2>3 DEF IsInjective
    <3>3. /\ a \in 1 .. Len(s) /\ a + 1 \in 1 .. Len(s)
          /\ b \in 1 .. Len(s) /\ b + 1 \in 1 .. Len(s)
      BY <2>1
    <3>4. CASE a < i /\ b < i
      BY <3>1, <3>2, <3>3, <3>4
    <3>5. CASE a < i /\ ~(b < i)
      <4>1. a = b + 1
        BY <3>1, <3>2, <3>3, <3>5
      <4> QED
        BY <4>1, <3>5, <2>1
    <3>6. CASE ~(a < i) /\ b < i
      <4>1. a + 1 = b
        BY <3>1, <3>2, <3>3, <3>6
      <4> QED
        BY <4>1, <3>6, <2>1
    <3>7. CASE ~(a < i) /\ ~(b < i)
      <4>1. a + 1 = b + 1
        BY <3>1, <3>2, <3>3, <3>7
      <4> QED
        BY <4>1
    <3> QED
      BY <3>4, <3>5, <3>6, <3>7
  <2>5. ToSet(r) \subseteq ToSet(s) \ {x}
    <3> SUFFICES ASSUME NEW j \in 1 .. Len(s) - 1
                 PROVE  r[j] \in ToSet(s) \ {x}
      BY <2>3 DEF ToSet
    <3>1. CASE j < i
      BY <3>1, <2>1, <2>2, <2>3 DEF ToSet, IsInjective
    <3>2. CASE j >= i
      BY <3>2, <2>1, <2>2, <2>3 DEF ToSet, IsInjective
    <3> QED
      BY <3>1, <3>2, <2>1
  <2>6. ToSet(s) \ {x} \subseteq ToSet(r)
    <3> SUFFICES ASSUME NEW k \in 1 .. Len(s), s[k] # x
                 PROVE  s[k] \in ToSet(r)
      BY <2>3 DEF ToSet
    <3>1. CASE k < i
      <4>1. k \in 1 .. Len(s) - 1 /\ r[k] = s[k]
        BY <3>1, <2>1, <2>2
      <4> QED
        BY <4>1, <2>3 DEF ToSet
    <3>2. CASE k > i
      <4>1. k - 1 \in 1 .. Len(s) - 1 /\ r[k - 1] = s[k]
        BY <3>2, <2>1, <2>2
      <4> QED
        BY <4>1, <2>3 DEF ToSet
    <3> QED
      BY <3>1, <3>2, <2>1
  <2>7. r = arraylist_remove(s, x)
    BY DEF r
  <2> QED
    BY <1>2, <2>2, <2>4, <2>5, <2>6, <2>7
<1> QED
  BY <1>1, <1>2

(* Adding an entry that is not there yet keeps a list without duplicates.  *)
LEMMA AddProperties ==
  ASSUME NEW S, NEW s \in Seq(S), IsInjective(s), NEW x \in S
  PROVE  /\ Append(s, x) \in Seq(S)
         /\ x \notin ToSet(s) => IsInjective(Append(s, x))
         /\ ToSet(Append(s, x)) = ToSet(s) \cup {x}
         /\ Len(Append(s, x)) = Len(s) + 1
<1>1. /\ Append(s, x) \in Seq(S)
      /\ Len(Append(s, x)) = Len(s) + 1
      /\ \A j \in 1 .. Len(s) : Append(s, x)[j] = s[j]
      /\ Append(s, x)[Len(s) + 1] = x
  BY AppendProperties
<1>2. /\ DOMAIN s = 1 .. Len(s) /\ Len(s) \in Nat
      /\ DOMAIN Append(s, x) = 1 .. Len(s) + 1
  BY <1>1, LenProperties
<1>3. x \notin ToSet(s) => IsInjective(Append(s, x))
  BY <1>1, <1>2 DEF IsInjective, ToSet
<1>4. ToSet(Append(s, x)) = ToSet(s) \cup {x}
  <2> DEFINE t == Append(s, x)
  <2>1. ToSet(t) \subseteq ToSet(s) \cup {x}
    <3> SUFFICES ASSUME NEW j \in 1 .. Len(s) + 1
                 PROVE  t[j] \in ToSet(s) \cup {x}
      BY <1>2 DEF ToSet
    <3>1. CASE j \in 1 .. Len(s)
      BY <3>1, <1>1, <1>2 DEF ToSet
    <3>2. CASE j = Len(s) + 1
      BY <3>2, <1>1
    <3> QED
      BY <3>1, <3>2, <1>2
  <2>2. ToSet(s) \subseteq ToSet(t)
    <3> SUFFICES ASSUME NEW j \in 1 .. Len(s)
                 PROVE  s[j] \in ToSet(t)
      BY <1>2 DEF ToSet
    <3>1. j \in 1 .. Len(s) + 1 /\ t[j] = s[j]
      BY <1>1, <1>2
    <3> QED
      BY <3>1, <1>2 DEF ToSet
  <2>3. x \in ToSet(t)
    <3>1. Len(s) + 1 \in 1 .. Len(s) + 1
      BY <1>2
    <3> QED
      BY <3>1, <1>1, <1>2 DEF ToSet
  <2> QED
    BY <2>1, <2>2, <2>3
<1> QED
  BY <1>1, <1>3, <1>4

(* A list is empty exactly when it has no entries.                         *)
LEMMA EmptyIffNoEntries ==
  ASSUME NEW S, NEW s \in Seq(S)
  PROVE  s = <<>> <=> ToSet(s) = {}
<1>1. DOMAIN s = 1 .. Len(s) /\ Len(s) \in Nat
  BY LenProperties
<1>2. ASSUME s # <<>> PROVE 1 \in DOMAIN s
  BY <1>1, <1>2, EmptySeq
<1>3. ToSet(<<>>) = {}
  BY DEF ToSet
<1> QED
  BY <1>2, <1>3 DEF ToSet

-----------------------------------------------------------------------------
(* How often something is in a list.                                       *)

Occurrences(s, x) == {i \in DOMAIN s : s[i] = x}
Times(s, x) == Cardinality(Occurrences(s, x))

LEMMA OccurrencesFinite ==
  ASSUME NEW S, NEW s \in Seq(S), NEW x
  PROVE  IsFiniteSet(Occurrences(s, x)) /\ Times(s, x) \in Nat
<1>1. IsFiniteSet(DOMAIN s)
  BY LenProperties, FS_Interval
<1>2. Occurrences(s, x) \in SUBSET DOMAIN s
  BY DEF Occurrences
<1> QED
  BY <1>1, <1>2, FS_Subset, FS_CardinalityType DEF Times

LEMMA TimesConcat ==
  ASSUME NEW S, NEW s \in Seq(S), NEW t \in Seq(S), NEW x
  PROVE  Times(s \o t, x) = Times(s, x) + Times(t, x)
<1> DEFINE front == Occurrences(s, x)
           back == {j \in DOMAIN (s \o t) : j > Len(s) /\ (s \o t)[j] = x}
           shift == [i \in Occurrences(t, x) |-> Len(s) + i]
<1>1. /\ DOMAIN s = 1 .. Len(s) /\ DOMAIN t = 1 .. Len(t)
      /\ Len(s) \in Nat /\ Len(t) \in Nat
  BY LenProperties
<1>2. /\ DOMAIN (s \o t) = 1 .. Len(s) + Len(t)
      /\ \A i \in 1 .. Len(s) + Len(t) :
           (s \o t)[i] = IF i <= Len(s) THEN s[i] ELSE t[i - Len(s)]
  BY ConcatProperties, LenProperties
<1>3. Occurrences(s \o t, x) = front \cup back /\ front \cap back = {}
  BY <1>1, <1>2 DEF Occurrences
<1>4. shift \in Bijection(Occurrences(t, x), back)
  <2>1. shift \in [Occurrences(t, x) -> back]
    BY <1>1, <1>2 DEF Occurrences
  <2>2. \A a, b \in Occurrences(t, x) : shift[a] = shift[b] => a = b
    BY <1>1 DEF Occurrences
  <2>3. ASSUME NEW j \in back PROVE \E i \in Occurrences(t, x) : shift[i] = j
    <3>1. j - Len(s) \in Occurrences(t, x)
      BY <1>1, <1>2 DEF Occurrences
    <3> QED
      BY <1>1, <1>2, <3>1
  <2> QED
    BY <2>1, <2>2, <2>3, Fun_IsBij
<1>5. IsFiniteSet(front) /\ IsFiniteSet(Occurrences(t, x))
  BY OccurrencesFinite
<1>6. IsFiniteSet(back) /\ Cardinality(back) = Times(t, x)
  BY <1>4, <1>5, FS_Bijection, Fun_ExistsBij DEF Times
<1>7. Cardinality(front \cup back)
        = Cardinality(front) + Cardinality(back) - Cardinality(front \cap back)
  BY <1>5, <1>6, FS_Union
<1>8. Cardinality(front \cap back) = 0
  BY <1>3, FS_EmptySet
<1>9. /\ Times(s \o t, x) = Cardinality(front \cup back)
      /\ Times(s, x) = Cardinality(front)
  BY <1>3 DEF Times
<1>10. Times(s, x) \in Nat /\ Times(t, x) \in Nat
  BY OccurrencesFinite
<1> HIDE DEF front, back
<1> QED
  BY <1>6, <1>7, <1>8, <1>9, <1>10

LEMMA TimesAbsent ==
  ASSUME NEW s, NEW x, x \notin ToSet(s)
  PROVE  Times(s, x) = 0
<1>1. Occurrences(s, x) = {}
  BY DEF Occurrences, ToSet
<1> QED
  BY <1>1, FS_EmptySet DEF Times

LEMMA TimesOnce ==
  ASSUME NEW s, IsInjective(s), NEW x \in ToSet(s)
  PROVE  Times(s, x) = 1
<1>1. PICK i \in DOMAIN s : s[i] = x
  BY DEF ToSet
<1>2. Occurrences(s, x) = {i}
  BY <1>1 DEF Occurrences, IsInjective
<1> QED
  BY <1>2, FS_Singleton DEF Times

-----------------------------------------------------------------------------
(* FlattenSeq, taken apart: what its local function is, that there is one, *)
(* and that it only depends on the entries it has come to.                 *)

IsFlattening(f, ss, n) ==
  f = [i \in 1 .. n |-> IF i = 1 THEN ss[i] ELSE f[i - 1] \o ss[i]]

LEMMA FlatteningExists ==
  ASSUME NEW ss, NEW n \in Nat
  PROVE  \E f : IsFlattening(f, ss, n)
<1> DEFINE Bad == {k \in Nat : ~ \E f : IsFlattening(f, ss, k)}
<1> SUFFICES ASSUME Bad # {} PROVE FALSE
  OBVIOUS
<1>1. PICK m \in Bad : \A k \in Bad : m <= k
  <2>1. Bad \in SUBSET Nat
    OBVIOUS
  <2> HIDE DEF Bad
  <2> QED
    BY <2>1, LeastNumber
<1>2. CASE m = 0
  <2>1. IsFlattening([i \in 1 .. 0 |-> 0], ss, 0)
    BY DEF IsFlattening
  <2> QED
    BY <2>1, <1>2, <1>1
<1>3. CASE m > 0
  <2>1. m - 1 \in Nat /\ m - 1 \notin Bad
    BY <1>1, <1>3
  <2>2. PICK f : IsFlattening(f, ss, m - 1)
    BY <2>1
  <2> DEFINE g == [i \in 1 .. m |->
                     IF i = m THEN (IF m = 1 THEN ss[m] ELSE f[m - 1] \o ss[m])
                     ELSE f[i]]
  <2>3. \A i \in 1 .. m - 1 : f[i] = IF i = 1 THEN ss[i] ELSE f[i - 1] \o ss[i]
    BY <2>2 DEF IsFlattening
  <2>4. \A i \in 1 .. m : g[i] = IF i = 1 THEN ss[i] ELSE g[i - 1] \o ss[i]
    <3> TAKE i \in 1 .. m
    <3>1. CASE i = m
      BY <3>1, <1>1
    <3>2. CASE i # m
      <4>1. i \in 1 .. m - 1 /\ g[i] = f[i]
        BY <3>2, <1>1
      <4>2. i # 1 => i - 1 \in 1 .. m /\ i - 1 # m
        BY <4>1, <1>1
      <4>3. i # 1 => g[i - 1] = f[i - 1]
        BY <4>2
      <4> HIDE DEF g
      <4> QED
        BY <4>1, <4>3, <2>3
    <3> QED
      BY <3>1, <3>2
  <2>5. g = [i \in 1 .. m |-> g[i]]
    OBVIOUS
  <2> HIDE DEF g
  <2>6. IsFlattening(g, ss, m)
    BY <2>4, <2>5 DEF IsFlattening
  <2> QED
    BY <2>6, <1>1
<1> QED
  BY <1>1, <1>2, <1>3

LEMMA FlatteningsAgree ==
  ASSUME NEW ss, NEW tt, NEW f, NEW g, NEW n \in Nat, NEW m \in Nat, n <= m,
         IsFlattening(f, ss, n), IsFlattening(g, tt, m),
         \A i \in 1 .. n : ss[i] = tt[i]
  PROVE  \A i \in 1 .. n : f[i] = g[i]
<1> DEFINE Bad == {i \in 1 .. n : f[i] # g[i]}
<1> SUFFICES ASSUME Bad # {} PROVE FALSE
  OBVIOUS
<1>1. PICK i \in Bad : \A j \in Bad : i <= j
  <2>1. Bad \in SUBSET Nat
    OBVIOUS
  <2> HIDE DEF Bad
  <2> QED
    BY <2>1, LeastNumber
<1>2. /\ f[i] = IF i = 1 THEN ss[i] ELSE f[i - 1] \o ss[i]
      /\ g[i] = IF i = 1 THEN tt[i] ELSE g[i - 1] \o tt[i]
  <2>1. \A j \in 1 .. n : f[j] = IF j = 1 THEN ss[j] ELSE f[j - 1] \o ss[j]
    BY DEF IsFlattening
  <2>2. \A j \in 1 .. m : g[j] = IF j = 1 THEN tt[j] ELSE g[j - 1] \o tt[j]
    BY DEF IsFlattening
  <2>3. i \in 1 .. n /\ i \in 1 .. m
    BY <1>1
  <2> QED
    BY <2>1, <2>2, <2>3
<1>3. i # 1 => i - 1 \in 1 .. n /\ i - 1 \notin Bad
  BY <1>1
<1>4. i # 1 => f[i - 1] = g[i - 1]
  BY <1>3
<1> QED
  BY <1>1, <1>2, <1>4

LEMMA FlattenIs ==
  ASSUME NEW ss, Len(ss) \in Nat \ {0}
  PROVE  \E f : IsFlattening(f, ss, Len(ss)) /\ FlattenSeq(ss) = f[Len(ss)]
<1> DEFINE f == CHOOSE f : IsFlattening(f, ss, Len(ss))
<1>1. IsFlattening(f, ss, Len(ss))
  BY FlatteningExists
<1>2. FlattenSeq(ss) = f[Len(ss)]
  BY DEF FlattenSeq, IsFlattening
<1> QED
  BY <1>1, <1>2
(* Flattening a list with one more entry appends that entry.               *)
LEMMA FlatteningLast ==
  ASSUME NEW f, NEW ss, NEW n \in Nat \ {0}, IsFlattening(f, ss, n + 1)
  PROVE  f[n + 1] = f[n] \o ss[n + 1]
<1>1. \A i \in 1 .. n + 1 : f[i] = IF i = 1 THEN ss[i] ELSE f[i - 1] \o ss[i]
  BY DEF IsFlattening
<1>2. PICK m \in 1 .. n + 1 : m = n + 1
  OBVIOUS
<1>3. m # 1 /\ m - 1 = n
  BY <1>2
<1>4. f[m] = f[m - 1] \o ss[m]
  BY <1>1, <1>3
<1> QED
  BY <1>2, <1>3, <1>4

LEMMA FlattenMore ==
  ASSUME NEW ss, NEW tt, NEW n \in Nat \ {0}, Len(ss) = n, Len(tt) = n + 1,
         \A i \in 1 .. n : ss[i] = tt[i]
  PROVE  FlattenSeq(tt) = FlattenSeq(ss) \o tt[n + 1]
<1>1. PICK f : IsFlattening(f, ss, n) /\ FlattenSeq(ss) = f[n]
  BY FlattenIs
<1>2. n + 1 \in Nat \ {0} /\ n <= n + 1 /\ n \in Nat /\ n \in 1 .. n
  OBVIOUS
<1>3. PICK g : IsFlattening(g, tt, n + 1) /\ FlattenSeq(tt) = g[n + 1]
  BY <1>2, FlattenIs
<1>4. \A i \in 1 .. n : f[i] = g[i]
  <2>1. PICK m \in Nat : m = n + 1
    BY <1>2
  <2>2. IsFlattening(g, tt, m) /\ n <= m
    BY <1>2, <1>3, <2>1
  <2>3. IsFlattening(f, ss, n)
    BY <1>1
  <2> QED
    BY <1>2, <2>2, <2>3, FlatteningsAgree
<1>5. f[n] = g[n]
  BY <1>2, <1>3, <1>4
<1>6. g[n + 1] = g[n] \o tt[n + 1]
  BY <1>3, FlatteningLast
<1> QED
  BY <1>1, <1>3, <1>5, <1>6

LEMMA FlattenAppend ==
  ASSUME NEW S, NEW ss \in Seq(Seq(S)), NEW s \in Seq(S)
  PROVE  FlattenSeq(Append(ss, s)) = FlattenSeq(ss) \o s
<1>1. PICK n \in Nat : n = Len(ss)
  BY LenProperties
<1>2. PICK tt : tt = Append(ss, s)
  OBVIOUS
<1>3. Len(tt) = n + 1 /\ tt[n + 1] = s /\ \A i \in 1 .. n : ss[i] = tt[i]
  BY <1>1, <1>2, AppendProperties
<1>4. CASE n = 0
  <2>1. ss = <<>> /\ FlattenSeq(ss) = <<>>
    BY <1>1, <1>4, EmptySeq DEF FlattenSeq
  <2>2. Len(tt) \in Nat \ {0}
    BY <1>3
  <2>3. PICK g : IsFlattening(g, tt, Len(tt)) /\ FlattenSeq(tt) = g[Len(tt)]
    BY <2>2, FlattenIs
  <2>4. FlattenSeq(tt) = s
    BY <2>3, <1>3, <1>4 DEF IsFlattening
  <2> QED
    BY <2>1, <2>4, <1>2, ConcatEmptySeq
<1>5. CASE n # 0
  <2>1. FlattenSeq(tt) = FlattenSeq(ss) \o tt[n + 1]
    BY <1>1, <1>3, <1>5, FlattenMore
  <2> QED
    BY <2>1, <1>2, <1>3
<1> QED
  BY <1>4, <1>5

LEMMA FlatteningType ==
  ASSUME NEW S, NEW ss \in Seq(Seq(S)), NEW f, IsFlattening(f, ss, Len(ss))
  PROVE  \A i \in 1 .. Len(ss) : f[i] \in Seq(S)
<1>1. Len(ss) \in Nat /\ \A i \in 1 .. Len(ss) : ss[i] \in Seq(S)
  BY LenProperties, ElementOfSeq
<1>2. \A i \in 1 .. Len(ss) : f[i] = IF i = 1 THEN ss[i] ELSE f[i - 1] \o ss[i]
  BY DEF IsFlattening
<1> DEFINE Bad == {i \in 1 .. Len(ss) : f[i] \notin Seq(S)}
<1> SUFFICES ASSUME Bad # {} PROVE FALSE
  OBVIOUS
<1>3. PICK i \in Bad : \A j \in Bad : i <= j
  <2>1. Bad \in SUBSET Nat
    BY <1>1
  <2> HIDE DEF Bad
  <2> QED
    BY <2>1, LeastNumber
<1>4. CASE i = 1
  BY <1>3, <1>4, <1>2, <1>1
<1>5. CASE i # 1
  <2>1. i - 1 \in 1 .. Len(ss) /\ i - 1 \notin Bad
    BY <1>1, <1>3, <1>5
  <2>2. f[i - 1] \in Seq(S) /\ ss[i] \in Seq(S)
    BY <2>1, <1>3, <1>1
  <2>3. f[i - 1] \o ss[i] \in Seq(S)
    BY <2>2, ConcatProperties
  <2>4. i \in 1 .. Len(ss) /\ f[i] \notin Seq(S)
    BY <1>3
  <2> QED
    BY <2>3, <2>4, <1>5, <1>2, Zenon
<1> QED
  BY <1>4, <1>5

LEMMA FlattenType ==
  ASSUME NEW S, NEW ss \in Seq(Seq(S))
  PROVE  FlattenSeq(ss) \in Seq(S)
<1>1. Len(ss) \in Nat
  BY LenProperties
<1>2. CASE Len(ss) = 0
  BY <1>2, EmptySeq DEF FlattenSeq
<1>3. CASE Len(ss) # 0
  <2>1. PICK f : IsFlattening(f, ss, Len(ss)) /\ FlattenSeq(ss) = f[Len(ss)]
    BY <1>1, <1>3, FlattenIs
  <2>2. Len(ss) \in 1 .. Len(ss)
    BY <1>1, <1>3
  <2> QED
    BY <2>1, <2>2, FlatteningType
<1> QED
  BY <1>2, <1>3

LEMMA ConcatEntries ==
  ASSUME NEW S, NEW s \in Seq(S), NEW t \in Seq(S)
  PROVE  ToSet(s \o t) = ToSet(s) \cup ToSet(t)
<1>1. /\ DOMAIN s = 1 .. Len(s) /\ DOMAIN t = 1 .. Len(t)
      /\ Len(s) \in Nat /\ Len(t) \in Nat
  BY LenProperties
<1>2. /\ DOMAIN (s \o t) = 1 .. Len(s) + Len(t)
      /\ \A i \in 1 .. Len(s) + Len(t) :
           (s \o t)[i] = IF i <= Len(s) THEN s[i] ELSE t[i - Len(s)]
  BY ConcatProperties, LenProperties
<1>3. ASSUME NEW i \in DOMAIN (s \o t)
      PROVE  (s \o t)[i] \in ToSet(s) \cup ToSet(t)
  <2>1. CASE i <= Len(s)
    BY <1>1, <1>2, <2>1 DEF ToSet
  <2>2. CASE ~(i <= Len(s))
    <3>1. i - Len(s) \in DOMAIN t
      BY <1>1, <1>2, <2>2
    <3> QED
      BY <1>2, <2>2, <3>1 DEF ToSet
  <2> QED
    BY <2>1, <2>2
<1>4. ASSUME NEW i \in DOMAIN s PROVE s[i] \in ToSet(s \o t)
  <2>1. i \in DOMAIN (s \o t) /\ (s \o t)[i] = s[i]
    BY <1>1, <1>2
  <2> QED
    BY <2>1 DEF ToSet
<1>5. ASSUME NEW i \in DOMAIN t PROVE t[i] \in ToSet(s \o t)
  <2>1. /\ Len(s) + i \in DOMAIN (s \o t)
        /\ ~(Len(s) + i <= Len(s)) /\ Len(s) + i - Len(s) = i
    BY <1>1, <1>2
  <2>2. (s \o t)[Len(s) + i] = t[i]
    BY <1>2, <2>1
  <2> QED
    BY <2>1, <2>2 DEF ToSet
<1> QED
  BY <1>3, <1>4, <1>5 DEF ToSet

(* Whatever is in the flattened list is in one of the lists.               *)
LEMMA FlattenMember ==
  ASSUME NEW S, NEW ss \in Seq(Seq(S)), NEW x \in ToSet(FlattenSeq(ss))
  PROVE  \E i \in DOMAIN ss : x \in ToSet(ss[i])
<1>1. /\ Len(ss) \in Nat /\ DOMAIN ss = 1 .. Len(ss)
      /\ \A i \in 1 .. Len(ss) : ss[i] \in Seq(S)
  BY LenProperties, ElementOfSeq
<1>2. CASE Len(ss) = 0
  <2>1. ss = <<>> /\ FlattenSeq(ss) = <<>>
    BY <1>2, EmptySeq DEF FlattenSeq
  <2> QED
    BY <2>1 DEF ToSet
<1>3. CASE Len(ss) # 0
  <2>1. PICK f : IsFlattening(f, ss, Len(ss)) /\ FlattenSeq(ss) = f[Len(ss)]
    BY <1>1, <1>3, FlattenIs
  <2>2. \A i \in 1 .. Len(ss) : f[i] = IF i = 1 THEN ss[i] ELSE f[i - 1] \o ss[i]
    BY <2>1 DEF IsFlattening
  <2>3. \A i \in 1 .. Len(ss) : f[i] \in Seq(S)
    BY <2>1, FlatteningType
  <2> DEFINE Having == {i \in 1 .. Len(ss) : x \in ToSet(f[i])}
  <2>4. Len(ss) \in Having
    BY <2>1, <1>1, <1>3
  <2>5. PICK i \in Having : \A j \in Having : i <= j
    <3>1. Having \in SUBSET Nat
      BY <1>1
    <3> HIDE DEF Having
    <3> QED
      BY <3>1, <2>4, LeastNumber
  <2>6. CASE i = 1
    BY <2>5, <2>6, <2>2, <1>1
  <2>7. CASE i # 1
    <3>1. i - 1 \in 1 .. Len(ss) /\ i - 1 \notin Having
      BY <1>1, <2>5, <2>7
    <3>2. f[i - 1] \in Seq(S) /\ ss[i] \in Seq(S)
      BY <3>1, <2>3, <2>5, <1>1
    <3>3. ToSet(f[i - 1] \o ss[i]) = ToSet(f[i - 1]) \cup ToSet(ss[i])
      BY <3>2, ConcatEntries
    <3>4. i \in 1 .. Len(ss) /\ x \in ToSet(f[i])
      BY <2>5
    <3>5. f[i] = f[i - 1] \o ss[i]
      BY <2>2, <2>7, <3>4, Zenon
    <3>6. x \in ToSet(ss[i])
      BY <3>1, <3>3, <3>4, <3>5
    <3> QED
      BY <1>1, <3>4, <3>6
  <2> QED
    BY <2>6, <2>7
<1> QED
  BY <1>2, <1>3

(* What is flattened begins with the first of the lists.                   *)
HeadFirst(ss) == FlattenSeq(ss) = Head(ss) \o FlattenSeq(Tail(ss))

LEMMA HeadFirstAppend ==
  ASSUME NEW S, NEW ss \in Seq(Seq(S)), NEW s \in Seq(S), ss = <<>> \/ HeadFirst(ss)
  PROVE  HeadFirst(Append(ss, s))
<1>1. FlattenSeq(Append(ss, s)) = FlattenSeq(ss) \o s
  BY FlattenAppend
<1>2. /\ Head(Append(ss, s)) = IF ss = <<>> THEN s ELSE Head(ss)
      /\ Tail(Append(ss, s)) = IF ss = <<>> THEN <<>> ELSE Append(Tail(ss), s)
  BY HeadTailAppend
<1>3. CASE ss = <<>>
  <2>1. FlattenSeq(<<>>) = <<>>
    BY DEF FlattenSeq
  <2>2. <<>> \o s = s /\ s \o <<>> = s
    BY ConcatEmptySeq
  <2> QED
    BY <1>1, <1>2, <1>3, <2>1, <2>2 DEF HeadFirst
<1>4. CASE ss # <<>>
  <2>1. Head(ss) \in Seq(S) /\ Tail(ss) \in Seq(Seq(S))
    BY <1>4, HeadTailProperties
  <2>2. FlattenSeq(Tail(ss)) \in Seq(S)
    BY <2>1, FlattenType
  <2>3. FlattenSeq(Append(Tail(ss), s)) = FlattenSeq(Tail(ss)) \o s
    BY <2>1, FlattenAppend
  <2>4. (Head(ss) \o FlattenSeq(Tail(ss))) \o s
          = Head(ss) \o (FlattenSeq(Tail(ss)) \o s)
    <3>1. PICK head : head = Head(ss)
      OBVIOUS
    <3>2. PICK rest : rest = FlattenSeq(Tail(ss))
      OBVIOUS
    <3>3. head \in Seq(S) /\ rest \in Seq(S) /\ s \in Seq(S)
      BY <2>1, <2>2, <3>1, <3>2
    <3>4. (head \o rest) \o s = head \o (rest \o s)
      BY ONLY <3>3, SMT
    <3> QED
      BY <3>1, <3>2, <3>4, Zenon
  <2> QED
    BY <1>1, <1>2, <1>4, <2>3, <2>4 DEF HeadFirst
<1> QED
  BY <1>3, <1>4

LEMMA FlattenHead ==
  ASSUME NEW S, NEW ss \in Seq(Seq(S)), ss # <<>>
  PROVE  FlattenSeq(ss) = Head(ss) \o FlattenSeq(Tail(ss))
<1> DEFINE Bad == {n \in Nat : \E tt \in Seq(Seq(S)) :
                                Len(tt) = n + 1 /\ ~HeadFirst(tt)}
<1>1. ASSUME Bad # {} PROVE FALSE
  <2>1. PICK n \in Bad : \A m \in Bad : n <= m
    <3>1. Bad \in SUBSET Nat
      OBVIOUS
    <3> HIDE DEF Bad
    <3> QED
      BY <3>1, <1>1, LeastNumber
  <2>2. PICK tt \in Seq(Seq(S)) : Len(tt) = n + 1 /\ ~HeadFirst(tt)
    BY <2>1
  <2>3. tt # <<>>
    BY <2>1, <2>2
  <2>4. PICK front \in Seq(Seq(S)), s \in Seq(S) : tt = Append(front, s)
    BY <2>3, SequenceEmptyOrAppend
  <2>5. front = <<>> \/ HeadFirst(front)
    <3> SUFFICES ASSUME front # <<>> PROVE HeadFirst(front)
      OBVIOUS
    <3>1. Len(front) \in Nat \ {0} /\ Len(front) = n
      BY <2>1, <2>2, <2>4, AppendProperties, EmptySeq
    <3>2. n - 1 \in Nat /\ n - 1 \notin Bad
      <4>1. n - 1 \in Nat /\ ~(n <= n - 1)
        BY <3>1
      <4> HIDE DEF Bad
      <4> QED
        BY <2>1, <4>1
    <3>3. Len(front) = n - 1 + 1
      BY <3>1, <2>1
    <3> QED
      BY <3>2, <3>3
  <2> QED
    BY <2>2, <2>4, <2>5, HeadFirstAppend
<1>2. Len(ss) \in Nat \ {0}
  BY EmptySeq
<1>3. Len(ss) - 1 \in Nat /\ Len(ss) = Len(ss) - 1 + 1
  BY <1>2
<1>4. Len(ss) - 1 \notin Bad
  <2> HIDE DEF Bad
  <2> QED
    BY <1>1
<1>5. HeadFirst(ss)
  BY <1>3, <1>4
<1> QED
  BY <1>5 DEF HeadFirst

-----------------------------------------------------------------------------
(* A list is a prefix of itself with something behind it.                  *)
LEMMA ConcatPrefix ==
  ASSUME NEW S, NEW s \in Seq(S), NEW t \in Seq(S)
  PROVE  IsPrefix(s, s \o t) /\ (t # <<>> => IsStrictPrefix(s, s \o t))
<1>1. Len(s) \in Nat /\ Len(t) \in Nat
  BY LenProperties
<1>2. /\ s \o t \in Seq(S) /\ Len(s \o t) = Len(s) + Len(t)
      /\ \A i \in 1 .. Len(s) : (s \o t)[i] = s[i]
  BY <1>1, ConcatProperties
<1>3. SubSeq(s, 1, Len(s)) = SubSeq(s \o t, 1, Len(s))
  <2>1. \A i \in 1 .. Len(s) : s[i] \in S /\ (s \o t)[i] \in S
    BY <1>2, ElementOfSeq
  <2> DEFINE a == SubSeq(s, 1, Len(s))
             b == SubSeq(s \o t, 1, Len(s))
  <2>2. /\ a \in Seq(S) /\ Len(a) = Len(s)
        /\ \A i \in 1 .. Len(s) : a[i] = s[i]
    BY <1>1, <2>1, SubSeqProperties
  <2>3. /\ b \in Seq(S) /\ Len(b) = Len(s)
        /\ \A i \in 1 .. Len(s) : b[i] = (s \o t)[i]
    BY <1>1, <2>1, SubSeqProperties
  <2> HIDE DEF a, b
  <2>4. a = b
    BY <1>2, <2>2, <2>3, SeqEqual
  <2> QED
    BY <2>4 DEF a, b
<1>4. IsPrefix(s, s \o t)
  BY <1>1, <1>2, <1>3 DEF IsPrefix
<1>5. t # <<>> => s # s \o t
  BY ConcatEqualIffEmpty
<1> QED
  BY <1>4, <1>5 DEF IsStrictPrefix

-----------------------------------------------------------------------------
(* The searches in memory: each finds the first position there is, or      *)
(* nothing.                                                                *)

LEMMA WhereIsFirst ==
  ASSUME NEW S \in SUBSET Nat
  PROVE  /\ S = {} => Where(S) = 0
         /\ S # {} => Where(S) \in S /\ \A x \in S : Where(S) <= x
<1>1. CASE S = {}
  BY <1>1 DEF Where
<1>2. CASE S # {}
  <2>1. \E m \in S : \A n \in S : m <= n
    BY <1>2, LeastNumber
  <2> QED
    BY <1>2, <2>1 DEF Where, Min
<1> QED
  BY <1>1, <1>2

(* mem[from .. upto] holds no byte of a set.                               *)
NoneOf(mem, from, upto, Bytes) == \A k \in from .. upto : mem[k] \notin Bytes

LEMMA NulIsFirst ==
  ASSUME NEW mem, Len(mem) \in Nat, NEW p \in Nat \ {0}
  PROVE  \/ NulAfter(mem, p) = 0 /\ NoneOf(mem, p, Len(mem), {NUL})
         \/ /\ NulAfter(mem, p) \in p .. Len(mem)
            /\ mem[NulAfter(mem, p)] = NUL
            /\ NoneOf(mem, p, NulAfter(mem, p) - 1, {NUL})
<1> DEFINE S == {q \in p .. Len(mem) : mem[q] = NUL}
<1>1. S \in SUBSET Nat /\ NulAfter(mem, p) = Where(S)
  BY DEF NulAfter
<1>2. CASE S = {}
  <2>1. NulAfter(mem, p) = 0
    BY <1>1, <1>2, WhereIsFirst
  <2> QED
    BY <2>1, <1>2 DEF NoneOf
<1>3. CASE S # {}
  <2>1. Where(S) \in S /\ \A x \in S : Where(S) <= x
    BY <1>1, <1>3, WhereIsFirst
  <2> DEFINE w == Where(S)
  <2>2. w \in p .. Len(mem) /\ mem[w] = NUL
    BY <2>1
  <2>3. ASSUME NEW k \in p .. w - 1 PROVE mem[k] # NUL
    <3>1. k \in p .. Len(mem) /\ ~(w <= k)
      BY <2>2
    <3> QED
      BY <3>1, <2>1
  <2> HIDE DEF w
  <2>4. NulAfter(mem, p) = w
    BY <1>1 DEF w
  <2> QED
    BY <2>2, <2>3, <2>4 DEF NoneOf
<1> QED
  BY <1>2, <1>3

=============================================================================
