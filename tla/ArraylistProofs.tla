-------------------------- MODULE ArraylistProofs ---------------------------
(***************************************************************************)
(* The arraylist is a sequence for every capacity and every step by which  *)
(* it grows, as long as no malloc has failed; and however many fail, one   *)
(* entry at most is counted that is not there.                             *)
(***************************************************************************)
EXTENDS Arraylist, ListLemmas

(* The first position of an object is what arraylist_index_of returns.     *)
LEMMA FirstPosition ==
  ASSUME NEW S, NEW s \in Seq(S), NEW i \in 1 .. Len(s),
         \A j \in 1 .. Len(s) : s[j] = s[i] => i <= j
  PROVE  arraylist_index_of(s, s[i]) = i
<1>1. DOMAIN s = 1 .. Len(s) /\ Len(s) \in Nat
  BY LenProperties
<1>2. s[i] \in ToSet(s)
  BY <1>1 DEF ToSet
<1>3. \A k \in DOMAIN s :
        s[k] = s[i] /\ (\A j \in DOMAIN s : s[j] = s[i] => k <= j) => k = i
  BY <1>1
<1> QED
  BY <1>1, <1>2, <1>3 DEF arraylist_index_of

(* The entries are a sequence of objects.                                  *)
LEMMA EntriesSequence ==
  ASSUME Sound
  PROVE  /\ Entries \in Seq(Objects) /\ Len(Entries) = _size
         /\ \A i \in 1 .. _size : Entries[i] = _data[i]
<1>1. _size \in Nat
  BY DEF Sound
<1>2. Entries \in [1 .. _size -> Objects]
  BY DEF Sound, Entries
<1> QED
  BY <1>1, <1>2, SeqDef, LenProperties DEF Entries

(* A removal leaves a slot for each of the entries there were, the last    *)
(* one's included: the array gives back no more than it has to spare.      *)
LEMMA ShrunkHolds ==
  ASSUME NEW capacity \in Nat, NEW size \in Nat, size + 1 <= capacity
  PROVE  /\ Shrunk(capacity, size) \in size + 1 .. capacity
<1>1. ARRAYLIST_CAPACITY_DELTA \in Nat \ {0}
  BY ArraylistAssumption
<1> QED
  BY <1>1 DEF Shrunk

(* Once a malloc has failed, that stays so; and it is only arraylist_add   *)
(* that fails.                                                             *)
LEMMA FailedStays ==
  ASSUME [ListNext]_list_vars
  PROVE  ~failed' => ~failed
BY DEF ListNext, IndexesPassed, list_vars, arraylist_add, AddInPlace, AddGrowing,
       AddFails, AddOutside, arraylist_removeFirst, arraylist_removeIndex,
       RemoveBefore, MovesOutside, arraylist_clear

(* Every entry has its slot and is an object that was added: whatever is   *)
(* added, removed and cleared, as long as no malloc has failed.            *)
THEOREM TypeCorrect == ListSpec => []TypeOK
<1> USE ArraylistAssumption
<1>1. ListInit => TypeOK
  BY DEF ListInit, TypeOK, Sound
<1>2. ASSUME Sound, ~failed', [ListNext]_list_vars PROVE Sound'
  <2> USE <1>2
  <2>1. ASSUME NEW object \in Objects, AddInPlace(object) PROVE Sound'
    BY <2>1 DEF AddInPlace, Sound
  <2>2. ASSUME NEW object \in Objects, AddGrowing(object) PROVE Sound'
    BY <2>2 DEF AddGrowing, Resized, Sound
  <2>3. ASSUME NEW object \in Objects, arraylist_add(object) PROVE Sound'
    BY <2>1, <2>2, <2>3 DEF arraylist_add, AddFails, AddOutside, Sound
  <2>4. ASSUME NEW i \in 1 .. _size, RemoveBefore(i), i < _size PROVE Sound'
    <3>1. /\ _size \in Nat \ {0} /\ _size' \in Nat /\ _size' = _size - 1
          /\ _size' + 1 <= _current_capacity
      BY <2>4 DEF RemoveBefore, Sound
    <3>2. _current_capacity' \in _size .. _current_capacity
      BY <3>1, <2>4, ShrunkHolds DEF RemoveBefore, Sound
    <3>3. \A j \in 1 .. _current_capacity :
            MovedDown(i)[j] = IF j \in i .. _size - 1 THEN _data[j + 1] ELSE _data[j]
      BY DEF MovedDown
    <3>4. \A j \in 1 .. _current_capacity : MovedDown(i)[j] \in Objects \cup {Unwritten}
      BY <3>1, <3>3 DEF Sound
    <3>5. \A j \in 1 .. _size - 1 : MovedDown(i)[j] \in Objects
      BY <3>1, <3>3 DEF Sound
    <3> QED
      BY <3>1, <3>2, <3>4, <3>5, <2>4 DEF RemoveBefore, Sound
  <2>5. ASSUME NEW i \in 1 .. _size, arraylist_removeIndex(i) PROVE Sound'
    BY <2>4, <2>5 DEF arraylist_removeIndex, MovesOutside, Sound
  <2>6. ASSUME NEW object \in Objects, arraylist_removeFirst(object) PROVE Sound'
    BY <2>5, <2>6 DEF arraylist_removeFirst, Found, Sound
  <2>7. CASE arraylist_clear
    BY <2>7 DEF arraylist_clear, Resized, Sound
  <2>8. CASE UNCHANGED list_vars
    BY <2>8 DEF list_vars, Sound
  <2> QED
    BY <2>3, <2>5, <2>6, <2>7, <2>8 DEF ListNext, IndexesPassed
<1>3. TypeOK /\ [ListNext]_list_vars => TypeOK'
  BY <1>2, FailedStays DEF TypeOK
<1> QED
  BY <1>1, <1>3, PTL DEF ListSpec

(* What a removal leaves in the slots, which is what RemoveAt makes of the *)
(* entries and, behind them, the old last slot.                            *)
LEMMA RemoveIndexSlots ==
  ASSUME Sound, NEW i \in 1 .. _size, arraylist_removeIndex(i)
  PROVE  /\ _size' = _size - 1 /\ _current_capacity' >= _size
         /\ \A j \in 1 .. _size :
              _data'[j] = IF i <= j /\ j < _size THEN _data[j + 1] ELSE _data[j]
<1>1. _size \in Nat \ {0} /\ _size <= _current_capacity
  BY DEF Sound
<1>2. CASE i < _size
  <2>1. RemoveBefore(i)
    BY <1>1, <1>2 DEF arraylist_removeIndex, MovesOutside, Sound
  <2>2. _size' = _size - 1 /\ _current_capacity' \in _size .. _current_capacity
    BY <2>1, <1>1, ShrunkHolds DEF RemoveBefore, Sound
  <2>3. \A j \in 1 .. _size : _data'[j] = MovedDown(i)[j]
    <3>1. 1 .. _size \subseteq 1 .. _current_capacity'
      BY <2>2, <1>1 DEF Sound
    <3> QED
      BY <3>1, <2>1 DEF RemoveBefore
  <2>4. \A j \in 1 .. _size :
          MovedDown(i)[j] = IF i <= j /\ j < _size THEN _data[j + 1] ELSE _data[j]
    BY <1>1 DEF MovedDown, Sound
  <2> QED
    BY <2>2, <2>3, <2>4, <1>1 DEF Sound
<1>3. CASE ~(i < _size)
  BY <1>1, <1>3 DEF arraylist_removeIndex, Sound
<1> QED
  BY <1>2, <1>3

(* So a removal at i is one of the sequence.                               *)
LEMMA RemoveIndexIsRemoveAt ==
  ASSUME Sound, Sound', NEW i \in 1 .. _size, arraylist_removeIndex(i)
  PROVE  Entries' = RemoveAt(Entries, i)
<1> DEFINE r == RemoveAt(Entries, i)
<1>1. /\ Entries \in Seq(Objects) /\ Len(Entries) = _size
      /\ \A j \in 1 .. _size : Entries[j] = _data[j]
  BY EntriesSequence
<1>2. /\ r \in Seq(Objects) /\ Len(r) = _size - 1
      /\ \A j \in 1 .. _size - 1 :
           r[j] = IF j < i THEN Entries[j] ELSE Entries[j + 1]
  BY <1>1, RemoveAtEntries
<1>3. /\ _size' = _size - 1 /\ _size \in Nat \ {0}
      /\ \A j \in 1 .. _size - 1 :
           _data'[j] = IF j < i THEN _data[j] ELSE _data[j + 1]
  BY RemoveIndexSlots DEF Sound
<1>4. \A j \in 1 .. _size - 1 : r[j] = _data'[j]
  BY <1>1, <1>2, <1>3
<1>5. /\ Entries' = [j \in 1 .. _size - 1 |-> _data'[j]]
  BY <1>3 DEF Entries
<1>6. r = [j \in 1 .. _size - 1 |-> r[j]]
  BY <1>2, <1>3, LenProperties
<1> QED
  BY <1>4, <1>5, <1>6

(* The object found first is the one arraylist_index_of finds in the       *)
(* sequence.                                                               *)
LEMMA FoundFirst ==
  ASSUME Sound, NEW object, NEW i \in Found(object),
         \A j \in Found(object) : i <= j
  PROVE  i \in 1 .. _size /\ arraylist_index_of(Entries, object) = i
<1>1. /\ Entries \in Seq(Objects) /\ Len(Entries) = _size
      /\ \A j \in 1 .. _size : Entries[j] = _data[j]
  BY EntriesSequence
<1>2. i \in 1 .. Len(Entries) /\ Entries[i] = object
  BY <1>1 DEF Found
<1>3. \A j \in 1 .. Len(Entries) : Entries[j] = Entries[i] => i <= j
  BY <1>1, <1>2 DEF Found, Sound
<1> QED
  BY <1>1, <1>2, <1>3, FirstPosition

(* As long as no malloc has failed the list is a sequence: growing and     *)
(* shrinking the array under it, and what is left in the slots behind it,  *)
(* do not show.                                                            *)
THEOREM ArrayIsSequence == ListSpec => ImplementsSequence
<1> USE ArraylistAssumption
<1>1. ListInit => AsSequence!Init
  BY DEF ListInit, AsSequence!Init, Entries
<1>2. ASSUME Sound, Sound', ~failed', [ListNext]_list_vars PROVE [AsSequence!Next]_Entries
  <2> USE <1>2
  <2>0. /\ Entries \in Seq(Objects) /\ Len(Entries) = _size
        /\ DOMAIN Entries = 1 .. _size /\ _size \in Nat
    BY EntriesSequence, LenProperties
  <2>1. ASSUME NEW object \in Objects, arraylist_add(object)
        PROVE  AsSequence!Insert(object)
    <3>1. /\ _size' = _size + 1 /\ _data'[_size + 1] = object
          /\ \A j \in 1 .. _size : _data'[j] = _data[j]
      <4>1. CASE AddInPlace(object)
        BY <4>1, <2>0 DEF AddInPlace, Sound
      <4>2. CASE AddGrowing(object)
        <5>1. /\ _size' = _size + 1
              /\ _data' = [Resized(_current_capacity') EXCEPT ![_size + 1] = object]
              /\ _size + 1 \in 1 .. _current_capacity'
              /\ 1 .. _size \subseteq 1 .. _current_capacity'
              /\ 1 .. _size \subseteq 1 .. _current_capacity
          BY <4>2, <2>0 DEF AddGrowing, Sound
        <5> QED
          BY <5>1, <2>0 DEF Resized
      <4> QED
        BY <2>1, <4>1, <4>2 DEF arraylist_add, AddFails, AddOutside, Sound
    <3>2. /\ Append(Entries, object) \in Seq(Objects)
          /\ Len(Append(Entries, object)) = _size + 1
          /\ \A j \in 1 .. _size : Append(Entries, object)[j] = Entries[j]
          /\ Append(Entries, object)[_size + 1] = object
      BY <2>0, AppendProperties
    <3>3. Append(Entries, object)
            = [j \in 1 .. _size + 1 |-> Append(Entries, object)[j]]
      BY <3>2, LenProperties
    <3>4. Entries' = [j \in 1 .. _size + 1 |-> _data'[j]]
      BY <3>1 DEF Entries
    <3>5. \A j \in 1 .. _size + 1 : Append(Entries, object)[j] = _data'[j]
      BY <3>1, <3>2, EntriesSequence, <2>0
    <3> QED
      BY <3>3, <3>4, <3>5 DEF AsSequence!Insert
  <2>2. ASSUME NEW i \in 1 .. _size, arraylist_removeIndex(i)
        PROVE  AsSequence!DeleteAt(i)
    BY <2>2, <2>0, RemoveIndexIsRemoveAt
       DEF AsSequence!DeleteAt, AsSequence!RemoveAt, RemoveAt
  <2>3. ASSUME NEW object \in Objects, arraylist_removeFirst(object)
        PROVE  [AsSequence!Next]_Entries
    <3>1. CASE Found(object) = {}
      BY <3>1, <2>3 DEF arraylist_removeFirst, Entries
    <3>2. CASE Found(object) # {}
      <4>1. PICK i \in Found(object) : arraylist_removeIndex(i)
        BY <3>2, <2>3 DEF arraylist_removeFirst
      <4>2. i \in 1 .. _size
        BY DEF Found
      <4> QED
        BY <4>1, <4>2, <2>0, <2>2 DEF AsSequence!Next
    <3> QED
      BY <3>1, <3>2
  <2>4. ASSUME arraylist_clear PROVE AsSequence!Empty
    BY <2>4 DEF arraylist_clear, AsSequence!Empty, Entries
  <2>5. CASE UNCHANGED list_vars
    BY <2>5 DEF list_vars, Entries
  <2> QED
    BY <2>0, <2>1, <2>2, <2>3, <2>4, <2>5 DEF ListNext, IndexesPassed, AsSequence!Next
<1>3. TypeOK /\ TypeOK' /\ [ListNext]_list_vars => [~failed' => AsSequence!Next]_Entries
  BY <1>2, FailedStays DEF TypeOK
<1> QED
  BY <1>1, <1>3, TypeCorrect, PTL DEF ListSpec, ImplementsSequence

(* After a removal every slot that held an entry can still be read, and    *)
(* holds what SlotAfterRemove says: the loops that go on with the old size *)
(* stay inside the array.                                                  *)
THEOREM StaleSlots == ListSpec => StaleSlotsReadable
<1> DEFINE Readable(object) ==
             \A i \in 1 .. _size :
               /\ i <= _current_capacity'
               /\ _data'[i] = SlotAfterRemove(Entries, object, i)
<1>1. ASSUME Sound, NEW object \in Objects, arraylist_removeFirst(object)
      PROVE  Readable(object)
  <2> USE <1>1
  <2>0. /\ Entries \in Seq(Objects) /\ Len(Entries) = _size /\ _size \in Nat
        /\ DOMAIN Entries = 1 .. _size
        /\ \A i \in 1 .. _size : Entries[i] = _data[i]
    BY EntriesSequence, LenProperties DEF Sound
  <2>1. CASE Found(object) = {}
    <3>1. object \notin ToSet(Entries)
      BY <2>0, <2>1 DEF Found, ToSet, Sound
    <3>2. arraylist_index_of(Entries, object) = 0
      BY <3>1 DEF arraylist_index_of
    <3>3. UNCHANGED <<_data, _size, _current_capacity>>
      BY <2>1 DEF arraylist_removeFirst
    <3> QED
      BY <2>0, <3>2, <3>3 DEF SlotAfterRemove, Sound
  <2>2. CASE Found(object) # {}
    <3>1. PICK i \in Found(object) :
            (\A j \in Found(object) : i <= j) /\ arraylist_removeIndex(i)
      BY <2>2 DEF arraylist_removeFirst
    <3>2. i \in 1 .. _size /\ arraylist_index_of(Entries, object) = i
      BY <3>1, FoundFirst
    <3>3. /\ _current_capacity' >= _size
          /\ \A j \in 1 .. _size :
               _data'[j] = IF i <= j /\ j < _size THEN _data[j + 1] ELSE _data[j]
      BY <3>1, <3>2, RemoveIndexSlots
    <3>4. _current_capacity' \in Nat
      BY <3>1, <3>2, <2>0, ArraylistAssumption
         DEF arraylist_removeIndex, RemoveBefore, MovesOutside, Shrunk, Sound
    <3>5. ASSUME NEW j \in 1 .. _size
          PROVE  j <= _current_capacity' /\ _data'[j] = SlotAfterRemove(Entries, object, j)
      BY <3>2, <3>3, <3>4, <2>0 DEF SlotAfterRemove
    <3> QED
      BY <3>5
  <2> QED
    BY <2>1, <2>2
<1>2. TypeOK /\ [ListNext]_list_vars =>
        [\A object \in Objects :
           ~failed /\ arraylist_removeFirst(object) => Readable(object)]_list_vars
  BY <1>1 DEF TypeOK
<1> QED
  BY <1>2, TypeCorrect, PTL DEF ListSpec, StaleSlotsReadable

(* What stays true of the array however many adds fail, until it is left.  *)
(* The slots that _size counts are objects, but for one that is not there. *)
Slots ==
  /\ _current_capacity \in Nat \ {0} /\ _size \in 0 .. _current_capacity + 1
  /\ _data \in [1 .. _current_capacity -> Objects \cup {Unwritten}]
  /\ \A i \in 1 .. _size : i <= _current_capacity => _data[i] \in Objects
Phantom == list_status = "ok" => Slots

(* After a failed arraylist_add (arraylist.c:76-82) the next one writes    *)
(* outside (89), and so does a removal from before the entry that is not   *)
(* there (140): up to then there is one such entry at most.                *)
THEOREM AtMostOnePhantom == ListSpec => []OnePhantomAtMost
<1> USE ArraylistAssumption
<1>1. ListInit => Phantom
  BY DEF ListInit, Phantom, Slots
<1>2. ASSUME Phantom, [ListNext]_list_vars PROVE Phantom'
  <2> USE <1>2
  <2>1. ASSUME NEW object \in Objects, arraylist_add(object) PROVE Phantom'
    <3>1. CASE AddInPlace(object)
      BY <3>1 DEF AddInPlace, Phantom, Slots
    <3>2. CASE AddGrowing(object)
      BY <3>2 DEF AddGrowing, Resized, Phantom, Slots
    <3>3. CASE AddFails(object) \/ AddOutside(object)
      BY <3>3 DEF AddFails, AddOutside, Phantom, Slots
    <3> QED
      BY <2>1, <3>1, <3>2, <3>3 DEF arraylist_add
  <2>2. ASSUME Slots, NEW i \in 1 .. _size, RemoveBefore(i), i < _size
        PROVE  Slots'
    <3>1. /\ _size \in Nat \ {0} /\ _size' = _size - 1 /\ _size' \in Nat
          /\ _size' + 1 <= _current_capacity
      BY <2>2 DEF RemoveBefore, Slots
    <3>2. _current_capacity' \in _size .. _current_capacity
      BY <3>1, <2>2, ShrunkHolds DEF RemoveBefore, Slots
    <3>3. \A j \in 1 .. _current_capacity : MovedDown(i)[j] \in Objects \cup {Unwritten}
      BY <3>1, <2>2 DEF MovedDown, Slots
    <3>4. \A j \in 1 .. _size - 1 : MovedDown(i)[j] \in Objects
      BY <3>1, <2>2 DEF MovedDown, Slots
    <3> QED
      BY <3>1, <3>2, <3>3, <3>4, <2>2 DEF RemoveBefore, Slots
  <2>3. ASSUME NEW i \in 1 .. _size, arraylist_removeIndex(i) PROVE Phantom'
    BY <2>2, <2>3 DEF arraylist_removeIndex, MovesOutside, Phantom, Slots
  <2>4. ASSUME NEW object \in Objects, arraylist_removeFirst(object) PROVE Phantom'
    BY <2>3, <2>4 DEF arraylist_removeFirst, Found, Phantom, Slots
  <2>5. CASE arraylist_clear
    BY <2>5 DEF arraylist_clear, Resized, Phantom, Slots
  <2>6. CASE UNCHANGED list_vars
    BY <2>6 DEF list_vars, Phantom, Slots
  <2> QED
    BY <2>1, <2>3, <2>4, <2>5, <2>6 DEF ListNext, IndexesPassed
<1>3. Phantom => OnePhantomAtMost
  BY DEF Phantom, Slots, OnePhantomAtMost
<1> QED
  BY <1>1, <1>2, <1>3, PTL DEF ListSpec

=============================================================================
