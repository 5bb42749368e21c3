----------------------------- MODULE Arraylist ------------------------------
(***************************************************************************)
(* arraylist.c: _size entries in an array of _current_capacity slots that  *)
(* is exchanged for a longer or a shorter one.  Positions are those of C   *)
(* plus one, and 0 stands for C's -1, as in ArraylistOps.                  *)
(*                                                                         *)
(* malloc may fail; a realloc to a smaller size succeeds.  Behind the last *)
(* slot is memory that is not the list's: to touch it is the status        *)
(* "outside".                                                              *)
(***************************************************************************)
EXTENDS ArraylistOps, Naturals

CONSTANTS Objects, Unwritten, MaxSize,
          ARRAYLIST_INITIAL_CAPACITY, ARRAYLIST_CAPACITY_DELTA

ASSUME ArraylistAssumption ==
  /\ ARRAYLIST_INITIAL_CAPACITY \in Nat \ {0}
  /\ ARRAYLIST_CAPACITY_DELTA \in Nat \ {0}
  /\ Unwritten \notin Objects /\ MaxSize \in Nat

VARIABLES _data, _size, _current_capacity,
          returned,   \* by the last arraylist_add
          failed,     \* a malloc has
          list_status
list_vars == <<_data, _size, _current_capacity, returned, failed, list_status>>

(* arraylist_create.                                                       *)
ListInit ==
  /\ _data = [i \in 1 .. ARRAYLIST_INITIAL_CAPACITY |-> Unwritten]
  /\ _size = 0 /\ _current_capacity = ARRAYLIST_INITIAL_CAPACITY
  /\ returned = 0 /\ failed = FALSE /\ list_status = "ok"

(* malloc and memcpy, or realloc: the slots both arrays have keep their    *)
(* contents.                                                               *)
Resized(capacity) ==
  [i \in 1 .. capacity |->
     IF i \in 1 .. _current_capacity THEN _data[i] ELSE Unwritten]

(* arraylist_add, with a slot for the object ...                           *)
AddInPlace(object) ==
  /\ list_status = "ok" /\ _size < MaxSize /\ _size < _current_capacity
  /\ _size' = _size + 1 /\ returned' = _size'
  /\ _data' = [_data EXCEPT ![_size + 1] = object]
  /\ UNCHANGED <<_current_capacity, failed, list_status>>

(* Mutant: the entries are not copied to the new array.                    *)
AddGrowing_NoCopy(object) ==
  /\ list_status = "ok" /\ _size < MaxSize /\ _size = _current_capacity
  /\ _size' = _size + 1 /\ returned' = _size'
  /\ _current_capacity' = _current_capacity + ARRAYLIST_CAPACITY_DELTA
  /\ _data' = [[i \in 1 .. _current_capacity' |-> Unwritten]
                 EXCEPT ![_size + 1] = object]
  /\ UNCHANGED <<failed, list_status>>

(* ... when all are taken ...                                              *)
AddGrowing(object) ==
  /\ list_status = "ok" /\ _size < MaxSize /\ _size = _current_capacity
  /\ _size' = _size + 1 /\ returned' = _size'
  /\ _current_capacity' = _current_capacity + ARRAYLIST_CAPACITY_DELTA
  /\ _data' = [Resized(_current_capacity') EXCEPT ![_size + 1] = object]
  /\ UNCHANGED <<failed, list_status>>

(* Mutant: malloc is tried again after a failure, >= for ==.              *)
AddFails_Again(object) ==
  /\ list_status = "ok" /\ _size < MaxSize /\ _size >= _current_capacity
  /\ _size' = _size + 1 /\ returned' = 0 /\ failed' = TRUE
  /\ UNCHANGED <<_data, _current_capacity, list_status>>

(* ... when malloc fails: _size has been incremented ...                   *)
AddFails(object) ==
  /\ list_status = "ok" /\ _size < MaxSize /\ _size = _current_capacity
  /\ _size' = _size + 1 /\ returned' = 0 /\ failed' = TRUE
  /\ UNCHANGED <<_data, _current_capacity, list_status>>

(* ... and after that has happened: _size counts one more, and the object  *)
(* is written at the index that _size was.                                 *)
AddOutside(object) ==
  /\ list_status = "ok" /\ _size < MaxSize /\ _size > _current_capacity
  /\ _size' = _size + 1 /\ returned' = _size' /\ list_status' = "outside"
  /\ UNCHANGED <<_data, _current_capacity, failed>>

arraylist_add(object) ==
  \/ AddInPlace(object) \/ AddGrowing(object)
  \/ AddFails(object) \/ AddOutside(object)

(* Mutant: the last entry takes the place of the removed one.              *)
MovedDown_Swaps(i) == [_data EXCEPT ![i] = _data[_size]]

(* memmove of the entries behind the one at i, one slot down.              *)
MovedDown(i) ==
  [j \in 1 .. _current_capacity |->
     IF j \in i .. _size - 1 THEN _data[j + 1] ELSE _data[j]]

(* Mutant: >= for >.                                                       *)
Shrunk_AtBoundary(capacity, size) ==
  IF capacity >= size + ARRAYLIST_CAPACITY_DELTA
  THEN capacity - ARRAYLIST_CAPACITY_DELTA ELSE capacity

(* The capacity that is left when size entries remain.                     *)
Shrunk(capacity, size) ==
  IF capacity > size + ARRAYLIST_CAPACITY_DELTA
  THEN capacity - ARRAYLIST_CAPACITY_DELTA ELSE capacity

(* arraylist_removeIndex of an entry with others behind it.                *)
RemoveBefore(i) ==
  /\ _size <= _current_capacity
  /\ _size' = _size - 1
  /\ _current_capacity' = Shrunk(_current_capacity, _size')
  /\ _data' = [j \in 1 .. _current_capacity' |-> MovedDown(i)[j]]
  /\ UNCHANGED <<returned, failed, list_status>>

MovesOutside ==
  /\ _size > _current_capacity
  /\ _size' = _size - 1 /\ list_status' = "outside"
  /\ UNCHANGED <<_data, _current_capacity, returned, failed>>

(* Its bound, index > _size, lets the position behind the last entry       *)
(* through.                                                                *)
arraylist_removeIndex(i) ==
  /\ list_status = "ok" /\ i \in 1 .. _size + 1
  /\ IF i < _size
     THEN RemoveBefore(i) \/ MovesOutside
     ELSE /\ _size' = _size - 1
          /\ UNCHANGED <<_data, _current_capacity, returned, failed, list_status>>

(* Mutant: an index that was valid before the last removal.                *)
IndexesPassed_Stale == 1 .. _size + 1

(* The indexes that the server passes: 0 when there is an entry, or one of *)
(* an entry that a search has just found.                                  *)
IndexesPassed == 1 .. _size

(* arraylist_remove of an object that is or is not in the list.            *)
Found(object) == {i \in 1 .. _size : i <= _current_capacity /\ _data[i] = object}
arraylist_removeFirst(object) ==
  /\ list_status = "ok"
  /\ IF Found(object) # {}
     THEN \E i \in Found(object) :
            /\ \A j \in Found(object) : i <= j
            /\ arraylist_removeIndex(i)
     ELSE /\ list_status' = IF _size > _current_capacity THEN "outside" ELSE "ok"
          /\ UNCHANGED <<_data, _size, _current_capacity, returned, failed>>

arraylist_clear ==
  /\ list_status = "ok"
  /\ _size' = 0 /\ _current_capacity' = ARRAYLIST_INITIAL_CAPACITY
  /\ _data' = Resized(ARRAYLIST_INITIAL_CAPACITY)
  /\ UNCHANGED <<returned, failed, list_status>>

ListNext ==
  \/ \E object \in Objects : arraylist_add(object) \/ arraylist_removeFirst(object)
  \/ \E i \in IndexesPassed : arraylist_removeIndex(i)
  \/ arraylist_clear
ListSpec == ListInit /\ [][ListNext]_list_vars

-----------------------------------------------------------------------------
(* Every entry has its slot and is an object that was added, as long as no *)
(* malloc has failed.                                                      *)
Sound ==
  /\ _current_capacity \in Nat \ {0} /\ _size \in 0 .. _current_capacity
  /\ _data \in [1 .. _current_capacity -> Objects \cup {Unwritten}]
  /\ \A i \in 1 .. _size : _data[i] \in Objects
  /\ returned \in Nat /\ list_status = "ok"
TypeOK == ~failed => Sound

(* As long as no malloc has failed the list is a sequence: growing and     *)
(* shrinking the array under it, and what is left in the slots behind it,  *)
(* do not show.                                                            *)
Entries == [i \in 1 .. _size |-> _data[i]]
AsSequence == INSTANCE ListOfObjects WITH list <- Entries
ImplementsSequence ==
  AsSequence!Init /\ [][~failed' => AsSequence!Next]_Entries

(* What arraylist_get reads at an index it does not check, after a         *)
(* removal, is what the handlers that loop over a list with its old size   *)
(* are modelled to read: the slot is there, even if the array has shrunk.  *)
StaleSlotsReadable ==
  [][\A object \in Objects : ~failed /\ arraylist_removeFirst(object) =>
       \A i \in 1 .. _size :
         /\ i <= _current_capacity'
         /\ _data'[i] = SlotAfterRemove(Entries, object, i)]_list_vars

(* Failing does not go unnoticed for long: as long as nothing was touched  *)
(* outside the array, at most one entry is counted that is not there, and  *)
(* it is the last.  The program cannot lose a second client before it      *)
(* leaves the array.                                                       *)
OnePhantomAtMost ==
  list_status = "ok" =>
    /\ _size <= _current_capacity + 1
    /\ \A i \in 1 .. _size : i <= _current_capacity => _data[i] \in Objects

=============================================================================
