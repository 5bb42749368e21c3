---------------------------- MODULE ArraylistOps ----------------------------
(***************************************************************************)
(* The operations of arraylist.c that the server's bookkeeping rests on,   *)
(* as functions of the sequence of live entries list->_data[0 .. _size-1]. *)
(* Positions are those of C plus one; 0 stands for C's -1.                 *)
(***************************************************************************)
EXTENDS SequencesExt

(* arraylist_index_of: the first position holding object, 0 when none.     *)
arraylist_index_of(list, object) ==
  IF object \in ToSet(list)
  THEN CHOOSE i \in DOMAIN list :
         /\ list[i] = object
         /\ \A j \in DOMAIN list : list[j] = object => i <= j
  ELSE 0

(* arraylist_remove: arraylist_removeIndex at that position; the -1 of an  *)
(* absent object makes arraylist_removeIndex return before touching list.  *)
arraylist_remove(list, object) ==
  IF object \in ToSet(list)
  THEN RemoveAt(list, arraylist_index_of(list, object))
  ELSE list

(* arraylist_get(list, i - 1) after removed was taken out of list, with no *)
(* check against the new _size: memmove has shifted the entries behind     *)
(* removed down by one, and the slot that was last keeps its old contents. *)
SlotAfterRemove(list, removed, i) ==
  LET r == arraylist_index_of(list, removed)
  IN  IF r # 0 /\ r <= i /\ i < Len(list) THEN list[i + 1] ELSE list[i]

=============================================================================
