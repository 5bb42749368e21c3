--------------------------- MODULE ListOfObjects ----------------------------
(***************************************************************************)
(* What the rest of the server takes an arraylist to be: a sequence that   *)
(* ArraylistOps' operations work on.                                       *)
(***************************************************************************)
EXTENDS ArraylistOps, Naturals

CONSTANT Objects
VARIABLE list

Init == list = <<>>

Insert(object) == list' = Append(list, object)
Delete(object) == list' = arraylist_remove(list, object)
DeleteAt(i) == i \in DOMAIN list /\ list' = RemoveAt(list, i)
Empty == list' = <<>>

Next ==
  \/ \E object \in Objects : Insert(object) \/ Delete(object)
  \/ \E i \in DOMAIN list : DeleteAt(i)
  \/ Empty
Spec == Init /\ [][Next]_list

=============================================================================
