------------------------------ MODULE CStrings ------------------------------
(***************************************************************************)
(* Searches in memory.  A pointer is a position in the sequence of bytes   *)
(* that memory holds, and 0 is NULL.                                       *)
(***************************************************************************)
EXTENDS Naturals, SequencesExt

CONSTANT NUL   \* the terminator

Where(S) == IF S = {} THEN 0 ELSE Min(S)

(* The first NUL at or after p.                                            *)
NulAfter(mem, p) == Where({q \in p .. Len(mem) : mem[q] = NUL})

=============================================================================
