----------------------------- MODULE ByteStream -----------------------------
(***************************************************************************)
(* What a connection promises to the peer that reads from it: the bytes    *)
(* written for it, in order, each once, and nothing else; when it closes,  *)
(* the rest is not delivered.                                              *)
(***************************************************************************)
EXTENDS SequencesExt

CONSTANT Byte
VARIABLES written, read, open
vars == <<written, read, open>>

TypeOK == written \in Seq(Byte) /\ read \in Seq(Byte) /\ open \in BOOLEAN

Init == written = <<>> /\ read = <<>> /\ open = TRUE

Write == open /\ IsStrictPrefix(written, written') /\ UNCHANGED <<read, open>>

Deliver ==
  /\ open
  /\ IsStrictPrefix(read, read') /\ IsPrefix(read', written)
  /\ UNCHANGED <<written, open>>

Close == open /\ open' = FALSE /\ UNCHANGED <<written, read>>

Next == Write \/ Deliver \/ Close
Spec == Init /\ [][Next]_vars

=============================================================================
