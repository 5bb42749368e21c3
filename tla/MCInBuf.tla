------------------------------ MODULE MCInBuf -------------------------------
(***************************************************************************)
(* What malloc leaves in inbuf: memory never used, and the inbuf of an     *)
(* earlier client, which may have been reused for something else in        *)
(* between.                                                                *)
(***************************************************************************)
EXTENDS InBuf

CONSTANTS a, b, delimiter

MCJunk ==
  {<<NUL, NUL, NUL, NUL, NUL, NUL>>,
   <<b, delimiter, a, delimiter, b, NUL>>,
   <<delimiter, NUL, a, b, delimiter, NUL>>}

=============================================================================
