----------------------------- MODULE MCDiadocSync -----------------------------
(***************************************************************************)
(* Small instances of DiadocSync for TLC.  b1 is the box as Diadoc writes  *)
(* it, b2 the same box in another spelling.                                *)
(***************************************************************************)
EXTENDS DiadocSync

CONSTANTS b1, b2

MCBoxes == {b1, b2}
=============================================================================
