----------------------------- MODULE MCMaxOutbox -----------------------------
(***************************************************************************)
(* Small instances of MaxOutbox for TLC: two messages and two processes    *)
(* that overlap.                                                           *)
(***************************************************************************)
EXTENDS MaxOutbox

CONSTANTS s1, s2

MCSenders == {s1, s2}
MCMessages == {1, 2}
=============================================================================
