----------------------------- MODULE MCCanRing ------------------------------
(* CanRing on a ring of two or three slots, written round several times.   *)
EXTENDS CanRing
=============================================================================
