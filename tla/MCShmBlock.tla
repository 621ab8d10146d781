----------------------------- MODULE MCShmBlock -----------------------------
(* ShmBlock with two bridges and one reader.                               *)
EXTENDS ShmBlock
=============================================================================
