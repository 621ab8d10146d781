----------------------------- MODULE MCCanIoLife ----------------------------
(* CanIoLife with two servers and a client.                             *)
EXTENDS CanIoLife
=============================================================================
