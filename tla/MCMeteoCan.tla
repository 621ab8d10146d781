----------------------------- MODULE MCMeteoCan -----------------------------
(* MeteoCan with 0 and 1 for 5 s and 15 s: only their order matters.       *)
EXTENDS MeteoCan
=============================================================================
