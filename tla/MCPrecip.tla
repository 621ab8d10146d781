------------------------------ MODULE MCPrecip ------------------------------
(* Precip with a clock of a few units of time.                             *)
EXTENDS Precip
=============================================================================
