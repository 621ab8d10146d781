------------------------------ MODULE MCNetPace ------------------------------
(* NetPace with two packets in the socket.  Units of 0.05 s or less, times *)
(* that are no whole number of them rounded up.                            *)
EXTENDS NetPace
=============================================================================
