---------------------------- MODULE MCNetBridge ----------------------------
(* NetBridge with room for two commands of the main operator and for one   *)
(* of everyone else, or for one of the main operator and one of a user.    *)
EXTENDS NetBridge

MCRoom == [q \in Queues |-> IF q = "mcmd" THEN 2 ELSE 1]
MCOneAndOne == [q \in Queues |-> IF q = "ocmd" THEN 0 ELSE 1]
=============================================================================
