------------------------------ MODULE FrameLog ------------------------------
(***************************************************************************)
(* What the receive buffer of the CAN I/O process promises its clients,    *)
(* with no lock, no memory and no indices: an ever growing log of frames,  *)
(* numbered 1, 2, ... in the order in which they were put in the buffer,   *)
(* of which only the last Capacity are kept.  A client goes through the    *)
(* log in order.  It passes over a frame it has not seen only when the     *)
(* buffer has gone all the way round since it last read one.               *)
(***************************************************************************)
EXTENDS Naturals

CONSTANTS
  Capacity,  \* how many frames the log keeps
  Clients    \* the processes that read it

VARIABLES
  published, \* how many frames were put in the log
  seen       \* the number of the frame each client passed last

logVars == <<published, seen>>

Init ==
  /\ published = 0
  /\ seen = [c \in Clients |-> 0]

Publish ==
  /\ published' = published + 1
  /\ UNCHANGED seen

(* A client that is no more than Capacity frames behind gets the next one. *)
Advance(c) ==
  /\ seen[c] < published
  /\ seen' = [seen EXCEPT ![c] = @ + 1]
  /\ UNCHANGED published

(* A client the buffer has lapped goes on with one of the frames kept.     *)
Overrun(c) ==
  /\ published - seen[c] > Capacity
  /\ \E n \in (published - Capacity + 1) .. published :
       seen' = [seen EXCEPT ![c] = n]
  /\ UNCHANGED published

(* A client that starts, or cleans its buffer, gives up what is pending.   *)
CatchUp(c) ==
  /\ seen' = [seen EXCEPT ![c] = published]
  /\ UNCHANGED published

Next ==
  \/ Publish
  \/ \E c \in Clients : Advance(c) \/ Overrun(c) \/ CatchUp(c)

Spec == Init /\ [][Next]_logVars
=============================================================================
