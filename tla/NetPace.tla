------------------------------- MODULE NetPace -------------------------------
(***************************************************************************)
(* How often the bridge on the control system's side (bta_control_net.c    *)
(* with argument "local" or "mcast") takes packets and sends its block to  *)
(* everyone.  Each packet is answered, but no more are to be taken than so *)
(* many per second; the block is to be sent even if packets never cease.   *)
(* Computing takes no time.                                                *)
(***************************************************************************)
EXTENDS Integers

CONSTANTS
  Limit,   \* packets this much apart are not slowed down    (0.1 s)
  Slip,    \* others are made to be about this much apart    (0.11 s)
  Tsec,    \* the block is sent this often                   (0.333 s)
  Least,   \* shortest time-out                              (0.011 s)
  BufMax   \* bound: packets that the socket holds

ASSUME PaceAssumption ==
  /\ {Limit, Slip, Tsec, Least, BufMax} \subseteq Nat \ {0}
  /\ Least < Limit /\ Limit < Slip /\ Slip < Tsec

CommandSecond == 10 * Limit
MaxGap == 3 * Tsec + Slip + 1   \* bound: times count no further

VARIABLES
  waits,         \* "select", or "sleep" in my_sleep
  timer,      \* time to_sleep before select returns
  to_sleep,       \* time to_sleep to sleep
  buf,        \* packets in the socket
  since_recv, \* time since last_recv
  since_send, \* time since last_send
  due,        \* the block is to be sent to everyone, not to the sender
  gap,        \* history: time since it was really sent to everyone
  last,       \* history: time since a packet was taken
  before,     \* history: time since the one before was taken
  taken,      \* history: packets taken in the second under way
  clock       \* history: time of that second

history == <<gap, last, before, taken, clock>>
pace_vars ==
  <<waits, timer, to_sleep, buf, since_recv, since_send, due, history>>

Upto(n, max) == IF n > max THEN max ELSE n

PaceInit ==
  /\ waits = "select" /\ timer = Tsec /\ to_sleep = 0 /\ buf = 0
  /\ since_recv = 0 /\ since_send = 0 /\ due = FALSE
  /\ gap = 0 /\ last = MaxGap /\ before = MaxGap
  /\ taken = 0 /\ clock = 0

-----------------------------------------------------------------------------
(* A packet is taken out of the socket at this moment, tcurr.              *)
Taken ==
  /\ buf > 0 /\ buf' = buf - 1
  /\ last' = 0 /\ before' = last
  /\ taken' = taken + 1
  /\ UNCHANGED <<gap, clock>>

(* Mutants: the difference is taken the wrong way round; last_recv is not  *)
(* set; the time since last_send is not looked at.                         *)
TakePacketNegative ==
  /\ waits = "select" /\ waits' = "sleep"
  /\ to_sleep' = IF since_recv < Limit THEN since_recv - Slip ELSE 0
  /\ since_recv' = 0
  /\ due' = (since_send > Tsec)
  /\ Taken
  /\ UNCHANGED <<timer, since_send>>
TakePacketForgets ==
  /\ waits = "select" /\ waits' = "sleep"
  /\ to_sleep' = IF since_recv < Limit THEN Slip - since_recv ELSE 0
  /\ due' = (since_send > Tsec)
  /\ Taken
  /\ UNCHANGED <<timer, since_recv, since_send>>
TakePacketReply ==
  /\ waits = "select" /\ waits' = "sleep"
  /\ to_sleep' = IF since_recv < Limit THEN Slip - since_recv ELSE 0
  /\ since_recv' = 0
  /\ due' = FALSE
  /\ Taken
  /\ UNCHANGED <<timer, since_send>>

(* "max 10 cmd-packs per second": the program sleeps after a packet that   *)
(* came too soon, but notes as its time the moment before the sleep.       *)
TakePacket ==
  /\ waits = "select" /\ waits' = "sleep"
  /\ to_sleep' = IF since_recv < Limit THEN Slip - since_recv ELSE 0
  /\ since_recv' = 0
  /\ due' = (since_send > Tsec)
  /\ Taken
  /\ UNCHANGED <<timer, since_send>>

(* The sleep is over: the block is sent to everyone, with last_send set to *)
(* tcurr ...                                                               *)
SendToAll ==
  /\ waits = "sleep" /\ to_sleep = 0 /\ waits' = "select"
  /\ due
  /\ since_send' = since_recv
  /\ timer' = Tsec
  /\ gap' = 0
  /\ UNCHANGED <<to_sleep, buf, since_recv, due, last, before, taken, clock>>

(* ... or to the sender.  The time-out is meant to be what is left of      *)
(* Tsec, but the difference of last_send and tcurr is taken the wrong way  *)
(* round, and the time-out gets longer than Tsec.                          *)
SendToSender ==
  /\ waits = "sleep" /\ to_sleep = 0 /\ waits' = "select"
  /\ ~due
  /\ LET timeout == Tsec + (since_send - since_recv)
     IN timer' = IF timeout < Least THEN Least ELSE timeout
  /\ UNCHANGED <<to_sleep, buf, since_recv, since_send, due, history>>

(* No packet: the block is sent to everyone.                               *)
TimeOut ==
  /\ waits = "select" /\ buf = 0 /\ timer = 0
  /\ since_send' = 0
  /\ timer' = Tsec
  /\ gap' = 0
  /\ UNCHANGED <<waits, to_sleep, buf, since_recv, due, last, before, taken,
                 clock>>

(* A packet arrives.                                                       *)
Arrive ==
  /\ buf < BufMax /\ buf' = buf + 1
  /\ UNCHANGED <<waits, timer, to_sleep, since_recv, since_send, due, history>>

(* Time passes while the program sleeps or has nothing to select.  The     *)
(* second under way begins with a packet.                                  *)
PaceTick ==
  /\ \/ waits = "sleep" /\ to_sleep > 0 /\ to_sleep' = to_sleep - 1
        /\ UNCHANGED timer
     \/ waits = "select" /\ buf = 0 /\ timer > 0 /\ timer' = timer - 1
        /\ UNCHANGED to_sleep
  /\ since_recv' = Upto(since_recv + 1, Slip)
  /\ since_send' = Upto(since_send + 1, MaxGap)
  /\ gap' = Upto(gap + 1, MaxGap)
  /\ last' = Upto(last + 1, MaxGap)
  /\ before' = Upto(before + 1, MaxGap)
  /\ LET running == taken > 0 /\ clock + 1 < CommandSecond
     IN /\ clock' = IF running THEN clock + 1 ELSE 0
        /\ taken' = IF running THEN taken ELSE 0
  /\ UNCHANGED <<waits, buf, due>>

PaceNext ==
  \/ TakePacket \/ SendToAll \/ SendToSender \/ TimeOut
  \/ Arrive \/ PaceTick

PaceSpec == PaceInit /\ [][PaceNext]_pace_vars

-----------------------------------------------------------------------------
(* Properties.                                                             *)

PaceTypeOK ==
  /\ waits \in {"select", "sleep"}
  /\ timer \in 0 .. Tsec + MaxGap /\ to_sleep \in 0 .. Slip
  /\ buf \in 0 .. BufMax
  /\ since_recv \in 0 .. Slip /\ since_send \in 0 .. MaxGap
  /\ due \in BOOLEAN
  /\ {gap, last, before} \subseteq 0 .. MaxGap
  /\ taken \in Nat /\ clock \in 0 .. CommandSecond - 1

(* However packets come, the block is sent to everyone again before three  *)
(* times Tsec and a sleep have passed.                                     *)
GapBounded == gap <= 3 * Tsec + Slip

(* Any three packets are taken over at least Limit, however many wait.     *)
TwoAtATime == [][taken' > taken => before >= Limit]_pace_vars

(* "max 10 cmd-packs per second" (bta_control_net.c:533): a second that    *)
(* begins with a packet sees no more than ten.                             *)
TenPerSecond == taken <= 10
=============================================================================
