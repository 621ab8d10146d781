----------------------------- MODULE ModbusMeteo -----------------------------
(***************************************************************************)
(* The meteo daemon that listens on the Modbus line between the weather    *)
(* station and its own display (BTA_modbusmeteo/main.c,                    *)
(* bta_meteo_modbus.c).  A guard process forks a child whenever there is   *)
(* none.  The child tells requests from answers by their length, remembers *)
(* the register that was asked for last (lastpar), and stores the value    *)
(* and a flag of MeteoMode for it.                                         *)
(***************************************************************************)
EXTENDS Naturals, FiniteSets

CONSTANTS
  Regs,       \* registers with a value and a flag of MeteoMode
  Silence,    \* the child gives up after this time without an answer (60 s)
  MaxCrashes  \* bound: children that are killed

ASSUME ParametersAssumption ==
  /\ IsFiniteSet(Regs)
  /\ Regs \cap {"none", "bad", "dew"} = {}
  /\ Silence \in Nat /\ MaxCrashes \in Nat

Asked == Regs \cup {"dew"}   \* registers: those, and one without a flag
Parts == Asked \cup {"none", "bad"}

VARIABLES
  master,   \* guard process
  child,    \* its child
  flags,    \* MeteoMode: SENSOR flags
  val,      \* shared memory: the register whose answer was stored
  lastpar,  \* the register of the last request, or "none"
  buffer,   \* what it has read: a request, an answer, both, or odd bytes
  fresh,    \* the end of what it has read was not noticed yet
  since_ok, \* time since tlast
  tty,      \* the device is there
  bus,      \* the request that has no answer yet, or "none"
  silent,   \* the station has stopped answering, for good
  crashes,  \* how many children were killed
  sure      \* history: the last request was read from its beginning

processes == <<master, child>>
reading == <<lastpar, buffer, fresh>>
line == <<bus, silent, sure>>
vars == <<processes, flags, val, reading, since_ok, tty, crashes, line>>

Empty == [req |-> "none", ans |-> "none", odd |-> FALSE]
Odd == [Empty EXCEPT !.odd = TRUE]

Init ==
  /\ master = "fork" /\ child = "none"
  /\ flags = {} /\ val = [r \in Regs |-> "none"]
  /\ lastpar = "none" /\ buffer = Empty /\ fresh = FALSE
  /\ since_ok = 0 /\ tty = TRUE
  /\ bus = "none" /\ silent = FALSE /\ crashes = 0 /\ sure = TRUE

-----------------------------------------------------------------------------
(* The guard.                                                              *)

Fork ==
  /\ master = "fork" /\ master' = "wait" /\ child' = "new"
  /\ UNCHANGED <<flags, val, reading, since_ok, tty, crashes, line>>

(* wait() returns, and the guard sleeps 30 s.                              *)
Wait ==
  /\ master = "wait" /\ child = "none" /\ master' = "sleep"
  /\ UNCHANGED <<child, flags, val, reading, since_ok, tty, crashes, line>>

Sleep ==
  /\ master = "sleep" /\ master' = "fork"
  /\ UNCHANGED <<child, flags, val, reading, since_ok, tty, crashes, line>>

(* The guard is asked to stop.  Its own childpid is 0, for the one that    *)
(* main sets is another variable: it exits without clear_flags.  So does   *)
(* the child when it gets its parent-death signal, if it has asked for it. *)
Stop ==
  /\ master # "gone" /\ master' = "gone"
  /\ child' = IF child = "new" THEN "new" ELSE "none"
  /\ UNCHANGED <<flags, val, reading, since_ok, tty, crashes, line>>

-----------------------------------------------------------------------------
(* The child.                                                              *)

Prctl ==
  /\ child = "new" /\ child' = "connect"
  /\ UNCHANGED <<master, flags, val, reading, since_ok, tty, crashes, line>>

Connect ==
  /\ child = "connect" /\ tty /\ child' = "run"
  /\ lastpar' = "none" /\ buffer' = Empty /\ fresh' = FALSE
  /\ since_ok' = 0
  /\ UNCHANGED <<master, flags, val, tty, crashes, line>>

ConnectFails ==
  /\ child = "connect" /\ ~tty /\ child' = "none"
  /\ UNCHANGED <<master, flags, val, reading, since_ok, tty, crashes, line>>

(* Mutant: the flags are left to the next child.                           *)
NoSignalKeepsFlags ==
  /\ child = "run" /\ since_ok > Silence /\ child' = "none"
  /\ UNCHANGED <<master, flags, val, reading, since_ok, tty, crashes, line>>

(* "1 minute - no signal!"                                                 *)
NoSignal ==
  /\ child = "run" /\ since_ok > Silence /\ child' = "none"
  /\ flags' = {}
  /\ UNCHANGED <<master, val, reading, since_ok, tty, crashes, line>>

(* "Lost connection with device, reconnect!"                               *)
LostConnection ==
  /\ child = "run" /\ ~tty /\ child' = "none"
  /\ flags' = {}
  /\ UNCHANGED <<master, val, reading, since_ok, tty, crashes, line>>

(* Any other death of a child, by a signal or for want of the shared       *)
(* memory, leaves the flags alone.                                         *)
Crash ==
  /\ child # "none" /\ child' = "none"
  /\ crashes < MaxCrashes /\ crashes' = crashes + 1
  /\ UNCHANGED <<master, flags, val, reading, since_ok, tty, line>>

Paused == child = "run" /\ fresh /\ fresh' = FALSE
Whole == ~buffer.odd
Sound == "bad" \notin {buffer.req, buffer.ans}

(* Mutant: a wrong sum does not forget what was asked for.                 *)
BadSumKeepsPar ==
  /\ Paused /\ Whole /\ ~Sound
  /\ UNCHANGED <<processes, flags, val, lastpar, buffer, since_ok, tty,
                 crashes, line>>

(* A pause after a request, an answer or both with a wrong sum.  What was  *)
(* read stays in the buffer.                                               *)
BadSum ==
  /\ Paused /\ Whole /\ ~Sound
  /\ lastpar' = "none"
  /\ UNCHANGED <<processes, flags, val, buffer, since_ok, tty, crashes, line>>

(* A pause after a request.                                                *)
Request ==
  /\ Paused /\ Whole /\ Sound
  /\ buffer.req # "none" /\ buffer.ans = "none"
  /\ lastpar' = buffer.req
  /\ UNCHANGED <<processes, flags, val, buffer, since_ok, tty, crashes, line>>

(* A pause after an answer, with the request before it or not.  The value  *)
(* is stored under the register that was asked for, if it is in range and  *)
(* an operator has not entered one by hand.                                *)
Answer(accepted) ==
  LET par == IF buffer.req = "none" THEN lastpar ELSE buffer.req
      stored == par \in Regs /\ accepted
  IN
  /\ Paused /\ Whole /\ Sound
  /\ buffer.ans # "none"
  /\ val' = IF stored THEN [val EXCEPT ![par] = buffer.ans] ELSE val
  /\ flags' = IF stored THEN flags \cup {par} ELSE flags
  /\ since_ok' = IF par = "none" THEN since_ok ELSE 0
  /\ buffer' = Empty /\ lastpar' = "none"
  /\ UNCHANGED <<processes, tty, crashes, line>>

(* A pause after anything else: nothing.                                   *)
OddBytes ==
  /\ Paused /\ ~Whole
  /\ UNCHANGED <<processes, flags, val, lastpar, buffer, since_ok, tty,
                 crashes, line>>

(* The tries are used up, and what was read is forgotten.                  *)
GiveUp ==
  /\ child = "run" /\ ~fresh /\ buffer # Empty
  /\ buffer' = Empty
  /\ UNCHANGED <<processes, flags, val, lastpar, fresh, since_ok, tty,
                 crashes, line>>

(* They are used up in the middle of a packet, because of what came before *)
(* it: the rest of it, if any, is read as one of its own.                  *)
GiveUpEarly ==
  /\ child = "run" /\ fresh /\ buffer # Empty
  /\ buffer' \in {Empty, Odd} /\ fresh' = (buffer' = Odd)
  /\ sure' = FALSE
  /\ UNCHANGED <<processes, flags, val, lastpar, since_ok, tty, crashes, bus,
                 silent>>

-----------------------------------------------------------------------------
(* The line, and everything else.                                          *)

(* What is in the buffer after one more request or answer.  An answer and  *)
(* then a request have the length of a request and its answer, and sums    *)
(* that are wrong.                                                         *)
WithRequest(b, p) ==
  IF b = Empty THEN [b EXCEPT !.req = p]
  ELSE IF b.req = "none" /\ b.ans # "none"
  THEN [b EXCEPT !.req = "bad", !.ans = "bad"]
  ELSE Odd
WithAnswer(b, p) ==
  IF b.ans = "none" /\ ~b.odd THEN [b EXCEPT !.ans = p] ELSE Odd

(* A packet comes to a child, if there is one: whole, with a wrong sum,    *)
(* with bytes missing or added, or it is not heard at all.                 *)
Hear(b, how) ==
  IF child # "run" \/ how = "lost" THEN UNCHANGED <<buffer, fresh>>
  ELSE /\ buffer' = IF how = "odd" THEN Odd ELSE b
       /\ fresh' = TRUE

(* The display asks for a register, whatever the child has noticed of what *)
(* was before.  The request is surely read from its beginning when it is   *)
(* the first thing in the buffer, or nobody has remembered anything.       *)
Ask(r, how) ==
  /\ bus = "none" /\ ~silent
  /\ bus' = r
  /\ Hear(WithRequest(buffer, IF how = "good" THEN r ELSE "bad"), how)
  /\ sure' = (child # "run" \/ (buffer = Empty /\ how \in {"good", "bad"}))
  /\ UNCHANGED <<processes, flags, val, lastpar, since_ok, tty, silent,
                 crashes>>

(* The station answers, the child has noticed the pause or not.            *)
Reply(how) ==
  /\ bus # "none" /\ ~silent
  /\ bus' = "none"
  /\ Hear(WithAnswer(buffer, IF how = "good" THEN bus ELSE "bad"), how)
  /\ UNCHANGED <<processes, flags, val, lastpar, since_ok, tty, silent,
                 crashes, sure>>

(* The station does not answer this request, or none any more.             *)
NoReply ==
  /\ bus # "none" /\ bus' = "none"
  /\ silent' \in {silent, TRUE}
  /\ UNCHANGED <<processes, flags, val, reading, since_ok, tty, crashes,
                 sure>>

Plug ==
  /\ tty' = ~tty
  /\ UNCHANGED <<processes, flags, val, reading, since_ok, crashes, line>>

(* Time passes, but a child that has had no signal for too long sees it.   *)
Tick ==
  /\ since_ok <= Silence /\ since_ok' = since_ok + 1
  /\ UNCHANGED <<processes, flags, val, reading, tty, crashes, line>>

-----------------------------------------------------------------------------
GuardStep == Fork \/ Wait \/ Sleep

ChildStep ==
  \/ Prctl \/ Connect \/ ConnectFails \/ NoSignal \/ LostConnection
  \/ BadSum \/ Request \/ OddBytes \/ GiveUp \/ GiveUpEarly
  \/ \E accepted \in BOOLEAN : Answer(accepted)

Hows == {"good", "bad", "odd", "lost"}

Next ==
  \/ GuardStep \/ ChildStep \/ Stop \/ Crash
  \/ \E how \in Hows : Reply(how) \/ \E r \in Asked : Ask(r, how)
  \/ NoReply \/ Plug \/ Tick

Spec == Init /\ [][Next]_vars

(* Both processes run, and time passes.                                    *)
Fairness == WF_vars(GuardStep) /\ WF_vars(ChildStep) /\ WF_vars(Tick)

FairSpec == Spec /\ Fairness

-----------------------------------------------------------------------------
(* Properties.                                                             *)

TypeOK ==
  /\ master \in {"fork", "wait", "sleep", "gone"}
  /\ child \in {"none", "new", "connect", "run"}
  /\ flags \subseteq Regs /\ val \in [Regs -> Asked \cup {"none"}]
  /\ lastpar \in Asked \cup {"none"}
  /\ buffer \in [req : Parts, ans : Parts, odd : BOOLEAN]
  /\ fresh \in BOOLEAN /\ since_ok \in 0 .. Silence + 1
  /\ tty \in BOOLEAN /\ bus \in Asked \cup {"none"}
  /\ silent \in BOOLEAN /\ crashes \in 0 .. MaxCrashes
  /\ sure \in BOOLEAN

(* A value is stored under the register it is of, whatever answers are     *)
(* damaged, lost or never given, requests have wrong sums, children die    *)
(* and pauses go unnoticed, when the last request was the first thing in   *)
(* the buffer and the tries have not run out in the middle of a packet     *)
(* since.  What earlier exchanges have left in lastpar does not matter.    *)
RightRegister ==
  [][\A r \in Regs : val'[r] # val[r] => val'[r] = r \/ ~sure]_vars

(* When the station stops answering the flags are cleared in the end, as   *)
(* long as there is a guard and a device.                                  *)
SilenceClearsFlags ==
  silent ~> (flags = {} \/ master = "gone" \/ ~tty)

(* Stopping the daemon clears the flags ("master process" ... clear_flags, *)
(* BTA_modbusmeteo/main.c:52-55).                                          *)
StopClearsFlags == master = "gone" /\ child = "none" => flags = {}
=============================================================================
