------------------------------ MODULE MirTemp ------------------------------
(***************************************************************************)
(* The mirror temperature daemon (bta_mirtemp/main.c): a guard process     *)
(* forks a child, and another when that one has died; the child asks a     *)
(* server for the temperature and stores it in shared memory with the      *)
(* flags SENSOR_T3 and NET_T3.  Others read the temperature as long as     *)
(* SENSOR_T3 is set, so that the flag is to go when the server is silent   *)
(* and when the daemon is stopped.                                         *)
(***************************************************************************)
EXTENDS Integers

CONSTANTS
  SilenceT, \* flags are cleared after more than this without data (900 s)
  PollT,    \* pause after an answer                                (60 s)
  RetryT,   \* pause after a failure                                (10 s)
  ReplyT,   \* bound: connect, send and read take no longer, or for ever
  MaxFds,   \* bound: sockets that may be lost before there are no more
  MaxTwists \* bound: signals that kill, and what is done by hand

ASSUME TempAssumption ==
  /\ {SilenceT, PollT, RetryT, ReplyT, MaxFds, MaxTwists} \subseteq Nat
  /\ SilenceT > 0 /\ PollT > 0 /\ RetryT > 0

VARIABLES
  guard,     \* "up" (in fork or wait), "sleep" before the next fork, "dead"
  child,     \* "none", "born" before prctl, "top" of the loop, "segm" after
             \* get_shm_block, "ask" in get_mirT, "rest" asleep, or "hung"
  news,      \* the sleep is the one after an answer
  nap,       \* time left to sleep, or the call may still take
  gotsegm,   \* the child has the segment
  shm_up,    \* the control system has made the segment
  quiet,     \* time since tlast
  MeteoMode, \* flags in the segment
  lost,      \* sockets the child has lost
  orphan,    \* the guard died before the child called prctl
  T3_age,    \* history: time since the temperature was stored
  grace,     \* history: how old it may get, for all the children it has had
  stuck,     \* history: a child has hung since it was stored
  twists     \* bound: counts what MaxTwists limits

temp_vars == <<guard, child, news, nap, gotsegm, shm_up, quiet, MeteoMode,
               lost, orphan, T3_age, grace, stuck, twists>>
outside == <<shm_up, twists>>
ages == <<T3_age, grace, stuck>>

Flags == {"SENSOR_T3", "NET_T3", "INPUT_T3", "NET_HMD"}

(* One silence, one pause of each kind and one attempt.                    *)
Lapse == SilenceT + PollT + RetryT + ReplyT

(* Bounds: times count no further.                                         *)
LongestQuiet == Lapse + 2
LongestAge == (MaxTwists + 1) * Lapse + 1
Counted(n, most) == IF n < most THEN n + 1 ELSE n

TempInit ==
  /\ guard = "up" /\ child = "none" /\ news = FALSE /\ nap = 0
  /\ gotsegm = FALSE /\ shm_up = FALSE /\ quiet = 0 /\ MeteoMode = {"NET_HMD"}
  /\ lost = 0 /\ orphan = FALSE /\ twists = 0
  /\ T3_age = 0 /\ grace = Lapse /\ stuck = FALSE

-----------------------------------------------------------------------------
(* What clear_flags leaves.  It clears NET_HMD for NET_T3.                 *)
cleared(mode) ==
  IF "NET_T3" \in mode THEN mode \ {"NET_HMD", "SENSOR_T3"} ELSE mode

clear_flags == MeteoMode' = IF gotsegm THEN cleared(MeteoMode) ELSE MeteoMode

(* fork in the guard, and the child's first steps up to its loop.          *)
ForkChild ==
  /\ guard = "up" /\ child = "none"
  /\ child' = "born" /\ gotsegm' = FALSE /\ lost' = 0
  /\ UNCHANGED <<guard, news, nap, quiet, MeteoMode, orphan, ages, outside>>

(* The child dies with its parent from here on.  One whose parent is dead  *)
(* already gets no signal.                                                 *)
SetDeathSignal ==
  /\ child = "born" /\ child' = "top"
  /\ quiet' = 0
  /\ orphan' = (guard = "dead")
  /\ UNCHANGED <<guard, news, nap, gotsegm, MeteoMode, lost, ages, outside>>

(* The segment, if it is there.                                            *)
GetBlock ==
  /\ child = "top" /\ child' = "segm"
  /\ gotsegm' = (gotsegm \/ shm_up)
  /\ UNCHANGED <<guard, news, nap, quiet, MeteoMode, lost, orphan, ages,
                 outside>>

(* No answer for too long; then get_mirT.                                  *)
CheckSilence ==
  /\ child = "segm" /\ child' = "ask" /\ nap' = ReplyT
  /\ IF quiet > SilenceT THEN quiet' = 0 /\ clear_flags
     ELSE UNCHANGED <<quiet, MeteoMode>>
  /\ UNCHANGED <<guard, news, gotsegm, lost, orphan, ages, outside>>

Connects == child = "ask" /\ lost < MaxFds

(* An answer that begins with a number.                                    *)
Answer ==
  /\ Connects /\ child' = "rest" /\ news' = TRUE /\ nap' = PollT
  /\ IF gotsegm /\ "INPUT_T3" \notin MeteoMode
     THEN /\ MeteoMode' = MeteoMode \cup {"SENSOR_T3", "NET_T3"}
          /\ T3_age' = 0 /\ grace' = Lapse /\ stuck' = FALSE
     ELSE UNCHANGED <<MeteoMode, ages>>
  /\ UNCHANGED <<guard, gotsegm, quiet, lost, orphan, outside>>

(* No connection, a lost one (its socket is not closed), or no number.     *)
Failure ==
  /\ child = "ask" /\ child' = "rest" /\ news' = FALSE /\ nap' = RetryT
  /\ \/ UNCHANGED lost
     \/ lost < MaxFds /\ lost' = lost + 1
  /\ UNCHANGED <<guard, gotsegm, quiet, MeteoMode, orphan, ages, outside>>

(* The server takes the request and sends nothing; read has no time-out.   *)
Hang ==
  /\ Connects /\ child' = "hung" /\ stuck' = TRUE
  /\ UNCHANGED <<guard, news, nap, gotsegm, quiet, MeteoMode, lost, orphan,
                 T3_age, grace, outside>>

(* Mutant: tlast is set after every sleep.                                 *)
WakeAlways ==
  /\ child = "rest" /\ nap = 0 /\ child' = "top"
  /\ quiet' = 0
  /\ UNCHANGED <<guard, news, nap, gotsegm, MeteoMode, lost, orphan,
                 ages, outside>>

(* The sleep is over; the one after an answer sets tlast.                  *)
Wake ==
  /\ child = "rest" /\ nap = 0 /\ child' = "top"
  /\ quiet' = IF news THEN 0 ELSE quiet
  /\ UNCHANGED <<guard, news, nap, gotsegm, MeteoMode, lost, orphan,
                 ages, outside>>

-----------------------------------------------------------------------------
Alive == child # "none"

Gone ==
  /\ child' = "none" /\ gotsegm' = FALSE /\ orphan' = FALSE
  /\ news' = FALSE /\ nap' = 0 /\ quiet' = 0 /\ lost' = 0
  /\ grace' = IF "SENSOR_T3" \in MeteoMode' THEN grace + Lapse ELSE grace
  /\ UNCHANGED <<T3_age, stuck>>

(* wait returns in the guard, which sleeps a second.                       *)
Bereave == guard' = IF guard = "up" THEN "sleep" ELSE guard

(* The child's handler: flags cleared, exit.                               *)
temp_signals ==
  /\ Alive /\ clear_flags /\ Gone /\ Bereave
  /\ UNCHANGED shm_up

(* SIGPIPE and SIGSEGV are of its own making: send to a closed socket, and *)
(* getaddrinfo's list, which is not set when that fails.                   *)
Crash == child = "ask" /\ temp_signals /\ UNCHANGED twists

(* SIGTERM and its like to the child.                                      *)
Stopped == twists < MaxTwists /\ twists' = twists + 1 /\ temp_signals

(* SIGKILL to the child (bound: not when the guard is dead).               *)
KilledChild ==
  /\ twists < MaxTwists /\ twists' = twists + 1
  /\ guard # "dead" /\ Alive
  /\ UNCHANGED <<shm_up, MeteoMode>>
  /\ Gone /\ Bereave

(* Any signal that ends the guard; it has no segment to clear flags in.    *)
GuardEnds ==
  /\ guard # "dead" /\ guard' = "dead"
  /\ UNCHANGED <<child, news, nap, gotsegm, shm_up, quiet, MeteoMode, lost,
                 orphan, ages, twists>>

(* Mutant: the signal is SIGKILL.                                          *)
DeathSignalKills ==
  /\ guard = "dead" /\ Alive /\ child # "born" /\ ~orphan
  /\ UNCHANGED <<guard, MeteoMode, outside>> /\ Gone

(* The child's death signal: SIGTERM.                                      *)
DeathSignal ==
  /\ guard = "dead" /\ Alive /\ child # "born" /\ ~orphan
  /\ clear_flags /\ Gone
  /\ UNCHANGED <<guard, outside>>

GuardWakes ==
  /\ guard = "sleep" /\ guard' = "up"
  /\ UNCHANGED <<child, news, nap, gotsegm, quiet, MeteoMode, lost, orphan,
                 ages, outside>>

(* The control system starts; an operator takes the temperature's input    *)
(* to himself, and keeps what he enters up to date, or gives it back;      *)
(* another daemon has the humidity by net.                                 *)
ByHand ==
  /\ \/ ~shm_up /\ shm_up' = TRUE /\ UNCHANGED <<MeteoMode, T3_age, twists>>
     \/ /\ shm_up /\ twists < MaxTwists /\ twists' = twists + 1
        /\ \E f \in {"INPUT_T3", "NET_HMD"} :
             MeteoMode' = IF f \in MeteoMode THEN MeteoMode \ {f}
                          ELSE MeteoMode \cup {f}
        /\ T3_age' = IF "INPUT_T3" \in MeteoMode' THEN 0 ELSE T3_age
        /\ UNCHANGED shm_up
  /\ UNCHANGED <<guard, child, news, nap, gotsegm, quiet, lost, orphan,
                 grace, stuck>>

(* Time passes while the child sleeps or waits for the server.             *)
TempTick ==
  /\ guard # "sleep"
  /\ \/ child \in {"rest", "ask"} /\ nap > 0 /\ nap' = nap - 1
     \/ child = "hung" /\ UNCHANGED nap
  /\ guard = "dead" => orphan
  /\ quiet' = Counted(quiet, LongestQuiet)
  /\ T3_age' = IF "INPUT_T3" \in MeteoMode THEN 0
               ELSE Counted(T3_age, LongestAge)
  /\ UNCHANGED <<guard, child, news, gotsegm, MeteoMode, lost, orphan,
                 grace, stuck, outside>>

TempNext ==
  \/ ForkChild \/ SetDeathSignal \/ GetBlock \/ CheckSilence
  \/ Answer \/ Failure \/ Hang \/ Wake
  \/ Crash \/ Stopped \/ KilledChild \/ GuardEnds \/ DeathSignal \/ GuardWakes
  \/ ByHand \/ TempTick

TempSpec == TempInit /\ [][TempNext]_temp_vars

(* The kernel delivers the death signal.                                   *)
TempFairSpec == TempSpec /\ WF_temp_vars(DeathSignal)

-----------------------------------------------------------------------------
(* Properties.                                                             *)

TempTypeOK ==
  /\ guard \in {"up", "sleep", "dead"}
  /\ child \in {"none", "born", "top", "segm", "ask", "rest", "hung"}
  /\ {news, gotsegm, shm_up, orphan, stuck} \subseteq BOOLEAN
  /\ nap \in 0 .. PollT + RetryT + ReplyT /\ MeteoMode \subseteq Flags
  /\ quiet \in 0 .. LongestQuiet /\ T3_age \in 0 .. LongestAge
  /\ grace \in Nat
  /\ lost \in 0 .. MaxFds /\ twists \in 0 .. MaxTwists

(* A temperature that readers are to trust (SENSOR_T3) is no older than    *)
(* the silence allowed, one pause of each kind and one attempt, whatever   *)
(* fails, and as much again for every child that died and left the flag:   *)
(* its successor's tlast begins when it starts (main.c:153), however old   *)
(* the temperature is.  A child that hangs in read is what this does not   *)
(* hold for, nor what it leaves to its successor.                          *)
NoStaleTemperature ==
  /\ child \notin {"none", "born"} /\ "SENSOR_T3" \in MeteoMode /\ ~stuck
    => T3_age <= grace

(* The daemon is stopped by its guard's death: the child goes, and clears  *)
(* the flags ("clear_flags", signals), unless it never called prctl in     *)
(* time or had not got the segment.                                        *)
StopClears ==
  guard = "dead" /\ child \notin {"none", "born"} /\ ~orphan /\ gotsegm ~>
    child = "none" /\ "SENSOR_T3" \notin MeteoMode
=============================================================================
