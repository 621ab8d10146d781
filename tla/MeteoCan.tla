------------------------------ MODULE MeteoCan ------------------------------
(***************************************************************************)
(* The old meteo daemon (olddaemon/bta_meteo_can.c): it starts the         *)
(* analog-digital converters of the PEP-RK controller with a CAN command   *)
(* each, turns the codes of converter 1 into the temperature under the     *)
(* dome, T2, and owns the flag SENSOR_T2 of MeteoMode, a word of shared    *)
(* memory that other programs change by a load and a store.                *)
(*                                                                         *)
(* One pass of its main loop is one to three steps of the control lines    *)
(* (up to the loop over can_recv_frame), one or two per frame, and         *)
(* ReceiveDone.  Frames and commands take no time.                         *)
(***************************************************************************)
EXTENDS Integers

CONSTANTS
  RetryAfter,  \* time without a frame before the converters are started
  Silence,     \* time without a frame before they are stopped
  NET_T2,      \* whether MeteoMode has this flag
  INPUT_T2,    \* whether MeteoMode has this flag: T2 is entered by hand
  OtherAdcs,   \* the converters read besides number 1: 0 and 7
  MaxStanding  \* bound: of the history standing, 0 where it is not looked at

ASSUME TimesAssumption ==
  RetryAfter \in Nat /\ Silence \in Nat /\ Silence < RetryAfter
ASSUME FlagsAssumption == NET_T2 \in BOOLEAN /\ INPUT_T2 \in BOOLEAN
ASSUME AdcsAssumption == OtherAdcs \subseteq {0, 7}
ASSUME StandingAssumption == MaxStanding \in Nat

MaxAge == RetryAfter + 1   \* bound: ages beyond it make no difference

(* How long SENSOR_T2 may outlive the last frame: until the converters are *)
(* started once more, and until they are stopped.                          *)
ClearedAfter == (RetryAfter + 1) + (Silence + 1)

(* The converters of PEP-RK that are read; number 1 measures T2.           *)
Adcs == {1} \cup OtherAdcs

(* What a frame from the ring may be: a frame with another length, a code  *)
(* of another converter, or one of converter 1 that gives a temperature    *)
(* in -20 .. 30 or outside it.                                             *)
Codes == {"in_range", "out_of_range"}
Frames == {"wrong", "other"} \cup Codes

VARIABLES
  PEP_A_On, PEP_R_On, \* shared memory: the controllers are on; R may be "inp"
  SENSOR_T2,          \* shared memory: that flag of MeteoMode
  val_T2,             \* shared memory: "sensor" or "clamped" T2, or neither
  pc,                 \* where the daemon is
  start,              \* it has started the converters
  age,                \* tcurr - tok: time since the last frame or command
  T2,                 \* its T2: "none", a "sensor" value, "clamped" to a bound
  stop_prog,          \* a signal asked it to stop
  adc,                \* the converters that run
  health,             \* which of them give codes: "all", "others", "none"
  frame,              \* a frame in the ring, or "none"
  loaded,             \* SENSOR_T2 as another program has loaded it, or "none"
  ticked,             \* the clock has moved since the last pass
  late,               \* history: the signal came after the control lines
  raced,              \* history: another's store changed the flag in "publish"
  before,             \* history: another had loaded the flag before "leaving"
  standing            \* history: time SENSOR_T2 stands without any frame

shm == <<PEP_A_On, PEP_R_On, SENSOR_T2, val_T2>>
daemon == <<pc, start, age, T2, stop_prog>>
world == <<adc, health, frame, loaded, ticked>>
history == <<late, raced, before, standing>>
vars == <<shm, daemon, world, history>>

BothOn == PEP_A_On /\ PEP_R_On # "off"
PEP_R_Off == PEP_R_On # "on"

(* The start of main: SENSOR_T2 is cleared, tok is long ago.  An earlier   *)
(* daemon may have left converters running.                                *)
Init ==
  /\ PEP_A_On \in BOOLEAN /\ PEP_R_On \in {"off", "inp", "on"}
  /\ SENSOR_T2 = FALSE /\ val_T2 = "none"
  /\ pc = "control" /\ start = FALSE /\ age = MaxAge
  /\ T2 = "none" /\ stop_prog = FALSE
  /\ adc \in SUBSET Adcs /\ health = "all" /\ frame = "none"
  /\ loaded = "none" /\ ticked = TRUE
  /\ late = FALSE /\ raced = FALSE /\ before = FALSE /\ standing = 0

(* SENSOR_T2 stands no longer when it is clear or a controller is off.     *)
Stands == standing' = IF SENSOR_T2' /\ BothOn' THEN standing ELSE 0

-----------------------------------------------------------------------------
(* The control lines.  can_send_frame puts a command in a message queue    *)
(* and says that it was sent; each may get lost all the same.              *)

Control(to) == pc = "control" /\ pc' = to /\ ticked' = FALSE

(* "Start ADC": both controllers are on and nothing came for RetryAfter.   *)
StartAdc(delivered) ==
  /\ Control("check")
  /\ BothOn /\ ~stop_prog /\ ~start /\ age > RetryAfter
  /\ start' = TRUE /\ age' = 0
  /\ adc' = adc \cup delivered
  /\ UNCHANGED <<shm, T2, stop_prog, health, frame, loaded, history>>

(* Both are on, and there is nothing to start.                             *)
GoOn ==
  /\ Control("check")
  /\ BothOn /\ (stop_prog \/ start \/ age <= RetryAfter)
  /\ UNCHANGED <<shm, start, age, T2, stop_prog, adc, health, frame, loaded,
                 history>>

(* One of the controllers is off.                                          *)
ControllersOff ==
  /\ Control("receive")
  /\ ~BothOn /\ ~stop_prog
  /\ SENSOR_T2' = (SENSOR_T2 /\ (PEP_R_Off => NET_T2))
  /\ UNCHANGED <<PEP_A_On, PEP_R_On>>
  /\ Stands
  /\ UNCHANGED <<val_T2, start, age, T2, stop_prog, adc, health, frame, loaded,
                 late, raced, before>>

(* ... and asked to stop: can_exit(0), the flag stays as it is.            *)
ExitWhenOff ==
  /\ Control("gone")
  /\ ~BothOn /\ stop_prog
  /\ UNCHANGED <<shm, start, age, T2, stop_prog, adc, health, frame, loaded,
                 history>>

(* Mutant: the time-out is the longer one.                                 *)
MustStopLate == stop_prog \/ (start /\ age > RetryAfter)

(* Asked to stop, or "timeout!".                                           *)
MustStop == stop_prog \/ (start /\ age > Silence)

NothingToStop ==
  /\ pc = "check" /\ pc' = "receive"
  /\ ~MustStop
  /\ UNCHANGED <<shm, start, age, T2, stop_prog, world, history>>

(* Mutant: the flag goes on a time-out only.                               *)
ClearFlagOnTimeout ==
  /\ pc = "check" /\ pc' = "leaving"
  /\ MustStop
  /\ SENSOR_T2' = (SENSOR_T2 /\ stop_prog)
  /\ before' = (loaded = "set")
  /\ UNCHANGED <<PEP_A_On, PEP_R_On, val_T2, start, age, T2, stop_prog, world,
                 late, raced, standing>>

(* The flag is cleared first ...                                           *)
ClearFlag ==
  /\ pc = "check" /\ pc' = "leaving"
  /\ MustStop
  /\ SENSOR_T2' = FALSE
  /\ before' = (loaded = "set")
  /\ standing' = 0
  /\ UNCHANGED <<PEP_A_On, PEP_R_On, val_T2, start, age, T2, stop_prog, world,
                 late, raced>>

(* Mutant: start stays set.                                                *)
SendStopForGood(delivered) ==
  /\ pc = "leaving" /\ adc' = adc \ delivered
  /\ \/ stop_prog /\ pc' = "gone" /\ UNCHANGED age
     \/ ~stop_prog /\ pc' = "receive" /\ age' = 0
  /\ UNCHANGED <<shm, start, T2, stop_prog, health, frame, loaded, ticked,
                 history>>

(* ... then "Stop ADC" is sent, and can_exit(0) called when it was asked   *)
(* to stop, in the meantime perhaps.                                       *)
SendStop(delivered) ==
  /\ pc = "leaving" /\ adc' = adc \ delivered
  /\ \/ stop_prog /\ pc' = "gone" /\ UNCHANGED <<start, age>>
     \/ ~stop_prog /\ pc' = "receive" /\ start' = FALSE /\ age' = 0
  /\ UNCHANGED <<shm, T2, stop_prog, health, frame, loaded, ticked, history>>

-----------------------------------------------------------------------------
(* The loop over can_recv_frame.                                           *)

(* A frame with a wrong length is reported at most; any other frame of     *)
(* PEP-RK's converters counts as a sign of life.                           *)
SkipFrame ==
  /\ pc = "receive" /\ frame \in {"wrong", "other"}
  /\ frame' = "none"
  /\ \/ frame = "other" /\ age' = 0 /\ standing' = 0
     \/ frame = "wrong" /\ UNCHANGED <<age, standing>>
  /\ UNCHANGED <<shm, pc, start, T2, stop_prog, adc, health, loaded, ticked,
                 late, raced, before>>

(* Mutant: a temperature out of range is clamped and the flag stays.       *)
TakeT2KeepsFlag ==
  /\ pc = "receive" /\ frame \in Codes
  /\ frame' = "none" /\ age' = 0 /\ pc' = "publish"
  /\ T2' = IF frame = "in_range" THEN "sensor" ELSE "clamped"
  /\ SENSOR_T2' = (SENSOR_T2 \/ frame = "in_range")
  /\ raced' = FALSE /\ standing' = 0
  /\ UNCHANGED <<PEP_A_On, PEP_R_On, val_T2, start, stop_prog, adc, health,
                 loaded, ticked, late, before>>

(* A temperature in range becomes T2, or T2 is moved towards it; another   *)
(* one clamps T2 to a bound.  The flag follows.                            *)
TakeT2 ==
  /\ pc = "receive" /\ frame \in Codes
  /\ frame' = "none" /\ age' = 0 /\ pc' = "publish"
  /\ T2' = IF frame = "in_range" THEN "sensor" ELSE "clamped"
  /\ SENSOR_T2' = (frame = "in_range")
  /\ raced' = FALSE /\ standing' = 0
  /\ UNCHANGED <<PEP_A_On, PEP_R_On, val_T2, start, stop_prog, adc, health,
                 loaded, ticked, late, before>>

(* val_T2 is stored if T2 is not entered by hand and the flag is there.    *)
PublishT2 ==
  /\ pc = "publish" /\ pc' = "receive"
  /\ val_T2' = IF ~INPUT_T2 /\ SENSOR_T2 THEN T2 ELSE val_T2
  /\ raced' = FALSE
  /\ UNCHANGED <<PEP_A_On, PEP_R_On, SENSOR_T2, start, age, T2, stop_prog,
                 world, late, before, standing>>

(* The ring is empty.  The next pass is 0.2 s later.                       *)
ReceiveDone ==
  /\ pc = "receive" /\ frame = "none"
  /\ pc' = IF stop_prog THEN "gone" ELSE "control"
  /\ UNCHANGED <<shm, start, age, T2, stop_prog, world, history>>

-----------------------------------------------------------------------------
(* Everything else, as long as the daemon is there; other programs' stores *)
(* after that, too.                                                        *)

(* myabort.                                                                *)
Signal ==
  /\ ~stop_prog /\ pc # "gone"
  /\ stop_prog' = TRUE
  /\ late' = (pc \in {"receive", "publish"})
  /\ UNCHANGED <<shm, pc, start, age, T2, world, raced, before, standing>>

(* A unit of time passes; the daemon makes a pass in every one.            *)
Tick ==
  /\ pc = "control" /\ ~ticked
  /\ ticked' = TRUE
  /\ age' = IF age < MaxAge THEN age + 1 ELSE age
  /\ standing' = IF SENSOR_T2 /\ BothOn /\ standing < MaxStanding
                 THEN standing + 1 ELSE standing
  /\ UNCHANGED <<shm, pc, start, T2, stop_prog, adc, health, frame, loaded,
                 late, raced, before>>

(* A running converter sends a code; other frames come at any time.  One   *)
(* that comes during "publish" might as well come right after it.          *)
Convert(f) ==
  /\ frame = "none" /\ pc \notin {"publish", "gone"}
  /\ f \in Codes => 1 \in adc /\ health = "all"
  /\ f = "other" => adc \ {1} # {} /\ health # "none"
  /\ frame' = f
  /\ UNCHANGED <<shm, daemon, adc, health, loaded, ticked, history>>

(* Converters break, one or all.                                           *)
Break ==
  /\ pc # "gone"
  /\ \/ health = "all" /\ health' \in {"others", "none"}
     \/ health = "others" /\ health' = "none"
  /\ UNCHANGED <<shm, daemon, adc, frame, loaded, ticked, history>>

(* The control system switches a controller on or off; the converters of   *)
(* PEP-RK stop with it.  The daemon sees it when it is at "control" next.  *)
SwitchA ==
  /\ pc = "control"
  /\ PEP_A_On' = ~PEP_A_On
  /\ UNCHANGED <<PEP_R_On, SENSOR_T2>>
  /\ Stands
  /\ UNCHANGED <<val_T2, daemon, world, late, raced, before>>

SwitchR ==
  /\ pc = "control"
  /\ PEP_R_On' \in {"off", "inp", "on"} \ {PEP_R_On}
  /\ adc' = IF PEP_R_On' = "off" THEN {} ELSE adc
  /\ UNCHANGED <<PEP_A_On, SENSOR_T2>>
  /\ Stands
  /\ UNCHANGED <<val_T2, daemon, health, frame, loaded, ticked, late, raced,
                 before>>

(* Another program changes its own flag: it loads MeteoMode ...            *)
OtherLoads ==
  /\ loaded = "none"
  /\ loaded' = IF SENSOR_T2 THEN "set" ELSE "clear"
  /\ UNCHANGED <<shm, daemon, adc, health, frame, ticked, history>>

(* ... and stores it, with SENSOR_T2 as it was then.                       *)
OtherStores ==
  /\ loaded # "none"
  /\ SENSOR_T2' = (loaded = "set")
  /\ loaded' = "none"
  /\ raced' = (raced \/ (pc = "publish" /\ SENSOR_T2' # SENSOR_T2))
  /\ UNCHANGED <<PEP_A_On, PEP_R_On>>
  /\ Stands
  /\ UNCHANGED <<val_T2, daemon, adc, health, frame, ticked, late, before>>

-----------------------------------------------------------------------------
ControlStep ==
  \/ \E delivered \in SUBSET Adcs : StartAdc(delivered) \/ SendStop(delivered)
  \/ GoOn \/ ControllersOff \/ ExitWhenOff \/ NothingToStop \/ ClearFlag

ReadStep == SkipFrame \/ TakeT2 \/ PublishT2

Next ==
  \/ ControlStep \/ ReadStep \/ ReceiveDone
  \/ Signal \/ Tick \/ Break \/ SwitchA \/ SwitchR
  \/ \E f \in Frames : Convert(f)
  \/ OtherLoads \/ OtherStores

Spec == Init /\ [][Next]_vars

(* The daemon runs, and time passes.  The ring gets empty again and again, *)
(* for codes come every half second at most.  A command sent over and over *)
(* to one converter is delivered at last, and a converter that works gives *)
(* a code in range.                                                        *)
Fairness ==
  /\ WF_vars(ControlStep) /\ WF_vars(ReadStep) /\ SF_vars(ReceiveDone)
  /\ SF_vars(Tick)
  /\ \A c \in Adcs :
       SF_vars(\E delivered \in SUBSET Adcs :
                 c \in delivered /\ StartAdc(delivered))
  /\ SF_vars(Convert("in_range"))

FairSpec == Spec /\ Fairness

-----------------------------------------------------------------------------
(* Properties.                                                             *)

TypeOK ==
  /\ PEP_A_On \in BOOLEAN /\ PEP_R_On \in {"off", "inp", "on"}
  /\ SENSOR_T2 \in BOOLEAN /\ val_T2 \in {"none", "sensor", "clamped"}
  /\ pc \in {"control", "check", "leaving", "receive", "publish", "gone"}
  /\ start \in BOOLEAN /\ age \in 0 .. MaxAge
  /\ T2 \in {"none", "sensor", "clamped"} /\ stop_prog \in BOOLEAN
  /\ adc \subseteq Adcs /\ health \in {"all", "others", "none"}
  /\ frame \in Frames \cup {"none"} /\ loaded \in {"none", "set", "clear"}
  /\ ticked \in BOOLEAN /\ late \in BOOLEAN /\ raced \in BOOLEAN
  /\ before \in BOOLEAN /\ standing \in 0 .. MaxStanding

(* A temperature that only says "out of range" is not given out as T2,     *)
(* unless another program's store puts the flag back just then.            *)
OnlySensorT2 ==
  [][val_T2' = "clamped" /\ val_T2 # "clamped" => raced]_vars

(* A daemon that was stopped leaves no flag behind that says T2 is fresh,  *)
(* although it sends its commands between clearing the flag and the exit,  *)
(* and other programs store theirs during that time and after it.  The     *)
(* exceptions: the signal came while it read frames, a controller was off, *)
(* or another program had loaded the flag before it was cleared.           *)
ExitLeavesNoFlag ==
  pc = "gone" /\ SENSOR_T2 => late \/ ~BothOn \/ before

(* Whatever happened before, a flag does not stand longer than the two     *)
(* time-outs without any frame as long as both controllers stay on: also   *)
(* when converters that the daemon has stopped, or has not yet started,    *)
(* gave the last one.                                                      *)
SilenceClearsInTime == standing <= ClearedAfter

(* However often commands are lost and controllers switched off and on, T2 *)
(* comes back.  What may keep it away is one lost command: another         *)
(* converter that runs counts as a sign of life, the daemon sees no reason *)
(* to start them again, and number 1 stays off.                            *)
T2ComesBack ==
  <>[](BothOn /\ health = "all" /\ pc # "gone" /\ ~stop_prog)
    => []<>SENSOR_T2 \/ <>[](adc # {} /\ 1 \notin adc)
=============================================================================
