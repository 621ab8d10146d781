------------------------------ MODULE Rotator ------------------------------
(***************************************************************************)
(* The position angle rotator of the primary focus (p1rotator/main.c and   *)
(* stepper.c): it looks for the zero end-switch, turns by the angle asked  *)
(* for, and then turns a step motor after the position angle as long as    *)
(* the telescope tracks.  Angles are counted in microsteps of PA_MINSTEP.  *)
(***************************************************************************)
EXTENDS Integers

CONSTANTS
  HalfTurn,     \* ONETURN_USTEPS / 2                             (12800)
  USTEP_DELAY,  \* shortest time between microsteps              (1/3200 s)
  Second,       \* the speed is calculated this often
  MaxWait,      \* bound: times count no further
  absmove,      \* option: angles are counted from the end-switch
  gotoangle     \* option: turn by this angle first

Turn == 2 * HalfTurn

ASSUME RotatorAssumption ==
  /\ HalfTurn \in Nat \ {0}
  /\ USTEP_DELAY \in Nat /\ Second \in Nat \ {0}
  /\ MaxWait \in Nat /\ MaxWait > Second + USTEP_DELAY
  /\ absmove \in BOOLEAN
  /\ gotoangle \in 1 - Turn .. Turn - 1

VARIABLES
  phase,            \* "pins", "zero", "goto", "track", or "end"
  DIR_PIN,       \* direction that the driver is told
  EN_PIN,        \* level of the enabling pin
  absusteps,     \* angle from the end-switch after gotoangle
  PA,            \* the position angle, 0 .. Turn - 1
  tracking,      \* Sys_Mode is SysTrkOk
  p_first,       \* the position angle when stepper_process began
  current_usteps, dir,
  period,        \* target_pa_period
  since_T,       \* time since T_last
  since_step,    \* time since laststeptime
  place          \* where the rotator is, counted from the end-switch

clocks == <<period, since_T, since_step>>
tracker == <<p_first, current_usteps, dir, clocks>>
pins == <<DIR_PIN, EN_PIN>>
rotator_vars == <<phase, pins, absusteps, PA, tracking, tracker, place>>

Later(n) == IF n < MaxWait THEN n + 1 ELSE n
Dist(m, n) == IF m > n THEN m - n ELSE n - m
target_usteps == PA - p_first
Bad == 2 * Turn                      \* USTEPSBAD
PIN_ACTIVE == 0
PIN_PASSIVE == 1

RotatorInit ==
  /\ phase = "pins" /\ DIR_PIN = 0 /\ EN_PIN = 0 /\ absusteps = Bad
  /\ PA = 0 /\ tracking = FALSE
  /\ p_first = 0 /\ current_usteps = 0 /\ dir = 0
  /\ period = USTEP_DELAY /\ since_T = 0 /\ since_step = 0
  /\ place \in 0 .. Turn - 1

-----------------------------------------------------------------------------
(* setup_pins; then gotozero if angles are absolute.                       *)
setup_pins ==
  /\ phase = "pins" /\ phase' = IF absmove THEN "zero" ELSE "goto"
  /\ DIR_PIN' = 1 /\ EN_PIN' = PIN_PASSIVE
  /\ UNCHANGED <<absusteps, PA, tracking, tracker, place>>

(* The motor follows the steps while the enabling pin has the level that   *)
(* setup_pins gave it: the program sets no other before it ends.           *)
Turned(there) == place' = IF EN_PIN = PIN_PASSIVE THEN there ELSE place

stop_motor == phase' = "end" /\ DIR_PIN' = 0 /\ EN_PIN' = PIN_ACTIVE

(* gotozero turns back until the end-switch closes; after 1.1 turns it is  *)
(* given up, and the program ends as at a signal.                          *)
gotozero ==
  /\ phase = "zero"
  /\ \/ /\ phase' = "goto" /\ absusteps' = 0 /\ Turned(0)
        /\ DIR_PIN' = -1 /\ UNCHANGED EN_PIN
     \/ /\ stop_motor /\ Turned(place - (11 * Turn) \div 10)
        /\ UNCHANGED absusteps
  /\ UNCHANGED <<PA, tracking, tracker>>

(* Microsteps for an angle: an angle over half a turn goes the other way.  *)
Steps(pa) == IF pa > HalfTurn THEN pa - Turn ELSE pa

move_motor(n) ==
  /\ Turned(place + n)
  /\ absusteps' = absusteps + n
  /\ DIR_PIN' = IF n = 0 THEN DIR_PIN ELSE IF n > 0 THEN 1 ELSE -1

(* stepper_process begins at the angle of this moment.                     *)
Begin ==
  /\ p_first' = PA /\ current_usteps' = 0 /\ dir' = 0
  /\ period' = USTEP_DELAY /\ since_T' = 0 /\ since_step' = 0

(* gotoangle, if an angle is given (0 moves nothing).                      *)
Goto ==
  /\ phase = "goto" /\ phase' = "track"
  /\ move_motor(Steps(gotoangle)) /\ Begin
  /\ UNCHANGED <<EN_PIN, PA, tracking>>

-----------------------------------------------------------------------------
Towards == IF target_usteps > current_usteps THEN 1 ELSE -1

(* The speed is calculated again, if it is time.                           *)
Recalculate ==
  IF since_T > Second
  THEN LET p == since_T \div (2 * Dist(target_usteps, current_usteps))
                  - USTEP_DELAY
       IN /\ period' = IF p < USTEP_DELAY THEN USTEP_DELAY ELSE p
          /\ since_T' = 0
  ELSE UNCHANGED <<period, since_T>>

(* Mutant: dir is set before the pin's condition is looked at.             *)
DirectNoPin == dir' = Towards /\ UNCHANGED DIR_PIN

(* The direction: the pin is written when it changes.                      *)
Direct ==
  /\ dir' = Towards
  /\ DIR_PIN' = IF dir # Towards THEN Towards ELSE DIR_PIN

(* Mutant: laststeptime is set in every pass.                              *)
TrackAlwaysSetsTime(steps) ==
  /\ phase = "track" /\ tracking
  /\ target_usteps # current_usteps
  /\ Recalculate /\ Direct
  /\ since_step' = 0
  /\ IF steps
     THEN /\ since_step > period'
          /\ current_usteps' = current_usteps + dir'
          /\ Turned(place + DIR_PIN')
     ELSE since_step <= period' /\ UNCHANGED <<current_usteps, place>>
  /\ UNCHANGED <<phase, EN_PIN, absusteps, PA, tracking, p_first>>

(* One pass with an angle to go.                                           *)
Track(steps) ==
  /\ phase = "track" /\ tracking
  /\ target_usteps # current_usteps
  /\ Recalculate /\ Direct
  /\ IF steps
     THEN /\ since_step > period'
          /\ since_step' = 0
          /\ current_usteps' = current_usteps + dir'
          /\ Turned(place + DIR_PIN')
     ELSE /\ since_step <= period'
          /\ UNCHANGED <<since_step, current_usteps, place>>
  /\ UNCHANGED <<phase, EN_PIN, absusteps, PA, tracking, p_first>>

Step == Track(TRUE)
NoStep == Track(FALSE)

(* A signal: the motor is stopped and the pins are given back.             *)
signals ==
  /\ phase # "end" /\ stop_motor
  /\ UNCHANGED <<absusteps, PA, tracking, tracker, place>>

(* The telescope moves, and tracks or does not.                            *)
Sky ==
  /\ phase # "end"
  /\ PA' \in 0 .. Turn - 1 /\ tracking' \in BOOLEAN
  /\ UNCHANGED <<phase, pins, absusteps, tracker, place>>

RotatorTick ==
  /\ phase = "track"
  /\ since_T' = Later(since_T) /\ since_step' = Later(since_step)
  /\ UNCHANGED <<phase, pins, absusteps, PA, tracking, p_first,
                 current_usteps, dir, period, place>>

RotatorNext ==
  \/ setup_pins \/ gotozero \/ Goto \/ Step \/ NoStep
  \/ signals \/ Sky \/ RotatorTick

RotatorSpec == RotatorInit /\ [][RotatorNext]_rotator_vars

-----------------------------------------------------------------------------
(* Properties.                                                             *)

RotatorTypeOK ==
  /\ phase \in {"pins", "zero", "goto", "track", "end"}
  /\ DIR_PIN \in {-1, 0, 1} /\ dir \in {-1, 0, 1}
  /\ EN_PIN \in {PIN_ACTIVE, PIN_PASSIVE}
  /\ absusteps \in Int /\ place \in Int /\ current_usteps \in Int
  /\ {PA, p_first} \subseteq 0 .. Turn - 1 /\ tracking \in BOOLEAN
  /\ period \in Nat /\ {since_T, since_step} \subseteq 0 .. MaxWait

(* However the position angle jumps, also from 359 degrees to 0, the       *)
(* rotator with its cables stays within two turns of the end-switch, and   *)
(* where the program's counters say it is.                                 *)
NoWindUp ==
  absmove /\ phase = "track" =>
    /\ place = absusteps + current_usteps
    /\ place > 0 - 2 * Turn /\ place < HalfTurn + Turn

(* With the telescope tracking and the angle at rest, the rotator comes to *)
(* the target and stays there: also after a pause so long that the period  *)
(* calculated from it is longer than the time to the next calculation.     *)
CatchesUp ==
  \A p \in 0 .. Turn - 1 :
    <>[](phase = "track" /\ tracking /\ PA = p) =>
      <>[](current_usteps = target_usteps)
=============================================================================
