------------------------------- MODULE MoveP2 -------------------------------
(***************************************************************************)
(* The client that turns the P2 table (client-p2/main.c): one thread works *)
(* out the turn and gives one command to the drive's controller; the other *)
(* reads what the controller says and ends with it.  Angles are counted in *)
(* parts of a circle.  The controller is the environment: it turns by what *)
(* it was told and says "Stop" when it has.                                *)
(***************************************************************************)
EXTENDS Integers

CONSTANTS
  HalfCircle,    \* 648000 arc seconds
  MIN_RESTRICT,  \* from here ...                          (29000)
  MAX_RESTRICT   \* ... to here the table must not stand  (360000)

Circle == 2 * HalfCircle

ASSUME P2Assumption ==
  /\ HalfCircle \in Nat \ {0}
  /\ MIN_RESTRICT \in Nat /\ MAX_RESTRICT \in MIN_RESTRICT .. Circle

VARIABLES
  gotopos, relmove,  \* the options
  mover,      \* moving_thread: "start", "spin" after the command, "done"
  is_running,
  main,       \* main: "loop", "leave" after the loop, "exit"
  status,     \* the exit status
  val_P,      \* where the table is
  drive,      \* how far it is still to turn
  said,       \* "Stop" is in the serial line
  start,      \* history: where it was at the beginning
  turned      \* history: how far it has turned

options == <<gotopos, relmove>>
table == <<val_P, drive, said, turned>>
p2_vars == <<options, mover, is_running, main, status, table, start>>

NoGoto == 0 - 1
InZone(p) == p > MIN_RESTRICT /\ p < MAX_RESTRICT
Magnitude(n) == IF n < 0 THEN 0 - n ELSE n

P2Init ==
  /\ gotopos \in {NoGoto} \cup 1 .. Circle
  /\ relmove \in 0 - Circle .. Circle
  /\ mover = "start" /\ is_running = TRUE /\ main = "loop" /\ status = 0
  /\ val_P \in 0 .. Circle - 1 /\ drive = 0 /\ said = FALSE
  /\ start = val_P /\ turned = 0

-----------------------------------------------------------------------------
Quit(n) == main' = "exit" /\ status' = n /\ UNCHANGED <<mover, is_running>>

Moves == gotopos > 0 \/ relmove # 0
Target(p) == IF gotopos > 0 THEN gotopos ELSE p + relmove

(* Mutant: the way is not compared with half a circle.                     *)
WayLong(angle) == IF angle < 0 THEN angle + Circle ELSE angle

(* The preferred direction.                                                *)
Way(angle) ==
  LET forward == IF angle < 0 THEN angle + Circle ELSE angle
  IN IF forward > HalfCircle THEN forward - Circle ELSE forward

(* moving_thread: nothing to do ...                                        *)
Idle ==
  /\ mover = "start" /\ main # "exit" /\ ~Moves
  /\ mover' = "done"
  /\ UNCHANGED <<options, is_running, main, status, table, start>>

(* ... or forbidden ...                                                    *)
Refuse ==
  /\ mover = "start" /\ main # "exit" /\ Moves
  /\ \/ InZone(val_P) /\ Quit(-1)
     \/ ~InZone(val_P) /\ InZone(Target(val_P)) /\ Quit(-10)
  /\ UNCHANGED <<options, table, start>>

(* ... or the command is given.                                            *)
Command ==
  /\ mover = "start" /\ main # "exit" /\ Moves
  /\ ~InZone(val_P) /\ ~InZone(Target(val_P))
  /\ drive' = Way(Target(val_P) - val_P)
  /\ said' = (drive' = 0)
  /\ mover' = "spin"
  /\ UNCHANGED <<options, is_running, main, status, val_P, turned, start>>

Released ==
  /\ mover = "spin" /\ ~is_running /\ mover' = "done"
  /\ UNCHANGED <<options, is_running, main, status, table, start>>

(* What the controller says is read; a "Stop" that does not begin what one *)
(* read returns is not seen, and never comes again.                        *)
ReadController ==
  /\ main = "loop" /\ said /\ said' = FALSE
  /\ is_running' \in {is_running, FALSE}
  /\ UNCHANGED <<options, mover, main, status, val_P, drive, turned, start>>

Leave ==
  /\ main = "loop" /\ ~is_running /\ main' = "leave"
  /\ UNCHANGED <<options, mover, is_running, status, table, start>>

(* quit(0) after the loop; any other end, by a signal (quit gets its       *)
(* number), a disconnected line, or a segment that is no more.             *)
Ends ==
  /\ \/ main = "leave" /\ Quit(0)
     \/ main # "exit" /\ \E n \in {15, 1, -2} : Quit(n)
  /\ UNCHANGED <<options, table, start>>

(* The controller; it goes on whether anyone listens or not.               *)
TurnTable ==
  /\ drive # 0
  /\ LET d == IF drive > 0 THEN 1 ELSE -1
     IN /\ drive' = drive - d /\ turned' = turned + d
        /\ val_P' = (val_P + d + Circle) % Circle
  /\ said' = (drive' = 0)
  /\ UNCHANGED <<options, mover, is_running, main, status, start>>

P2Next ==
  \/ Idle \/ Refuse \/ Command \/ Released
  \/ ReadController \/ Leave \/ Ends \/ TurnTable

P2Spec == P2Init /\ [][P2Next]_p2_vars

-----------------------------------------------------------------------------
(* Properties.                                                             *)

P2TypeOK ==
  /\ gotopos \in {NoGoto} \cup 1 .. Circle /\ relmove \in -Circle .. Circle
  /\ mover \in {"start", "spin", "done"} /\ main \in {"loop", "leave", "exit"}
  /\ {is_running, said} \subseteq BOOLEAN
  /\ status \in {0, 15, 1, -1, -2, -10}
  /\ val_P \in 0 .. Circle - 1 /\ start \in 0 .. Circle - 1
  /\ {drive, turned} \subseteq -Circle .. Circle

(* A program that ends with status 0 leaves the table at rest, at the      *)
(* angle asked for, and has turned it by no more than half a circle; out   *)
(* of the zone, if the angle was absolute.                                 *)
ArrivedAtExit ==
  main = "exit" /\ status = 0 =>
    /\ drive = 0
    /\ Moves => val_P = (Target(start) + Circle) % Circle
    /\ Magnitude(turned) <= HalfCircle
    /\ gotopos > 0 => ~InZone(val_P)
=============================================================================
