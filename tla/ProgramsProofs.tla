--------------------------- MODULE ProgramsProofs ---------------------------
(***************************************************************************)
(* Proofs about the programs that turn the P1 rotator and the P2 table:    *)
(* about SingleInstance for any set of process ids, finite or not; about   *)
(* Rotator for any size of a turn and any angle asked for; and about       *)
(* MoveP2 for any circle, zone and angle.  At the end: what was proved of  *)
(* each of the small programs holds of all of them together.               *)
(***************************************************************************)
EXTENDS MCPrograms, FitsProofs, ServersProofs, TLAPS

-----------------------------------------------------------------------------
(* One instance at a time (SingleInstance): the inductive invariant.       *)

(* Who was passed by a live process will not pass it in turn.              *)
SeenInv ==
  \A p, q \in Pids :
    SameName(p) /\ SameName(q) /\ p # q /\ q \in passed[p]
      => p \notin passed[q]

(* Beyond the scan everybody else was passed.                              *)
InsideInv == \A p \in Pids : Inside(p) => passed[p] = Pids \ {p}

(* Two that live keep each other company; and a PID read is a PID.         *)
CompanyInv ==
  /\ \A p, q \in Pids : SameName(p) /\ SameName(q) /\ p # q => p \in company
  /\ \A p \in Pids : pc[p] = "named" => pid[p] \in Pids

IInv == TypeOK /\ SeenInv /\ InsideInv /\ PidfileNamesIt /\ CompanyInv
          /\ RefusedForCause

(* A step that starts no process, ends none and passes nobody leaves the   *)
(* parts of the invariant about who has seen whom as they are.             *)
LEMMA Bystanders ==
  ASSUME TypeOK, SeenInv, CompanyInv, NEW p \in Pids, SameName(p),
         pc'[p] # "named", \A q \in Pids : q # p => pc'[q] = pc[q],
         UNCHANGED <<pid, passed, company>>
  PROVE  SeenInv' /\ CompanyInv'
<1>1. \A q \in Pids : SameName(q)' => SameName(q)
  BY DEF SameName
<1>2. \A q \in Pids : pc'[q] = "named" => pc[q] = "named"
  OBVIOUS
<1> QED
  BY <1>1, <1>2 DEF SeenInv, CompanyInv

(* Before any process is started nothing can be wrong.                     *)
LEMMA InstanceAtFirst == Init => IInv
BY DEF Init, IInv, TypeOK, SeenInv, InsideInv, PidfileNamesIt, CompanyInv,
       RefusedForCause, SameName, Inside

(* Two processes beyond the scan would each have passed the other while it *)
(* was there to be found.                                                  *)
LEMMA InsideAlone == SeenInv /\ InsideInv => OneInstance
BY DEF SeenInv, InsideInv, OneInstance, Inside, SameName

(* Every step preserves the types.                                         *)
LEMMA TypeStep == TypeOK /\ [Next]_vars => TypeOK'
<1> SUFFICES ASSUME TypeOK, [Next]_vars PROVE TypeOK'
  OBVIOUS
<1> USE DEF TypeOK, Go
<1>1. ASSUME NEW p \in Pids, Exec(p) PROVE TypeOK'
  BY <1>1 DEF Exec, Live
<1>2. ASSUME NEW p \in Pids, Check4Running(p) PROVE TypeOK'
  <2>1. CASE ReadPidfile(p) \/ NoPidfile(p)
    BY <2>1 DEF ReadPidfile, NoPidfile
  <2>2. CASE FoundNamed(p) \/ StaleNamed(p)
    BY <2>2 DEF FoundNamed, StaleNamed
  <2>3. ASSUME NEW q \in Pids, Pass(p, q) \/ Found(p, q) PROVE TypeOK'
    BY <2>3 DEF Pass, Found
  <2>4. CASE OpenPidfile(p) \/ WritePidfile(p)
    BY <2>4 DEF OpenPidfile, WritePidfile
  <2> QED
    BY <1>2, <2>1, <2>2, <2>3, <2>4 DEF Check4Running
<1>3. ASSUME NEW p \in Pids, UnlinkPidfile(p) \/ Exit(p) \/ Killed(p)
      PROVE  TypeOK'
  BY <1>3 DEF UnlinkPidfile, Exit, Killed
<1>4. CASE UNCHANGED vars
  BY <1>4 DEF vars
<1> QED
  BY <1>1, <1>2, <1>3, <1>4 DEF Next

-----------------------------------------------------------------------------
(* Starting: the new process has passed nobody, and the others have passed *)
(* only ids that were nobody's.                                            *)
LEMMA ExecStep ==
  ASSUME IInv, NEW p \in Pids, Exec(p)
  PROVE  SeenInv' /\ InsideInv' /\ PidfileNamesIt' /\ CompanyInv'
           /\ RefusedForCause'
<1> USE DEF IInv, TypeOK
<1>1. /\ pc[p] = "gone" /\ pc' = [pc EXCEPT ![p] = "stat"]
      /\ pid' = [pid EXCEPT ![p] = NoPid]
      /\ passed' = [passed EXCEPT ![p] = {}]
      /\ pidfile' = pidfile
  BY DEF Exec, Go
<1>2. company' = IF Live = {} THEN company \ {p}
                 ELSE company \cup Live \cup {p}
  BY DEF Exec
<1>3. \A q \in Pids : q # p => pc'[q] = pc[q] /\ passed'[q] = passed[q]
                                 /\ pid'[q] = pid[q]
  BY <1>1
<1>4. pc'[p] = "stat" /\ passed'[p] = {}
  BY <1>1
<1>5. SeenInv'
  BY <1>3, <1>4 DEF SeenInv, SameName
<1>6. InsideInv' /\ PidfileNamesIt'
  BY <1>1, <1>3, <1>4 DEF InsideInv, Inside, PidfileNamesIt
<1>7. CompanyInv'
  BY <1>1, <1>2, <1>3, <1>4 DEF CompanyInv, SameName, Live
<1>8. RefusedForCause'
  BY <1>2, <1>3, <1>4 DEF RefusedForCause, Live, SameName
<1> QED
  BY <1>5, <1>6, <1>7, <1>8

(* Going past an id that is nobody's.                                      *)
LEMMA PassStep ==
  ASSUME IInv, NEW p \in Pids, NEW q \in Pids, Pass(p, q)
  PROVE  SeenInv' /\ InsideInv' /\ PidfileNamesIt' /\ CompanyInv'
           /\ RefusedForCause'
<1> USE DEF IInv, TypeOK
<1>1. /\ pc[p] = "scan" /\ ~SameName(q)
      /\ passed' = [passed EXCEPT ![p] = @ \cup {q}]
      /\ UNCHANGED <<pc, pidfile, pid, company>>
  BY DEF Pass
<1>2. SeenInv'
  BY <1>1 DEF SeenInv, SameName
<1>3. InsideInv'
  BY <1>1 DEF InsideInv, Inside
<1> QED
  BY <1>1, <1>2, <1>3 DEF PidfileNamesIt, CompanyInv, RefusedForCause, SameName

(* The other steps of check4running: where to go, and the PID file.        *)
LEMMA CheckStep ==
  ASSUME IInv, NEW p \in Pids,
         \/ ReadPidfile(p) \/ NoPidfile(p) \/ FoundNamed(p) \/ StaleNamed(p)
         \/ \E q \in Pids : Found(p, q)
         \/ OpenPidfile(p) \/ WritePidfile(p)
  PROVE  SeenInv' /\ InsideInv' /\ PidfileNamesIt' /\ CompanyInv'
           /\ RefusedForCause'
<1> USE DEF IInv, TypeOK, Go
<1>1. CASE ReadPidfile(p)
  BY <1>1 DEF ReadPidfile, SeenInv, InsideInv, Inside, PidfileNamesIt,
              CompanyInv, RefusedForCause, SameName
<1>2. CASE NoPidfile(p)
  <2>1. SeenInv' /\ CompanyInv'
    BY <1>2, Bystanders DEF NoPidfile, SameName
  <2> QED
    BY <1>2, <2>1 DEF NoPidfile, InsideInv, Inside, PidfileNamesIt,
                      RefusedForCause
<1>3. CASE FoundNamed(p)
  <2>1. SeenInv' /\ CompanyInv'
    BY <1>3, Bystanders DEF FoundNamed, SameName
  <2>2. p \in company \/ pid[p] = p
    BY <1>3 DEF FoundNamed, CompanyInv, SameName
  <2> QED
    BY <1>3, <2>1, <2>2 DEF FoundNamed, InsideInv, Inside, PidfileNamesIt,
                            RefusedForCause
<1>4. CASE StaleNamed(p)
  <2>1. SeenInv' /\ CompanyInv'
    BY <1>4, Bystanders DEF StaleNamed, SameName
  <2> QED
    BY <1>4, <2>1 DEF StaleNamed, InsideInv, Inside, PidfileNamesIt,
                      RefusedForCause
<1>5. ASSUME NEW q \in Pids, Found(p, q)
      PROVE  SeenInv' /\ InsideInv' /\ PidfileNamesIt' /\ CompanyInv'
               /\ RefusedForCause'
  <2>1. SeenInv' /\ CompanyInv'
    BY <1>5, Bystanders DEF Found, SameName
  <2>2. p \in company
    BY <1>5 DEF Found, CompanyInv, SameName
  <2> QED
    BY <1>5, <2>1, <2>2 DEF Found, InsideInv, Inside, PidfileNamesIt,
                            RefusedForCause
<1>6. CASE OpenPidfile(p)
  <2>1. SeenInv' /\ CompanyInv'
    BY <1>6, Bystanders DEF OpenPidfile, SameName
  <2>2. InsideInv'
    BY <1>6 DEF OpenPidfile, InsideInv, Inside
  <2>3. OneInstance'
    BY <2>1, <2>2, InsideAlone, PTL
  <2>4. PidfileNamesIt'
    BY <1>6, <2>3 DEF OpenPidfile, OneInstance, Inside, PidfileNamesIt
  <2> QED
    BY <1>6, <2>1, <2>2, <2>4 DEF OpenPidfile, RefusedForCause
<1>7. CASE WritePidfile(p)
  <2>1. SeenInv' /\ CompanyInv'
    BY <1>7, Bystanders DEF WritePidfile, SameName
  <2>2. InsideInv'
    BY <1>7 DEF WritePidfile, InsideInv, Inside
  <2>3. OneInstance'
    BY <2>1, <2>2, InsideAlone, PTL
  <2>4. PidfileNamesIt'
    BY <1>7, <2>3 DEF WritePidfile, OneInstance, Inside, PidfileNamesIt
  <2> QED
    BY <1>7, <2>1, <2>2, <2>4 DEF WritePidfile, RefusedForCause
<1> QED
  BY <1>1, <1>2, <1>3, <1>4, <1>5, <1>6, <1>7

(* Leaving: the PID file that is removed is one's own, for nobody else is  *)
(* in main.                                                                *)
LEMMA LeaveStep ==
  ASSUME IInv, NEW p \in Pids, UnlinkPidfile(p) \/ Exit(p) \/ Killed(p)
  PROVE  SeenInv' /\ InsideInv' /\ PidfileNamesIt' /\ CompanyInv'
           /\ RefusedForCause'
<1> USE DEF IInv, TypeOK, Go
<1>1. CASE UnlinkPidfile(p)
  <2>1. SeenInv' /\ CompanyInv'
    BY <1>1, Bystanders DEF UnlinkPidfile, SameName
  <2>2. OneInstance
    BY InsideAlone
  <2>3. PidfileNamesIt'
    BY <1>1, <2>2 DEF UnlinkPidfile, OneInstance, Inside, PidfileNamesIt
  <2> QED
    BY <1>1, <2>1, <2>3 DEF UnlinkPidfile, InsideInv, Inside, RefusedForCause
<1>2. CASE Exit(p) \/ Killed(p)
  <2>1. SameName(p) /\ pc' = [pc EXCEPT ![p] = "gone"]
    BY <1>2 DEF Exit, Killed, SameName
  <2>2. UNCHANGED <<pidfile, pid, passed, company>>
    BY <1>2 DEF Exit, Killed
  <2>3. SeenInv' /\ CompanyInv'
    BY <2>1, <2>2, Bystanders
  <2> QED
    BY <2>1, <2>2, <2>3 DEF InsideInv, Inside, PidfileNamesIt, RefusedForCause
<1> QED
  BY <1>1, <1>2

(* Every step preserves the invariant.                                     *)
LEMMA InstanceInductive == IInv /\ [Next]_vars => IInv'
<1> SUFFICES ASSUME IInv, [Next]_vars PROVE IInv'
  OBVIOUS
<1>1. TypeOK'
  BY TypeStep DEF IInv
<1>2. ASSUME NEW p \in Pids, Exec(p) PROVE IInv'
  BY <1>1, <1>2, ExecStep DEF IInv
<1>3. ASSUME NEW p \in Pids, Check4Running(p) PROVE IInv'
  <2>1. ASSUME NEW q \in Pids, Pass(p, q) PROVE IInv'
    BY <1>1, <2>1, PassStep DEF IInv
  <2>2. CASE \/ ReadPidfile(p) \/ NoPidfile(p) \/ FoundNamed(p)
             \/ StaleNamed(p) \/ \E q \in Pids : Found(p, q)
             \/ OpenPidfile(p) \/ WritePidfile(p)
    BY <1>1, <2>2, CheckStep DEF IInv
  <2> QED
    BY <1>3, <2>1, <2>2 DEF Check4Running
<1>4. ASSUME NEW p \in Pids, UnlinkPidfile(p) \/ Exit(p) \/ Killed(p)
      PROVE  IInv'
  BY <1>1, <1>4, LeaveStep DEF IInv
<1>5. CASE UNCHANGED vars
  BY <1>5 DEF vars, IInv, TypeOK, SeenInv, InsideInv, PidfileNamesIt,
              CompanyInv, RefusedForCause, SameName, Inside
<1> QED
  BY <1>2, <1>3, <1>4, <1>5 DEF Next

-----------------------------------------------------------------------------
(* check4running and signals keep the invariant, whatever the ids.         *)
THEOREM InstanceInvariance == Spec => []IInv
BY InstanceAtFirst, InstanceInductive, PTL DEF Spec

(* The scan of /proc in check4running, without any lock, keeps every       *)
(* second process from the motor.                                          *)
THEOREM MotorExclusive == Spec => []OneInstance
<1>1. IInv => OneInstance
  BY InsideAlone DEF IInv
<1> QED
  BY <1>1, InstanceInvariance, PTL

(* The PID file written at the end of check4running names the process that *)
(* runs, until signals() of that very process removes it.                  *)
THEOREM PidfileRight == Spec => []PidfileNamesIt
<1>1. IInv => PidfileNamesIt
  BY DEF IInv
<1> QED
  BY <1>1, InstanceInvariance, PTL

(* iffound_default ends a process only if there was another one, or if the *)
(* PID file held the very id it was given.                                 *)
THEOREM RefusalJustified == Spec => []RefusedForCause
<1>1. IInv => RefusedForCause
  BY DEF IInv
<1> QED
  BY <1>1, InstanceInvariance, PTL

-----------------------------------------------------------------------------
(* The P1 rotator (Rotator): the inductive invariant.                      *)

(* Before the motion the rotator is at the end-switch; then it is where    *)
(* the counters say it is.                                                 *)
PlaceInv ==
  absmove =>
    /\ phase = "goto" => place = 0 /\ absusteps = 0
    /\ phase = "track" => /\ place = absusteps + current_usteps
                         /\ absusteps \in 1 - Turn .. HalfTurn

(* The pins have the direction in which steps are counted, and the level   *)
(* with which the motor turns.                                             *)
PinInv ==
  /\ phase = "track" /\ dir # 0 => DIR_PIN = dir
  /\ phase \in {"zero", "goto", "track"} => EN_PIN = PIN_PASSIVE

(* The steps counted never pass a target, and no target is a turn away.    *)
StepsInv == current_usteps \in 1 - Turn .. Turn - 1

RotatorIInv == RotatorTypeOK /\ PlaceInv /\ PinInv /\ StepsInv

(* What the constants are, and what is defined from them.                  *)
LEMMA RotatorConstants ==
  /\ HalfTurn \in Nat \ {0} /\ Turn = 2 * HalfTurn /\ Bad \in Int
  /\ USTEP_DELAY \in Nat /\ Second \in Nat \ {0} /\ MaxWait \in Nat
  /\ gotoangle \in 1 - Turn .. Turn - 1
BY RotatorAssumption DEF Turn, Bad

(* However an angle is given, it is turned half a turn forward at most.    *)
LEMMA StepsRange == Steps(gotoangle) \in 1 - Turn .. HalfTurn
BY RotatorConstants DEF Steps

-----------------------------------------------------------------------------
(* The invariant holds at the start.                                       *)
LEMMA RotatorAtFirst == RotatorInit => RotatorIInv
<1> SUFFICES ASSUME RotatorInit PROVE RotatorIInv
  OBVIOUS
<1>1. tracking \in BOOLEAN
  BY Zenon DEF RotatorInit
<1>2. RotatorTypeOK
  BY <1>1, RotatorConstants DEF RotatorInit, RotatorTypeOK, PIN_ACTIVE
<1>3. PlaceInv
  BY DEF RotatorInit, PlaceInv
<1>4. PinInv /\ StepsInv
  BY RotatorConstants DEF RotatorInit, PinInv, StepsInv
<1> QED
  BY <1>2, <1>3, <1>4 DEF RotatorIInv

(* Before the angle is followed: the pins, the end-switch.                 *)
LEMMA ZeroStep == RotatorIInv /\ (setup_pins \/ gotozero) => RotatorIInv'
<1> SUFFICES ASSUME RotatorIInv, setup_pins \/ gotozero
             PROVE  RotatorIInv'
  OBVIOUS
<1> USE RotatorConstants
    DEF RotatorIInv, RotatorTypeOK, PlaceInv, PinInv, StepsInv, PIN_ACTIVE,
        PIN_PASSIVE, tracker, clocks
<1>1. CASE setup_pins
  BY <1>1 DEF setup_pins
<1>2. CASE gotozero
  <2>1. phase = "zero" /\ EN_PIN = PIN_PASSIVE
    BY <1>2 DEF gotozero
  <2>2. \/ phase' = "goto" /\ absusteps' = 0 /\ place' = 0
           /\ DIR_PIN' = -1 /\ EN_PIN' = EN_PIN
        \/ phase' = "end" /\ absusteps' = absusteps /\ place' \in Int
           /\ DIR_PIN' = 0 /\ EN_PIN' = PIN_ACTIVE
    <3>1. place - (11 * Turn) \div 10 \in Int
      OBVIOUS
    <3> DEFINE there == place - (11 * Turn) \div 10
    <3>2. \/ phase' = "goto" /\ absusteps' = 0 /\ Turned(0)
             /\ DIR_PIN' = -1 /\ EN_PIN' = EN_PIN
          \/ stop_motor /\ Turned(there) /\ absusteps' = absusteps
      BY <1>2 DEF gotozero
    <3> HIDE DEF there
    <3>3. Turned(0) => place' = 0
      BY <2>1 DEF Turned
    <3>4. Turned(there) => place' \in Int
      BY <2>1, <3>1 DEF Turned, there
    <3> QED
      BY <3>2, <3>3, <3>4 DEF stop_motor
  <2>3. UNCHANGED <<PA, tracking, tracker>>
    BY <1>2 DEF gotozero
  <2> QED
    BY <2>1, <2>2, <2>3
<1> QED
  BY <1>1, <1>2

(* The angle asked for is turned from the end-switch.                      *)
LEMMA GotoStep == RotatorIInv /\ Goto => RotatorIInv'
<1> SUFFICES ASSUME RotatorIInv, Goto PROVE RotatorIInv'
  OBVIOUS
<1>0. phase = "goto" /\ EN_PIN = PIN_PASSIVE
  BY DEF Goto, RotatorIInv, PinInv
<1>1. /\ phase = "goto" /\ phase' = "track"
      /\ place' = place + Steps(gotoangle)
      /\ absusteps' = absusteps + Steps(gotoangle)
      /\ DIR_PIN' \in {DIR_PIN, 1, -1}
      /\ EN_PIN' = EN_PIN /\ EN_PIN = PIN_PASSIVE
      /\ p_first' = PA /\ current_usteps' = 0 /\ dir' = 0
      /\ period' = USTEP_DELAY /\ since_T' = 0 /\ since_step' = 0
      /\ PA' = PA /\ tracking' = tracking
  <2> DEFINE steps == Steps(gotoangle)
  <2>1. move_motor(steps) /\ Begin /\ phase' = "track"
        /\ UNCHANGED <<EN_PIN, PA, tracking>>
    BY DEF Goto
  <2>2. steps \in Int
    BY StepsRange, RotatorConstants
  <2> HIDE DEF steps
  <2>3. /\ place' = place + steps /\ absusteps' = absusteps + steps
        /\ DIR_PIN' \in {DIR_PIN, 1, -1}
    BY <1>0, <2>1, <2>2 DEF move_motor, Turned
  <2> QED
    BY <1>0, <2>1, <2>3 DEF Begin, steps
<1>2. RotatorTypeOK'
  BY <1>1, RotatorConstants, StepsRange DEF RotatorIInv, RotatorTypeOK
<1>3. PlaceInv'
  BY <1>1, RotatorConstants, StepsRange DEF RotatorIInv, PlaceInv
<1>4. PinInv' /\ StepsInv'
  BY <1>1, RotatorConstants DEF PinInv, StepsInv
<1> QED
  BY <1>2, <1>3, <1>4 DEF RotatorIInv

(* The speed: its period and the time it was calculated.                   *)
LEMMA RecalculateType ==
  ASSUME RotatorTypeOK, current_usteps # target_usteps, Recalculate
  PROVE  period' \in Nat /\ since_T' \in 0 .. MaxWait
<1> DEFINE distance == Dist(target_usteps, current_usteps)
<1>1. distance \in Nat \ {0}
  BY RotatorConstants DEF RotatorTypeOK, target_usteps, Dist
<1> HIDE DEF distance
<1>2. since_T \div (2 * distance) \in Int
  BY <1>1 DEF RotatorTypeOK
<1> QED
  BY <1>2, RotatorConstants DEF RotatorTypeOK, Recalculate, distance

(* A pass of the loop, with a microstep or without: the pin has the        *)
(* direction counted, and the count comes nearer to the target.            *)
LEMMA TrackStep == RotatorIInv /\ (Step \/ NoStep) => RotatorIInv'
<1> SUFFICES ASSUME RotatorIInv, NEW steps \in BOOLEAN, Track(steps)
             PROVE  RotatorIInv'
  BY DEF Step, NoStep
<1>1. /\ RotatorTypeOK /\ phase = "track" /\ phase' = "track"
      /\ target_usteps # current_usteps
      /\ absusteps' = absusteps /\ PA' = PA /\ tracking' = tracking
      /\ p_first' = p_first
      /\ EN_PIN' = EN_PIN /\ EN_PIN = PIN_PASSIVE
  BY DEF RotatorIInv, PinInv, Track
<1>2. period' \in Nat /\ since_T' \in 0 .. MaxWait
  BY <1>1, RecalculateType DEF Track
<1>3. /\ dir' = Towards /\ DIR_PIN' = dir' /\ dir' \in {1, -1}
  <2>1. dir' = Towards /\ Towards \in {1, -1}
    BY DEF Track, Direct, Towards
  <2>2. DIR_PIN' = IF dir # Towards THEN Towards ELSE DIR_PIN
    BY DEF Track, Direct
  <2>3. dir # 0 => DIR_PIN = dir
    BY <1>1 DEF RotatorIInv, PinInv
  <2> QED
    BY <2>1, <2>2, <2>3
<1>4. \/ /\ current_usteps' = current_usteps + dir'
         /\ place' = place + dir' /\ since_step' = 0
      \/ /\ current_usteps' = current_usteps
         /\ place' = place /\ since_step' = since_step
  <2>1. \/ /\ current_usteps' = current_usteps + dir'
           /\ Turned(place + DIR_PIN') /\ since_step' = 0
        \/ UNCHANGED <<since_step, current_usteps, place>>
    BY DEF Track
  <2> QED
    BY <1>1, <1>3, <2>1 DEF Turned
<1>5. RotatorTypeOK'
  BY <1>1, <1>2, <1>3, <1>4, RotatorConstants DEF RotatorTypeOK
<1>6. PlaceInv'
  BY <1>1, <1>3, <1>4, RotatorConstants
     DEF RotatorIInv, RotatorTypeOK, PlaceInv
<1>7. PinInv'
  BY <1>1, <1>3 DEF PinInv
<1>8. StepsInv'
  <2>1. target_usteps \in 1 - Turn .. Turn - 1 /\ current_usteps \in Int
    BY <1>1, RotatorConstants DEF RotatorTypeOK, target_usteps
  <2>2. current_usteps + Towards \in 1 - Turn .. Turn - 1
    BY <1>1, <2>1, RotatorConstants DEF RotatorIInv, StepsInv, Towards
  <2> QED
    BY <1>3, <1>4, <2>2 DEF RotatorIInv, StepsInv
<1> QED
  BY <1>5, <1>6, <1>7, <1>8 DEF RotatorIInv

(* The telescope, the time and the end.                                    *)
LEMMA OutsideStep ==
  RotatorIInv /\ (signals \/ Sky \/ RotatorTick) => RotatorIInv'
<1> SUFFICES ASSUME RotatorIInv, signals \/ Sky \/ RotatorTick
             PROVE  RotatorIInv'
  OBVIOUS
<1> USE RotatorConstants
    DEF RotatorIInv, RotatorTypeOK, PlaceInv, PinInv, StepsInv, pins
<1>1. CASE signals
  BY <1>1 DEF signals, stop_motor, PIN_ACTIVE, PIN_PASSIVE, tracker, clocks
<1>2. CASE Sky
  BY <1>2 DEF Sky, tracker, clocks
<1>3. CASE RotatorTick
  BY <1>3 DEF RotatorTick, Later
<1> QED
  BY <1>1, <1>2, <1>3

(* Every step keeps the invariant.                                         *)
LEMMA RotatorInductive ==
  RotatorIInv /\ [RotatorNext]_rotator_vars => RotatorIInv'
<1> SUFFICES ASSUME RotatorIInv, [RotatorNext]_rotator_vars
             PROVE  RotatorIInv'
  OBVIOUS
<1>1. CASE UNCHANGED rotator_vars
  BY <1>1 DEF rotator_vars, pins, tracker, clocks, RotatorIInv, RotatorTypeOK,
              PlaceInv, PinInv, StepsInv
<1> QED
  BY <1>1, ZeroStep, GotoStep, TrackStep, OutsideStep DEF RotatorNext

(* Whatever the position angle does and whatever angle was asked for, the  *)
(* rotator stays within two turns of the end-switch, where the program     *)
(* thinks it is.                                                           *)
THEOREM CablesSafe == RotatorSpec => []NoWindUp
<1>1. RotatorIInv => NoWindUp
  BY RotatorConstants
     DEF RotatorIInv, RotatorTypeOK, PlaceInv, StepsInv, NoWindUp
<1> QED
  BY <1>1, RotatorAtFirst, RotatorInductive, PTL DEF RotatorSpec

-----------------------------------------------------------------------------
(* The table of P2 (MoveP2).                                               *)

(* The inductive invariant.  Before the command, or without one, nothing   *)
(* turns and nothing is said; after it, what has been turned and what is   *)
(* left make up the way, on the same side of zero; and the program leaves  *)
(* its loop only when nothing is left.                                     *)
Course == Way(Target(start) - start)
AtRestInv ==
  mover = "start" \/ ~Moves =>
    /\ drive = 0 /\ turned = 0 /\ ~said /\ is_running
TurningInv ==
  mover # "start" /\ Moves =>
    /\ ~InZone(Target(start)) /\ turned + drive = Course
    /\ (turned >= 0 /\ drive >= 0) \/ (turned <= 0 /\ drive <= 0)
PositionInv ==
  val_P \in {start + turned, start + turned + Circle, start + turned - Circle}
StoppedInv ==
  /\ said \/ ~is_running => drive = 0
  /\ main = "leave" \/ (main = "exit" /\ status = 0) => ~is_running
P2IInv == P2TypeOK /\ AtRestInv /\ TurningInv /\ PositionInv /\ StoppedInv

(* Angles up to three circles, back in one.                                *)
LEMMA OneCircle ==
  ASSUME NEW x \in 0 .. 3 * Circle - 1
  PROVE  /\ x % Circle \in 0 .. Circle - 1
         /\ x % Circle \in {x, x - Circle, x - 2 * Circle}
<1>1. Circle \in Nat \ {0}
  BY P2Assumption DEF Circle
<1>2. CASE x < Circle
  BY <1>1, <1>2
<1>3. CASE x >= Circle /\ x < 2 * Circle
  BY <1>1, <1>3
<1>4. CASE x >= 2 * Circle
  BY <1>1, <1>4
<1> QED  BY <1>1, <1>2, <1>3, <1>4

LEMMA P2Bounds ==
  /\ HalfCircle \in Nat \ {0} /\ Circle = 2 * HalfCircle /\ Circle \in Nat
  /\ MIN_RESTRICT \in Nat /\ MAX_RESTRICT \in Nat /\ NoGoto = -1
  BY P2Assumption DEF Circle, NoGoto

(* The way to any angle is half a circle long at most, and leads there.    *)
LEMMA WayShort ==
  ASSUME NEW angle \in 0 - Circle .. Circle
  PROVE  /\ Way(angle) \in 0 - HalfCircle .. HalfCircle
         /\ Way(angle) \in {angle - Circle, angle, angle + Circle}
  BY P2Bounds DEF Way

P2Flags == is_running \in BOOLEAN /\ said \in BOOLEAN
P2Others ==
  /\ gotopos \in {NoGoto} \cup 1 .. Circle /\ relmove \in -Circle .. Circle
  /\ mover \in {"start", "spin", "done"} /\ main \in {"loop", "leave", "exit"}
  /\ status \in {0, 15, 1, -1, -2, -10}
  /\ val_P \in 0 .. Circle - 1 /\ start \in 0 .. Circle - 1
  /\ drive \in -Circle .. Circle /\ turned \in -Circle .. Circle
P2Parts ==
  P2Others /\ AtRestInv /\ TurningInv /\ PositionInv /\ StoppedInv

LEMMA P2IInvParts == P2IInv <=> P2Flags /\ P2Parts
  BY DEF P2IInv, P2TypeOK, P2Flags, P2Parts, P2Others

LEMMA CourseShort ==
  ASSUME P2Others, Moves
  PROVE  /\ Course \in 0 - HalfCircle .. HalfCircle
         /\ start + Course \in {Target(start) - Circle, Target(start),
                                Target(start) + Circle}
         /\ Target(start) + Circle \in 0 .. 3 * Circle - 1
         /\ Target(start) \in Int
<1>1. Target(start) - start \in 0 - Circle .. Circle
  BY P2Bounds DEF P2Others, Target, Moves
<1>2. Target(start) \in Int /\ start \in 0 .. Circle - 1
  BY P2Bounds DEF P2Others, Target
<1> QED
  BY <1>1, <1>2, WayShort, P2Bounds DEF Course

LEMMA P2AtFirst == P2Init => P2Flags /\ P2Parts
<1> SUFFICES ASSUME P2Init PROVE P2Flags /\ P2Parts
  OBVIOUS
<1>1. P2Flags
  BY Zenon DEF P2Init, P2Flags
<1> QED
  BY <1>1, P2Bounds
     DEF P2Init, P2Parts, P2Others, AtRestInv, TurningInv, PositionInv,
         StoppedInv

LEMMA P2FlagsKept == P2Flags /\ [P2Next]_p2_vars => P2Flags'
<1> SUFFICES ASSUME P2Flags, [P2Next]_p2_vars PROVE P2Flags'
  OBVIOUS
<1>1. CASE Idle \/ Refuse \/ Command \/ Released
  BY <1>1, Zenon
     DEF P2Flags, Idle, Refuse, Command, Released, Quit, options, table
<1>2. CASE ReadController \/ Leave \/ Ends \/ TurnTable \/ UNCHANGED p2_vars
  BY <1>2, Zenon
     DEF P2Flags, ReadController, Leave, Ends, TurnTable, Quit, options,
         table, p2_vars
<1> QED  BY <1>1, <1>2 DEF P2Next

LEMMA TurningKeeps ==
  ASSUME P2Flags, P2Parts, TurnTable
  PROVE  P2Parts'
<1> DEFINE d == IF drive > 0 THEN 1 ELSE -1
<1>1. /\ drive # 0 /\ drive' = drive - d /\ turned' = turned + d
      /\ val_P' = (val_P + d + Circle) % Circle
      /\ UNCHANGED <<gotopos, relmove, mover, main, status, start>>
  BY DEF TurnTable, options
<1>2. (said' <=> drive' = 0) /\ (is_running' <=> is_running)
  BY Zenon DEF TurnTable
<1>3. P2Others /\ mover # "start" /\ Moves
  BY <1>1 DEF P2Parts, AtRestInv, P2Others
<1>4. /\ Course \in 0 - HalfCircle .. HalfCircle
      /\ turned + drive = Course /\ ~InZone(Target(start))
      /\ (turned >= 0 /\ drive >= 0) \/ (turned <= 0 /\ drive <= 0)
  BY <1>3, CourseShort DEF P2Parts, TurningInv
<1>5. /\ turned' \in 0 - HalfCircle .. HalfCircle
      /\ drive' \in 0 - HalfCircle .. HalfCircle
      /\ turned' + drive' = Course
      /\ (turned' >= 0 /\ drive' >= 0) \/ (turned' <= 0 /\ drive' <= 0)
  BY <1>1, <1>3, <1>4, P2Bounds DEF P2Others
<1>6. /\ val_P' \in 0 .. Circle - 1
      /\ val_P' \in {val_P + d + Circle, val_P + d, val_P + d - Circle}
  <2>1. val_P \in 0 .. Circle - 1 /\ d \in {1, -1}
    BY <1>3, P2Bounds DEF P2Others
  <2> HIDE DEF d
  <2> DEFINE x == val_P + d + Circle
  <2>2. x \in 0 .. 3 * Circle - 1
    BY <2>1, P2Bounds
  <2>3. val_P' = x % Circle
    BY <1>1 DEF x
  <2> HIDE DEF x
  <2>4. /\ val_P' \in 0 .. Circle - 1
        /\ val_P' \in {x, x - Circle, x - 2 * Circle}
    BY <2>2, <2>3, OneCircle
  <2> QED  BY <2>1, <2>4, P2Bounds DEF x
<1>7. P2Others'
  BY <1>1, <1>3, <1>5, <1>6, P2Bounds DEF P2Others
<1>8. PositionInv'
  <2>1. val_P \in {start + turned, start + turned + Circle,
                   start + turned - Circle}
    BY DEF P2Parts, PositionInv
  <2> QED
    BY <1>1, <1>3, <1>5, <1>6, <2>1, P2Bounds DEF PositionInv, P2Others
<1>9. AtRestInv' /\ TurningInv'
  BY <1>1, <1>3, <1>4, <1>5
     DEF AtRestInv, TurningInv, Course, Target, Moves, InZone
<1>10. StoppedInv'
  BY <1>1, <1>2 DEF P2Parts, StoppedInv
<1> QED  BY <1>7, <1>8, <1>9, <1>10 DEF P2Parts

LEMMA CommandKeeps ==
  ASSUME P2Flags, P2Parts, Command
  PROVE  P2Parts'
<1>1. /\ mover = "start" /\ mover' = "spin" /\ Moves
      /\ ~InZone(Target(val_P))
      /\ drive' = Way(Target(val_P) - val_P)
      /\ UNCHANGED <<gotopos, relmove, main, status, val_P, turned, start>>
  BY DEF Command, options
<1>2. (said' <=> drive' = 0) /\ (is_running' <=> is_running)
  BY Zenon DEF Command
<1>3. P2Others /\ turned = 0 /\ val_P = start /\ is_running
  BY <1>1, P2Bounds DEF P2Parts, AtRestInv, PositionInv, P2Others
<1>4. drive' = Course /\ Course \in 0 - HalfCircle .. HalfCircle
  BY <1>1, <1>3, CourseShort DEF Course
<1>5. P2Others' /\ PositionInv'
  BY <1>1, <1>3, <1>4, P2Bounds DEF P2Others, PositionInv
<1>6. AtRestInv' /\ TurningInv'
  BY <1>1, <1>3, <1>4, P2Bounds
     DEF AtRestInv, TurningInv, Course, Target, Moves, InZone
<1>7. StoppedInv'
  BY <1>1, <1>2, <1>3 DEF P2Parts, StoppedInv
<1> QED  BY <1>5, <1>6, <1>7 DEF P2Parts

LEMMA ProgramKeeps ==
  ASSUME P2Flags, P2Parts,
         \/ Idle \/ Refuse \/ Released
         \/ ReadController \/ Leave \/ Ends \/ UNCHANGED p2_vars
  PROVE  P2Parts'
<1> USE P2Bounds
    DEF P2Parts, P2Others, AtRestInv, TurningInv, PositionInv, StoppedInv,
        Course, Target, Moves, InZone, options, table
<1>1. CASE Idle
  BY <1>1 DEF Idle
<1>2. CASE Refuse
  <2>1. main' = "exit" /\ status' \in {-1, -10}
    BY <1>2 DEF Refuse, Quit
  <2>2. UNCHANGED <<gotopos, relmove, mover, is_running, val_P, drive, said,
                    turned, start>>
    BY <1>2, Zenon DEF Refuse, Quit
  <2> QED  BY <2>1, <2>2
<1>3. CASE Released
  BY <1>3 DEF Released
<1>4. CASE ReadController
  BY <1>4 DEF ReadController
<1>5. CASE Leave
  BY <1>5 DEF Leave
<1>6. CASE Ends
  BY <1>6 DEF Ends, Quit
<1>7. CASE UNCHANGED p2_vars
  BY <1>7 DEF p2_vars
<1> QED  BY <1>1, <1>2, <1>3, <1>4, <1>5, <1>6, <1>7

LEMMA SpecP2 == P2Spec => []P2IInv
<1>1. P2Flags /\ P2Parts /\ [P2Next]_p2_vars => P2Flags' /\ P2Parts'
  BY P2FlagsKept, TurningKeeps, CommandKeeps, ProgramKeeps DEF P2Next
<1> QED  BY <1>1, P2AtFirst, P2IInvParts, PTL DEF P2Spec

(* A client that says 0 has brought the table to the angle asked for, the  *)
(* short way (client-p2/main.c:128-275).                                   *)
THEOREM ZeroMeansThere == P2Spec => []ArrivedAtExit
<1>1. P2IInv => ArrivedAtExit
  <2> SUFFICES ASSUME P2IInv, main = "exit", status = 0
               PROVE  /\ drive = 0
                      /\ Moves => val_P = (Target(start) + Circle) % Circle
                      /\ Magnitude(turned) <= HalfCircle
                      /\ gotopos > 0 => ~InZone(val_P)
    BY DEF ArrivedAtExit
  <2>0. P2Flags /\ P2Parts
    BY P2IInvParts
  <2>1. ~is_running /\ drive = 0 /\ mover # "start" /\ Moves
    BY <2>0 DEF P2Parts, StoppedInv, AtRestInv
  <2>2. turned = Course /\ ~InZone(Target(start))
    BY <2>0, <2>1, P2Bounds DEF P2Parts, P2Others, TurningInv
  <2>3. P2Others
    BY <2>0 DEF P2Parts
  <2>4. turned \in 0 - HalfCircle .. HalfCircle
        /\ start + turned \in {Target(start) - Circle, Target(start),
                               Target(start) + Circle}
        /\ Target(start) + Circle \in 0 .. 3 * Circle - 1
        /\ Target(start) \in Int
    BY <2>1, <2>2, <2>3, CourseShort
  <2>5. val_P = (Target(start) + Circle) % Circle
    <3> DEFINE y == Target(start) + Circle
    <3>1. /\ y % Circle \in 0 .. Circle - 1
          /\ y % Circle \in {y, y - Circle, y - 2 * Circle}
      BY <2>4, OneCircle
    <3>2. /\ val_P \in 0 .. Circle - 1
          /\ val_P \in {start + turned, start + turned + Circle,
                        start + turned - Circle}
      BY <2>0, <2>3 DEF P2Parts, PositionInv, P2Others
    <3>3. start \in Int /\ turned \in Int
      BY <2>3, <2>4, P2Bounds DEF P2Others
    <3>4. y \in Int /\ start + turned \in {y - 2 * Circle, y - Circle, y}
      BY <2>4, P2Bounds
    <3> HIDE DEF y
    <3>5. ASSUME NEW m \in 0 .. Circle - 1,
                 m \in {y, y - Circle, y - 2 * Circle}
          PROVE  m = val_P
      BY ONLY <3>2, <3>3, <3>4, <3>5, P2Bounds
    <3> QED  BY <3>1, <3>5 DEF y
  <2>6. Magnitude(turned) <= HalfCircle
    BY <2>4, P2Bounds DEF Magnitude
  <2>7. gotopos > 0 => ~InZone(val_P)
    <3> SUFFICES ASSUME gotopos > 0 PROVE ~InZone(val_P)
      OBVIOUS
    <3>1. gotopos \in 1 .. Circle /\ Target(start) = gotopos
      BY <2>3, P2Bounds DEF P2Others, Target
    <3> DEFINE y == gotopos + Circle
    <3>2. y \in 0 .. 3 * Circle - 1 /\ val_P = y % Circle
      BY <2>5, <3>1, P2Bounds
    <3> HIDE DEF y
    <3>3. /\ val_P \in 0 .. Circle - 1
          /\ val_P \in {y, y - Circle, y - 2 * Circle}
      BY <3>2, OneCircle
    <3>4. val_P = gotopos \/ val_P = 0
      BY <3>1, <3>3, P2Bounds DEF y
    <3> QED  BY <2>2, <3>1, <3>4, P2Bounds DEF InZone
  <2> QED  BY <2>1, <2>5, <2>6, <2>7
<1> QED  BY <1>1, SpecP2, PTL

-----------------------------------------------------------------------------
(* All of them together (MCPrograms).                                      *)

(* Each program does what its own module says, or nothing.                 *)
OwnSteps ==
  /\ [TempNext]_temp_vars
  /\ [HeaderNext]_header_vars
  /\ [RotatorNext]_rotator_vars
  /\ [P2Next]_p2_vars
  /\ [JsonNext]_json_vars
  /\ [StellNext]_stell_vars
  /\ [RainNext]_rain_vars
  /\ [PaceNext]_pace_vars
  /\ [SelectNext]_select_vars
  /\ [DatNext]_dat_vars
  /\ [ShmNext]_shm_vars
  /\ [Next]_vars

(* A step of one program is none of the others.                            *)
LEMMA OneProgramSteps == [ProgramsNext]_programs_vars => OwnSteps
<1> SUFFICES ASSUME [ProgramsNext]_programs_vars PROVE OwnSteps
    OBVIOUS
<1>1. CASE unit = "MirTemp" /\ TempNext /\ MirTempOnly
  BY <1>1 DEF MirTempOnly, OwnSteps
<1>2. CASE unit = "HeaderFile" /\ HeaderNext /\ HeaderFileOnly
  BY <1>2 DEF HeaderFileOnly, OwnSteps
<1>3. CASE unit = "Rotator" /\ RotatorNext /\ RotatorOnly
  BY <1>3 DEF RotatorOnly, OwnSteps
<1>4. CASE unit = "MoveP2" /\ P2Next /\ MoveP2Only
  BY <1>4 DEF MoveP2Only, OwnSteps
<1>5. CASE unit = "JsonServer" /\ JsonNext /\ JsonServerOnly
  BY <1>5 DEF JsonServerOnly, OwnSteps
<1>6. CASE unit = "Stellarium" /\ StellNext /\ StellariumOnly
  BY <1>6 DEF StellariumOnly, OwnSteps
<1>7. CASE unit = "Precip" /\ RainNext /\ PrecipOnly
  BY <1>7 DEF PrecipOnly, OwnSteps
<1>8. CASE unit = "NetPace" /\ PaceNext /\ NetPaceOnly
  BY <1>8 DEF NetPaceOnly, OwnSteps
<1>9. CASE unit = "QuickSelect" /\ SelectNext /\ QuickSelectOnly
  BY <1>9 DEF QuickSelectOnly, OwnSteps
<1>10. CASE unit = "DatFile" /\ DatNext /\ DatOnly
  BY <1>10 DEF DatOnly, OwnSteps
<1>11. CASE unit = "ShmBlock" /\ ShmNext /\ ShmBlockOnly
  BY <1>11 DEF ShmBlockOnly, OwnSteps
<1>12. CASE unit = "SingleInstance" /\ Next /\ SingleInstanceOnly
  BY <1>12 DEF SingleInstanceOnly, OwnSteps
<1>13. CASE UNCHANGED programs_vars
  BY <1>13 DEF programs_vars, OwnSteps
<1> QED
  BY <1>1, <1>2, <1>3, <1>4, <1>5, <1>6, <1>7, <1>8, <1>9, <1>10, <1>11,
     <1>12, <1>13 DEF ProgramsNext

(* The composition leaves every program its behaviours: what was proved of *)
(* a module's specification holds of the run in which TLC checks all.      *)
THEOREM ProgramsTogether ==
  ProgramsSpec =>
    /\ TempSpec /\ HeaderSpec /\ RotatorSpec /\ P2Spec
    /\ JsonSpec /\ StellSpec /\ RainSpec /\ PaceSpec
    /\ SelectSpec /\ DatSpec /\ ShmSpec /\ Spec
<1>1. ProgramsInit =>
        /\ TempInit /\ HeaderInit /\ RotatorInit /\ P2Init
        /\ JsonInit /\ StellInit /\ RainInit /\ PaceInit
        /\ SelectInit /\ DatInit /\ ShmInit /\ Init
  BY DEF ProgramsInit
<1> QED
  BY <1>1, OneProgramSteps, PTL
     DEF ProgramsSpec, OwnSteps, TempSpec, HeaderSpec, RotatorSpec, P2Spec,
         JsonSpec, StellSpec, RainSpec, PaceSpec, SelectSpec, DatSpec,
         ShmSpec, Spec

(* The type invariants: each is a part of what its program keeps.          *)
THEOREM TypesAlways == ProgramsSpec => []TypesOK
<1>1. TempSpec => []TempTypeOK
  <2>1. TempIInv => TempTypeOK
    BY DEF TempIInv
  <2> QED  BY <2>1, SpecTemp, PTL
<1>2. HeaderSpec => []HeaderTypeOK
  <2>1. HeaderIInv => HeaderTypeOK
    BY DEF HeaderIInv
  <2> QED  BY <2>1, HeaderInvariance, PTL
<1>3. RotatorSpec => []RotatorTypeOK
  <2>1. RotatorIInv => RotatorTypeOK
    BY DEF RotatorIInv
  <2> QED  BY <2>1, RotatorAtFirst, RotatorInductive, PTL DEF RotatorSpec
<1>4. P2Spec => []P2TypeOK
  <2>1. P2IInv => P2TypeOK
    BY DEF P2IInv
  <2> QED  BY <2>1, SpecP2, PTL
<1>5. JsonSpec => []JsonTypeOK
  <2>1. JsonIInv => JsonTypeOK
    BY DEF JsonIInv
  <2> QED  BY <2>1, JsonInvariance, PTL
<1>6. StellSpec => []StellTypeOK
  <2>1. StellIInv => StellTypeOK
    BY DEF StellIInv
  <2> QED  BY <2>1, StellAtFirst, StellInductive, PTL DEF StellSpec
<1>7. RainSpec => []RainTypeOK
  <2>1. RainIInv => RainTypeOK
    BY DEF RainIInv
  <2> QED  BY <2>1, SpecRain, PTL
<1>8. PaceSpec => []PaceTypeOK
  <2>1. PaceIInv => PaceTypeOK
    BY DEF PaceIInv
  <2> QED  BY <2>1, PaceInvariance, PTL
<1>9. SelectSpec => []SelectTypeOK
  <2>1. SelectIInv => SelectTypeOK
    BY DEF SelectIInv
  <2> QED  BY <2>1, SelectAtFirst, SelectInductive, PTL DEF SelectSpec
<1>10. DatSpec => []DatTypeOK
  <2>1. DatIInv => DatTypeOK
    BY DEF DatIInv
  <2> QED  BY <2>1, DatAtFirst, DatInductive, PTL DEF DatSpec
<1>11. ShmSpec => []ShmTypeOK
  <2>1. ShmIInv => ShmTypeOK
    BY DEF ShmIInv
  <2> QED  BY <2>1, SpecShm, PTL
<1>12. Spec => []TypeOK
  <2>1. IInv => TypeOK
    BY DEF IInv
  <2> QED  BY <2>1, InstanceInvariance, PTL
<1> QED
  BY <1>1, <1>2, <1>3, <1>4, <1>5, <1>6, <1>7, <1>8, <1>9, <1>10, <1>11,
     <1>12, ProgramsTogether, PTL DEF TypesOK

(* Every safety property that the run of the programs together checks.     *)
THEOREM ProgramsSafe ==
  ProgramsSpec =>
    /\ [](NoStaleTemperature /\ NoWindUp /\ ArrivedAtExit)
    /\ [](NoZombieForgotten /\ AskedIsAnswered /\ OkMeansObeyed)
    /\ [](ToldWhileItRains /\ LinesAreRows /\ GapBounded)
    /\ [](StaysInside /\ MedianAtEnd /\ ReadersSeeBridge /\ NoOldCommands)
    /\ [](OneInstance /\ PidfileNamesIt /\ RefusedForCause /\ WholeHeader)
    /\ TwoAtATime
BY ProgramsTogether, TrustedIsRecent, CablesSafe, ZeroMeansThere,
   EveryChildReaped, WholeNamesAnswered, ZeroMeansObeyed, RainIsTold,
   EachLineIsRow, GapIsBounded, LoopsStayInside, MedianReturned,
   RightBlockIsLive, OldCommandsDropped, MotorExclusive, PidfileRight,
   RefusalJustified, HeaderIsWhole, PacketsPaced, PTL
=============================================================================
