--------------------------- MODULE MeteoCanProofs ---------------------------
(***************************************************************************)
(* What the old meteo daemon promises of the flag SENSOR_T2 and of val_T2, *)
(* for any T2 and any time-outs.                                           *)
(***************************************************************************)
EXTENDS MeteoCan, TLAPS

-----------------------------------------------------------------------------
(* The inductive invariant.                                                *)

(* Between taking a temperature and storing it the flag is as TakeT2 left  *)
(* it, or was raced for (for OnlySensorT2).                                *)
PublishInv == pc = "publish" /\ T2 = "clamped" => ~SENSOR_T2 \/ raced

(* A daemon in the middle of a pass that is to stop got the signal there;  *)
(* and what stands, or would be put back, when the flag has been cleared   *)
(* for good is due to a load before that (for ExitLeavesNoFlag).           *)
LateInv ==
  /\ stop_prog /\ pc \in {"receive", "publish"} => late
  /\ late => stop_prog
  /\ pc \in {"leaving", "gone"} /\ (SENSOR_T2 \/ loaded = "set")
       => late \/ ~BothOn \/ before

(* The time-out that runs, and whether it has run out.                     *)
Overdue == IF start THEN age > Silence ELSE age > RetryAfter

(* The flag does not stand longer than the clock of that time-out says,    *)
(* and no pass leaves it standing when the time-out has run out (for       *)
(* SilenceClearsInTime).                                                   *)
StandInv ==
  /\ standing <= IF start THEN RetryAfter + 1 + age ELSE age
  /\ Overdue /\ ~ticked /\ pc \notin {"check", "gone"} => standing = 0
  /\ start /\ age > Silence + 1 => standing <= 1
  /\ pc = "leaving" => standing = 0
  /\ pc = "check" /\ ~start => age <= RetryAfter \/ stop_prog
  /\ pc # "control" => ~ticked

IInv == TypeOK /\ PublishInv /\ LateInv /\ StandInv

(* The flags among the variables, and the others.                          *)
FlagTypes ==
  /\ PEP_A_On \in BOOLEAN /\ SENSOR_T2 \in BOOLEAN /\ start \in BOOLEAN
  /\ stop_prog \in BOOLEAN /\ ticked \in BOOLEAN
  /\ late \in BOOLEAN /\ raced \in BOOLEAN /\ before \in BOOLEAN
OtherTypes ==
  /\ PEP_R_On \in {"off", "inp", "on"}
  /\ val_T2 \in {"none", "sensor", "clamped"}
  /\ pc \in {"control", "check", "leaving", "receive", "publish", "gone"}
  /\ age \in 0 .. MaxAge /\ T2 \in {"none", "sensor", "clamped"}
  /\ adc \subseteq Adcs /\ health \in {"all", "others", "none"}
  /\ frame \in Frames \cup {"none"} /\ loaded \in {"none", "set", "clear"}
  /\ standing \in 0 .. MaxStanding
Parts == OtherTypes /\ PublishInv /\ LateInv /\ StandInv

LEMMA Numbers ==
  /\ RetryAfter \in Nat /\ Silence \in Nat /\ Silence < RetryAfter
  /\ MaxAge = RetryAfter + 1 /\ MaxStanding \in Nat
  /\ ClearedAfter = RetryAfter + Silence + 2
  BY TimesAssumption, StandingAssumption DEF MaxAge, ClearedAfter

LEMMA IInvParts == IInv <=> FlagTypes /\ Parts
  BY DEF IInv, TypeOK, FlagTypes, OtherTypes, Parts

LEMMA InitIInv == Init => IInv
<1> SUFFICES ASSUME Init PROVE IInv
  OBVIOUS
<1>1. FlagTypes
  BY Zenon DEF Init, FlagTypes
<1>2. OtherTypes
  BY Numbers DEF Init, OtherTypes
<1>3. PublishInv /\ LateInv /\ StandInv
  BY Numbers DEF Init, PublishInv, LateInv, StandInv
<1> QED  BY <1>1, <1>2, <1>3, IInvParts DEF Parts

LEMMA FlagsKept == FlagTypes /\ [Next]_vars => FlagTypes'
<1> SUFFICES ASSUME FlagTypes, [Next]_vars
             PROVE  FlagTypes'
  OBVIOUS
<1> USE DEF FlagTypes, shm, daemon, world, history
<1>1. CASE \/ \E delivered \in SUBSET Adcs :
                StartAdc(delivered) \/ SendStop(delivered)
           \/ GoOn \/ ControllersOff \/ ExitWhenOff
  <2>1. ASSUME NEW delivered \in SUBSET Adcs,
               StartAdc(delivered) \/ SendStop(delivered)
        PROVE  FlagTypes'
    <3>1. /\ start' \in {TRUE, FALSE, start} /\ ticked' \in {FALSE, ticked}
          /\ UNCHANGED <<PEP_A_On, SENSOR_T2, stop_prog, late, raced, before>>
      BY <2>1 DEF StartAdc, SendStop, Control
    <3> QED
      BY <3>1, Zenon
  <2>2. CASE GoOn \/ ControllersOff \/ ExitWhenOff
    BY <2>2, Zenon DEF GoOn, ControllersOff, ExitWhenOff, Control
  <2> QED
    BY <1>1, <2>1, <2>2
<1>2. CASE NothingToStop \/ ClearFlag
  <2>1. before' = before \/ before' = (loaded = "set")
    BY <1>2, Zenon DEF NothingToStop, ClearFlag
  <2>2. before' \in BOOLEAN
    BY <2>1, Zenon
  <2> QED
    BY <1>2, <2>2, Zenon DEF NothingToStop, ClearFlag
<1>3. CASE ReadStep \/ ReceiveDone
  BY <1>3, Zenon DEF ReadStep, SkipFrame, TakeT2, PublishT2, ReceiveDone
<1>4. CASE Signal \/ Tick \/ Break \/ SwitchA \/ SwitchR
  <2>1. CASE Signal
    <3>1. late' = (pc \in {"receive", "publish"})
      BY <2>1 DEF Signal
    <3>2. late' \in BOOLEAN
      BY <3>1
    <3> QED
      BY <2>1, <3>2, Zenon DEF Signal
  <2>2. CASE Tick \/ Break \/ SwitchA \/ SwitchR
    BY <2>2, Zenon DEF Tick, Break, SwitchA, SwitchR
  <2> QED
    BY <1>4, <2>1, <2>2
<1>5. CASE \/ \E f \in Frames : Convert(f)
           \/ OtherLoads \/ OtherStores \/ UNCHANGED vars
  BY <1>5, Zenon DEF Convert, OtherLoads, OtherStores, vars
<1> QED  BY <1>1, <1>2, <1>3, <1>4, <1>5 DEF Next, ControlStep

(* The control lines keep the rest.                                        *)
LEMMA ControlKeeps ==
  ASSUME IInv, ControlStep
  PROVE  Parts'
<1>0. FlagTypes /\ Parts
  BY IInvParts
<1> USE Numbers
    DEF Parts, OtherTypes, PublishInv, LateInv, StandInv, Overdue, shm, world,
        history
<1>1. ASSUME NEW delivered \in SUBSET Adcs, StartAdc(delivered) PROVE Parts'
  BY <1>0, <1>1 DEF StartAdc, Control
<1>2. ASSUME NEW delivered \in SUBSET Adcs, SendStop(delivered) PROVE Parts'
  <2>1. /\ pc = "leaving" /\ adc' \subseteq Adcs
        /\ UNCHANGED <<shm, T2, stop_prog, health, frame, loaded, ticked,
                       history>>
        /\ \/ stop_prog /\ pc' = "gone" /\ UNCHANGED <<start, age>>
           \/ ~stop_prog /\ pc' = "receive" /\ start' = FALSE /\ age' = 0
    BY <1>0, <1>2 DEF SendStop
  <2>2. LateInv'
    BY <1>0, <2>1 DEF BothOn
  <2>3. StandInv' /\ PublishInv'
    BY <1>0, <2>1
  <2>4. OtherTypes'
    BY <1>0, <2>1
  <2> QED
    BY <2>2, <2>3, <2>4
<1>3. CASE GoOn
  BY <1>0, <1>3 DEF GoOn, Control
<1>4. CASE ControllersOff
  <2>1. ~BothOn' /\ standing' = 0
    BY <1>4 DEF ControllersOff, Stands, BothOn
  <2> QED
    BY <1>0, <1>4, <2>1 DEF ControllersOff, Control
<1>5. CASE ExitWhenOff
  <2>1. ~BothOn'
    BY <1>5 DEF ExitWhenOff, BothOn
  <2> QED
    BY <1>0, <1>5, <2>1 DEF ExitWhenOff, Control
<1>6. CASE NothingToStop
  BY <1>0, <1>6 DEF NothingToStop, MustStop
<1>7. CASE ClearFlag
  <2>1. /\ pc' = "leaving" /\ ~SENSOR_T2' /\ (loaded = "set" => before')
        /\ standing' = 0 /\ pc = "check"
        /\ UNCHANGED <<PEP_R_On, val_T2, start, age, T2, stop_prog, world,
                       late, raced>>
    BY <1>7, Zenon DEF ClearFlag
  <2> QED
    BY <1>0, <2>1
<1> QED
  BY <1>1, <1>2, <1>3, <1>4, <1>5, <1>6, <1>7 DEF ControlStep

(* So does the loop over the frames, ...                                   *)
LEMMA ReadKeeps ==
  ASSUME IInv, ReadStep \/ ReceiveDone
  PROVE  Parts'
<1>0. FlagTypes /\ Parts
  BY IInvParts
<1> USE Numbers
    DEF Parts, OtherTypes, PublishInv, LateInv, StandInv, Overdue, Frames,
        Codes, shm, world, history
<1>1. CASE SkipFrame
  BY <1>0, <1>1 DEF SkipFrame
<1>2. CASE TakeT2
  <2>1. pc' = "publish" /\ (T2' = "clamped" => ~SENSOR_T2')
    BY <1>2, Zenon DEF TakeT2
  <2>2. LateInv' /\ StandInv'
    BY <1>0, <1>2 DEF TakeT2
  <2>3. OtherTypes'
    BY <1>0, <1>2 DEF TakeT2
  <2> QED  BY <2>1, <2>2, <2>3
<1>3. CASE PublishT2
  BY <1>0, <1>3 DEF PublishT2
<1>4. CASE ReceiveDone
  BY <1>0, <1>4 DEF ReceiveDone
<1> QED
  BY <1>1, <1>2, <1>3, <1>4 DEF ReadStep

(* ... and everything else.                                                *)
LEMMA OthersKeep ==
  ASSUME IInv,
         \/ Signal \/ Tick \/ Break \/ SwitchA \/ SwitchR
         \/ \E f \in Frames : Convert(f)
         \/ OtherLoads \/ OtherStores \/ UNCHANGED vars
  PROVE  Parts'
<1>0. FlagTypes /\ Parts
  BY IInvParts
<1> USE Numbers
    DEF Parts, OtherTypes, PublishInv, LateInv, StandInv, Overdue, Frames,
        Codes, shm, daemon, world, history
<1>1. CASE Signal
  <2>1. /\ ~stop_prog /\ stop_prog'
        /\ pc \in {"receive", "publish"} => late'
        /\ UNCHANGED <<PEP_A_On, PEP_R_On, SENSOR_T2, val_T2, pc, start, age,
                       T2, world, raced, before, standing>>
    BY <1>1, Zenon DEF Signal
  <2>2. ~late
    BY <1>0, <2>1
  <2> QED  BY <1>0, <2>1, <2>2 DEF BothOn
<1>2. CASE Tick
  <2>1. /\ pc = "control" /\ ~ticked /\ ticked' /\ pc' = pc
        /\ age' = IF age < MaxAge THEN age + 1 ELSE age
        /\ standing' \in {standing, standing + 1}
        /\ standing' \in 0 .. MaxStanding
        /\ UNCHANGED <<shm, start, T2, stop_prog, adc, health, frame, loaded,
                       late, raced, before>>
    BY <1>0, <1>2 DEF Tick
  <2>2. CASE Overdue
    BY <1>0, <2>1, <2>2 DEF BothOn
  <2>3. CASE ~Overdue
    BY <1>0, <2>1, <2>3 DEF BothOn
  <2> QED  BY <2>2, <2>3
<1>3. CASE Break
  BY <1>0, <1>3 DEF Break, BothOn
<1>4. CASE SwitchA
  <2>1. standing' \in {0, standing}
    BY <1>4 DEF SwitchA, Stands
  <2> QED  BY <1>0, <1>4, <2>1 DEF SwitchA
<1>5. CASE SwitchR
  <2>1. standing' \in {0, standing} /\ adc' \subseteq Adcs
    BY <1>0, <1>5 DEF SwitchR, Stands
  <2> QED  BY <1>0, <1>5, <2>1 DEF SwitchR
<1>6. ASSUME NEW f \in Frames, Convert(f) PROVE Parts'
  BY <1>0, <1>6 DEF Convert, BothOn
<1>7. CASE OtherLoads
  BY <1>0, <1>7 DEF OtherLoads, BothOn
<1>8. CASE OtherStores
  <2>1. /\ raced => raced'
        /\ pc = "publish" /\ SENSOR_T2' # SENSOR_T2 => raced'
        /\ SENSOR_T2' => loaded = "set"
        /\ loaded' = "none"
        /\ UNCHANGED <<PEP_A_On, PEP_R_On, val_T2, daemon, adc, health, frame,
                       ticked, late, before>>
    BY <1>8, Zenon DEF OtherStores
  <2>2. SENSOR_T2 \in BOOLEAN /\ SENSOR_T2' \in BOOLEAN
    BY <1>0, <1>8, Zenon DEF OtherStores, FlagTypes
  <2>3. standing' \in {0, standing}
    BY <1>8 DEF OtherStores, Stands
  <2>4. PublishInv'
    BY <1>0, <2>1, <2>2, Zenon DEF PublishInv, daemon
  <2>5. LateInv'
    BY <1>0, <2>1 DEF BothOn
  <2>6. OtherTypes' /\ StandInv'
    BY <1>0, <2>1, <2>3
  <2> QED  BY <2>4, <2>5, <2>6
<1>9. CASE UNCHANGED vars
  BY <1>0, <1>9 DEF vars, BothOn
<1> QED
  BY <1>1, <1>2, <1>3, <1>4, <1>5, <1>6, <1>7, <1>8, <1>9

LEMMA IInvInductive == IInv /\ [Next]_vars => IInv'
<1> SUFFICES ASSUME IInv, [Next]_vars
             PROVE  FlagTypes' /\ Parts'
  BY DEF IInv, TypeOK, FlagTypes, OtherTypes, Parts
<1>1. FlagTypes'
  BY IInvParts, FlagsKept
<1> QED  BY <1>1, ControlKeeps, ReadKeeps, OthersKeep DEF Next

LEMMA SpecIInv == Spec => []IInv
  BY InitIInv, IInvInductive, PTL DEF Spec

(* The daemon's variables keep to their values (bta_meteo_can.c:60-330).   *)
THEOREM MeteoCanTypes == Spec => []TypeOK
<1>1. IInv => TypeOK
  BY DEF IInv
<1> QED  BY <1>1, SpecIInv, PTL

(* T2 in shared memory is never a bound that only stands for "out of       *)
(* range", but for another program's store between the daemon's two        *)
(* (bta_meteo_can.c:253-275).                                              *)
THEOREM ClampedT2Kept == Spec => OnlySensorT2
<1>1. IInv /\ [Next]_vars
        => [val_T2' = "clamped" /\ val_T2 # "clamped" => raced]_vars
  <2> SUFFICES ASSUME IInv, [Next]_vars,
                      val_T2' = "clamped", val_T2 # "clamped"
               PROVE  raced
    OBVIOUS
  <2>1. CASE PublishT2
    BY <2>1 DEF PublishT2, IInv, TypeOK, PublishInv
  <2>2. CASE ~PublishT2
    <3>1. UNCHANGED val_T2
      BY <2>2
         DEF Next, vars, ControlStep, ReadStep, StartAdc, GoOn,
             ControllersOff, ExitWhenOff, NothingToStop, ClearFlag, SendStop,
             SkipFrame, TakeT2, ReceiveDone, Signal, Tick, Break, SwitchA,
             SwitchR, Convert, OtherLoads, OtherStores, shm
    <3> QED  BY <3>1
  <2> QED  BY <2>1, <2>2
<1> QED  BY <1>1, SpecIInv, PTL DEF Spec, OnlySensorT2

(* No flag says that T2 is fresh when the daemon has been stopped, nor     *)
(* does any other program's store bring it back, but for the cases that    *)
(* ExitLeavesNoFlag names (bta_meteo_can.c:169-203).                       *)
THEOREM FlagGoesAtExit == Spec => []ExitLeavesNoFlag
<1>1. IInv => ExitLeavesNoFlag
  BY DEF IInv, LateInv, ExitLeavesNoFlag
<1> QED  BY <1>1, SpecIInv, PTL

(* No flag outlives the last frame by more than the two time-outs, for any *)
(* two time-outs, and whatever order frames, lost commands, signals and    *)
(* other programs' stores come in (bta_meteo_can.c:145-201).               *)
THEOREM FlagGoesInTime == Spec => []SilenceClearsInTime
<1>1. IInv => SilenceClearsInTime
  BY Numbers DEF IInv, TypeOK, StandInv, SilenceClearsInTime
<1> QED  BY <1>1, SpecIInv, PTL
=============================================================================
