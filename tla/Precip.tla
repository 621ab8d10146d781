------------------------------- MODULE Precip -------------------------------
(***************************************************************************)
(* How the old meteo daemon (olddaemon/bta_meteo_can.c) handles the rain   *)
(* sensor: the code of PEP-RK's inputs comes in a CAN frame, one bit of it *)
(* says that the sensor feels rain or fog.  The daemon warns the operator, *)
(* sounds an alarm when observations are on, and stores Precip_time in     *)
(* shared memory for other programs to see.  All the times it compares are *)
(* M_time, the control system's clock in seconds, which does not step back *)
(* here.                                                                   *)
(***************************************************************************)
EXTENDS Integers

CONSTANTS
  MaxTime,  \* bound: M_time
  Warn,     \* warnings are further apart than this               (600 s)
  Again,    \* Precip_time is left alone for this long             (60 s)
  Pause,    \* so are the alarms                                   (30 s)
  Sure      \* the sensor must have been on for longer than this    (3 s)

ASSUME RainAssumption ==
  /\ {MaxTime, Warn, Again, Pause, Sure} \subseteq Nat
  /\ Sure < Pause /\ Pause < Again /\ Again < Warn

Times == 0 .. MaxTime
Long == MaxTime + 1   \* bound: histories count no further

VARIABLES
  M_time,        \* shared memory: the time of day
  Precip_time,   \* shared memory: when there was rain
  observing,     \* shared memory: telescope and dome are at work
  o_rcode,       \* the sensor's bit in the frame before
  off_time,      \* M_time of the last frame without the bit
  last_msg_time, \* M_time of the last message
  fresh,         \* a frame came in this unit of time
  streak,        \* history: time that frames have had the bit
  since_precip,  \* history: time since Precip_time was stored
  since_fault,   \* history: time since the last alarm
  alarm          \* history: the last step sounded an alarm

rain_daemon == <<o_rcode, off_time, last_msg_time>>
rain_history == <<streak, since_precip, since_fault, alarm>>
rain_vars == <<M_time, Precip_time, observing, rain_daemon, fresh,
               rain_history>>

RainInit ==
  /\ M_time \in Times
  /\ Precip_time = 0 /\ observing \in BOOLEAN
  /\ o_rcode = FALSE /\ off_time = 0 /\ last_msg_time = 0
  /\ fresh = FALSE
  /\ streak = 0 /\ since_precip = Long /\ since_fault = Long /\ alarm = FALSE

Longer(n) == IF n < Long THEN n + 1 ELSE n
fabs(n) == IF n < 0 THEN 0 - n ELSE n

(* Written fabs(a - b > c): the absolute value of a truth value.           *)
MoreThanAgo(c, t) == M_time - t > c

-----------------------------------------------------------------------------
(* A frame without the bit.                                                *)
Off ==
  /\ o_rcode' = FALSE
  /\ off_time' = M_time
  /\ alarm' = FALSE /\ streak' = 0
  /\ UNCHANGED <<M_time, Precip_time, observing, last_msg_time, since_precip,
                 since_fault>>

(* The first frame with the bit: a warning.                                *)
JustOn ==
  /\ ~o_rcode /\ o_rcode' = TRUE
  /\ last_msg_time' = IF MoreThanAgo(Warn, last_msg_time) THEN M_time
                      ELSE last_msg_time
  /\ alarm' = FALSE
  /\ UNCHANGED <<M_time, Precip_time, observing, off_time, streak,
                 since_precip, since_fault>>

Alarm == observing /\ MoreThanAgo(Pause, last_msg_time)
Informs == fabs(M_time - off_time) > Sure

(* A frame with the bit after another, long enough after Precip_time: the  *)
(* alarm, the time of the message and Precip_time.                         *)
React(told) ==
  /\ o_rcode /\ UNCHANGED o_rcode
  /\ MoreThanAgo(Again, Precip_time)
  /\ alarm' = Alarm
  /\ since_fault' = IF Alarm THEN 0 ELSE since_fault
  /\ last_msg_time' = IF Alarm THEN M_time ELSE last_msg_time
  /\ Precip_time' = IF told THEN M_time ELSE Precip_time
  /\ since_precip' = IF told THEN 0 ELSE since_precip
  /\ UNCHANGED <<M_time, observing, off_time, streak>>

(* Mutant: Precip_time is stored only with the alarm.                      *)
StillOnNested == React(Alarm /\ Informs)

(* The second frame in a row with the bit, or a later one.                 *)
StillOn == React(Informs)

(* The same, soon after Precip_time: nothing.                              *)
StillOnKnown ==
  /\ o_rcode /\ UNCHANGED o_rcode
  /\ ~MoreThanAgo(Again, Precip_time)
  /\ alarm' = FALSE
  /\ UNCHANGED <<M_time, Precip_time, observing, off_time, last_msg_time,
                 streak, since_precip, since_fault>>

(* PEP-RK sends a frame.                                                   *)
Frame ==
  /\ fresh' = TRUE
  /\ Off \/ JustOn \/ StillOn \/ StillOnKnown

(* A unit of time, with a frame in every one.                              *)
RainTick ==
  /\ fresh /\ fresh' = FALSE
  /\ M_time < MaxTime /\ M_time' = M_time + 1
  /\ streak' = IF o_rcode THEN Longer(streak) ELSE 0
  /\ since_precip' = Longer(since_precip)
  /\ since_fault' = Longer(since_fault)
  /\ alarm' = FALSE
  /\ UNCHANGED <<Precip_time, observing, rain_daemon>>

(* Observations begin or end.                                              *)
Observe ==
  /\ observing' = ~observing
  /\ UNCHANGED <<M_time, Precip_time, rain_daemon, fresh, streak,
                 since_precip, since_fault>>
  /\ alarm' = FALSE

RainNext == Frame \/ RainTick \/ Observe

RainSpec == RainInit /\ [][RainNext]_rain_vars

-----------------------------------------------------------------------------
(* Properties.                                                             *)

RainTypeOK ==
  /\ M_time \in Times /\ Precip_time \in Times /\ observing \in BOOLEAN
  /\ o_rcode \in BOOLEAN /\ off_time \in Times /\ last_msg_time \in Times
  /\ fresh \in BOOLEAN /\ alarm \in BOOLEAN
  /\ {streak, since_precip, since_fault} \subseteq 0 .. Long

(* A sensor that stays on is news no older than Again ("inform other       *)
(* programs", bta_meteo_can.c:288), however it flickered before.           *)
ToldWhileItRains ==
  streak > Again + Sure + 1 /\ fresh => since_precip <= Again

(* The alarm is sounded "no more often than once a minute"                 *)
(* (bta_meteo_can.c:282), the time for which Precip_time is left alone.    *)
AlarmOncePerMinute == [][alarm' => since_fault > Again]_rain_vars
=============================================================================
