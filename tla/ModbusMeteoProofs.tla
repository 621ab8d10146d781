------------------------- MODULE ModbusMeteoProofs -------------------------
(***************************************************************************)
(* Proofs about ModbusMeteo for any set of registers, any time-out and any *)
(* number of children killed.                                              *)
(***************************************************************************)
EXTENDS ModbusMeteo, TLAPS

-----------------------------------------------------------------------------
(* The inductive invariant.                                                *)

Listens == sure /\ child = "run"

(* The buffer: a request in it is the one on the bus, unless that has no   *)
(* answer, and an answer behind a request is the answer to it, unless its  *)
(* sum is wrong.                                                           *)
BufferInv ==
  Listens /\ Whole /\ buffer.req \in Asked =>
    IF buffer.ans = "none" THEN bus \in {buffer.req, "none"}
    ELSE buffer.ans \in {buffer.req, "bad"}

(* An answer that was heard is the last thing that was on the bus.         *)
AnsweredInv == Listens /\ buffer.ans # "none" => bus = "none"

(* A register that lastpar remembers: if a newer request is in the buffer  *)
(* it was not noticed yet, and if there is none, then what is on the bus   *)
(* or in the buffer is for this register.                                  *)
AskedInv ==
  Listens /\ lastpar # "none" =>
    IF ~Whole \/ (buffer.req = "none" /\ buffer.ans = "none")
    THEN bus \in {lastpar, "none"}
    ELSE IF buffer.req = "none" THEN buffer.ans \in {lastpar, "bad"}
    ELSE fresh \/ buffer.req = lastpar

IInv == TypeOK /\ BufferInv /\ AnsweredInv /\ AskedInv

Buffers == [req : Parts, ans : Parts, odd : BOOLEAN]

(* A register is none of the other things that are in the buffer.          *)
LEMMA Registers ==
  /\ "none" \notin Asked /\ "bad" \notin Asked /\ Regs \subseteq Asked
  /\ Asked \subseteq Parts /\ "none" \in Parts /\ "bad" \in Parts
  /\ Silence \in Nat /\ MaxCrashes \in Nat
BY ParametersAssumption DEF Asked, Parts

LEMMA EmptyAndOdd ==
  /\ Empty \in Buffers /\ Empty.req = "none" /\ Empty.ans = "none"
  /\ Empty.odd = FALSE
  /\ Odd \in Buffers /\ Odd.req = "none" /\ Odd.ans = "none" /\ Odd.odd
BY Registers DEF Buffers, Empty, Odd

(* What is added to the buffer is there, and what was there stays.         *)
LEMMA WithRequestIs ==
  ASSUME NEW b \in Buffers, NEW p \in Asked \cup {"bad"}
  PROVE  /\ WithRequest(b, p) \in Buffers
         /\ ~WithRequest(b, p).odd =>
              \/ WithRequest(b, p).req = p /\ WithRequest(b, p).ans = "none"
              \/ WithRequest(b, p).req = "bad"
<1>1. CASE b = Empty
  <2>1. WithRequest(b, p) = [b EXCEPT !.req = p]
    BY <1>1 DEF WithRequest
  <2> QED
    BY <1>1, <2>1, Registers, EmptyAndOdd DEF Buffers
<1>2. CASE b # Empty /\ b.req = "none" /\ b.ans # "none"
  <2>1. WithRequest(b, p) = [b EXCEPT !.req = "bad", !.ans = "bad"]
    BY <1>2 DEF WithRequest
  <2> QED
    BY <1>2, <2>1, Registers DEF Buffers
<1>3. CASE b # Empty /\ ~(b.req = "none" /\ b.ans # "none")
  <2>1. WithRequest(b, p) = Odd
    BY <1>3 DEF WithRequest
  <2> QED
    BY <2>1, EmptyAndOdd
<1> QED
  BY <1>1, <1>2, <1>3

LEMMA WithAnswerIs ==
  ASSUME NEW b \in Buffers, NEW p \in Asked \cup {"bad"}
  PROVE  /\ WithAnswer(b, p) \in Buffers
         /\ b.ans = "none" /\ ~b.odd =>
              /\ WithAnswer(b, p).req = b.req /\ WithAnswer(b, p).ans = p
              /\ ~WithAnswer(b, p).odd
         /\ ~(b.ans = "none" /\ ~b.odd) => WithAnswer(b, p) = Odd
BY Registers, EmptyAndOdd DEF WithAnswer, Buffers

-----------------------------------------------------------------------------
(* The invariant holds at the start.                                       *)
LEMMA InitIInv == Init => IInv
<1> SUFFICES ASSUME Init PROVE IInv
  OBVIOUS
<1>1. TypeOK
  <2>1. {fresh, tty, silent, sure} \subseteq BOOLEAN
    BY Zenon DEF Init
  <2>2. buffer \in Buffers
    BY EmptyAndOdd DEF Init
  <2>3. val \in [Regs -> Asked \cup {"none"}]
    BY DEF Init
  <2> QED
    BY <2>1, <2>2, <2>3, Registers DEF Init, TypeOK, Buffers
<1>2. BufferInv /\ AnsweredInv /\ AskedInv
  BY EmptyAndOdd DEF Init, BufferInv, AnsweredInv, AskedInv, Listens
<1> QED
  BY <1>1, <1>2 DEF IInv

(* Steps that change neither val nor what the child has read, or after     *)
(* which there is no child that listens.                                   *)
LEMMA IdleStep ==
  ASSUME IInv, TypeOK', val' = val, sure' = sure,
         \/ child' # "run"
         \/ child' = child /\ bus' = bus /\ UNCHANGED reading
  PROVE  IInv'
BY DEF IInv, BufferInv, AnsweredInv, AskedInv, Listens, Whole, reading

(* The guard, its child's birth and death, the device and the time.        *)
LEMMA ProcessStep ==
  ASSUME IInv,
         \/ GuardStep \/ Stop \/ Prctl \/ ConnectFails \/ NoSignal
         \/ LostConnection \/ Crash \/ Plug \/ Tick
  PROVE  IInv'
<1>1. TypeOK'
  <2>1. {fresh', tty', silent', sure'} \subseteq BOOLEAN
    BY Zenon
       DEF IInv, TypeOK, GuardStep, Fork, Wait, Sleep, Stop, Prctl,
           ConnectFails, NoSignal, LostConnection, Crash, Plug, Tick,
           processes, reading, line
  <2>2. /\ UNCHANGED <<val, lastpar, buffer, bus>>
        /\ master' \in {"fork", "wait", "sleep", "gone"}
        /\ child' \in {"none", "new", "connect", "run"}
        /\ flags' \in {flags, {}}
    BY DEF IInv, TypeOK, GuardStep, Fork, Wait, Sleep, Stop, Prctl,
           ConnectFails, NoSignal, LostConnection, Crash, Plug, Tick,
           processes, reading, line
  <2>3. since_ok' \in 0 .. Silence + 1 /\ crashes' \in 0 .. MaxCrashes
    BY Registers
       DEF IInv, TypeOK, GuardStep, Fork, Wait, Sleep, Stop, Prctl,
           ConnectFails, NoSignal, LostConnection, Crash, Plug, Tick
  <2> QED
    BY <2>1, <2>2, <2>3 DEF IInv, TypeOK
<1>2. /\ val' = val /\ sure' = sure
      /\ \/ child' # "run"
         \/ child' = child /\ bus' = bus /\ UNCHANGED reading
  BY DEF GuardStep, Fork, Wait, Sleep, Stop, Prctl, ConnectFails, NoSignal,
         LostConnection, Crash, Plug, Tick, processes, line
<1> QED
  BY <1>1, <1>2, IdleStep

(* A new child has read nothing.                                           *)
LEMMA ConnectStep == IInv /\ Connect => IInv'
<1> SUFFICES ASSUME IInv, Connect PROVE IInv'
  OBVIOUS
<1> USE Registers, EmptyAndOdd DEF IInv, Connect, line
<1>1. TypeOK'
  <2>1. {fresh', tty', silent', sure'} \subseteq BOOLEAN
    BY Zenon DEF TypeOK
  <2>2. buffer' \in Buffers
    OBVIOUS
  <2> QED
    BY <2>1, <2>2 DEF TypeOK, Buffers
<1>2. BufferInv' /\ AnsweredInv' /\ AskedInv'
  BY DEF BufferInv, AnsweredInv, AskedInv
<1> QED
  BY <1>1, <1>2

(* A request is remembered, and what is no packet or has a wrong sum is    *)
(* forgotten, or will be.                                                  *)
LEMMA PauseStep ==
  ASSUME IInv, BadSum \/ Request \/ OddBytes \/ GiveUp \/ GiveUpEarly
  PROVE  IInv'
<1> USE Registers, EmptyAndOdd DEF IInv, processes, line
<1>1. TypeOK'
  <2>1. {fresh', tty', silent', sure'} \subseteq BOOLEAN
    BY Zenon
       DEF TypeOK, BadSum, Request, OddBytes, GiveUp, GiveUpEarly, Paused
  <2>2. lastpar' \in Asked \cup {"none"}
    BY DEF TypeOK, Parts, BadSum, Request, OddBytes, GiveUp, GiveUpEarly,
           Sound
  <2>3. buffer' \in {buffer, Empty, Odd} /\ buffer' \in Buffers
    BY DEF TypeOK, Buffers, BadSum, Request, OddBytes, GiveUp, GiveUpEarly
  <2>4. UNCHANGED <<master, child, flags, val, since_ok, bus, crashes>>
    BY DEF BadSum, Request, OddBytes, GiveUp, GiveUpEarly
  <2> QED
    BY <2>1, <2>2, <2>3, <2>4 DEF TypeOK, Buffers
<1>2. CASE BadSum
  BY <1>1, <1>2
     DEF BadSum, Paused, BufferInv, AnsweredInv, AskedInv, Listens, Whole
<1>3. CASE Request
  <2>1. buffer.req \in Asked /\ Whole /\ buffer.ans = "none"
    BY <1>3 DEF Request, Sound, TypeOK, Parts
  <2>2. Listens => bus \in {buffer.req, "none"}
    BY <2>1 DEF BufferInv
  <2> QED
    BY <1>1, <1>3, <2>1, <2>2
       DEF Request, Paused, BufferInv, AnsweredInv, AskedInv, Listens, Whole
<1>4. CASE OddBytes
  BY <1>1, <1>4
     DEF OddBytes, Paused, BufferInv, AnsweredInv, AskedInv, Listens, Whole
<1>5. CASE GiveUp
  <2>1. Listens /\ lastpar # "none" => bus \in {lastpar, "none"}
    BY <1>5 DEF GiveUp, TypeOK, BufferInv, AnsweredInv, AskedInv
  <2> QED
    BY <1>1, <1>5, <2>1
       DEF GiveUp, BufferInv, AnsweredInv, AskedInv, Listens, Whole
<1>6. CASE GiveUpEarly
  BY <1>1, <1>6 DEF GiveUpEarly, BufferInv, AnsweredInv, AskedInv, Listens
<1> QED
  BY <1>2, <1>3, <1>4, <1>5, <1>6

(* An answer is stored: it is the one to the request that lastpar, or the  *)
(* buffer, remembers.                                                      *)
LEMMA AnswerStep ==
  ASSUME IInv, NEW accepted \in BOOLEAN, Answer(accepted)
  PROVE  /\ IInv'
         /\ \A q \in Regs : val'[q] # val[q] => val'[q] = q \/ ~sure
<1> DEFINE par == IF buffer.req = "none" THEN lastpar ELSE buffer.req
           stored == par \in Regs /\ accepted
<1>1. /\ child = "run" /\ Whole /\ Sound /\ buffer.ans # "none"
      /\ buffer.ans \in Asked /\ buffer.req \in Asked \cup {"none"}
  BY DEF Answer, Paused, Sound, IInv, TypeOK, Parts
<1>2. /\ val' = IF stored THEN [val EXCEPT ![par] = buffer.ans] ELSE val
      /\ flags' = IF stored THEN flags \cup {par} ELSE flags
      /\ since_ok' = IF par = "none" THEN since_ok ELSE 0
      /\ buffer' = Empty /\ lastpar' = "none" /\ fresh' = FALSE
      /\ UNCHANGED <<processes, tty, crashes, line>>
  BY DEF Answer, Paused
<1>3. stored => par \in Regs
  OBVIOUS
<1>4. sure /\ par \in Asked => buffer.ans = par
  BY <1>1, Registers DEF IInv, BufferInv, AnsweredInv, AskedInv, Listens
<1> HIDE DEF par, stored
<1>5. TypeOK'
  <2>1. val' \in [Regs -> Asked \cup {"none"}] /\ flags' \subseteq Regs
    BY <1>1, <1>2, <1>3 DEF IInv, TypeOK
  <2>2. since_ok' \in 0 .. Silence + 1
    BY <1>2, Registers DEF IInv, TypeOK
  <2> QED
    BY <1>2, <2>1, <2>2, Registers, EmptyAndOdd
       DEF IInv, TypeOK, processes, line, Buffers
<1>6. \A q \in Regs : val'[q] # val[q] => val'[q] = q \/ ~sure
  <2>1. val \in [Regs -> Asked \cup {"none"}]
    BY DEF IInv, TypeOK
  <2> QED
    BY <1>2, <1>3, <1>4, <2>1, Registers
<1>7. BufferInv' /\ AnsweredInv' /\ AskedInv'
  BY <1>2, Registers, EmptyAndOdd DEF BufferInv, AnsweredInv, AskedInv
<1> QED
  BY <1>5, <1>6, <1>7 DEF IInv

-----------------------------------------------------------------------------
(* The display asks: a request that is surely read is the first thing in   *)
(* the buffer, and is not noticed yet.                                     *)
LEMMA AskStep ==
  ASSUME IInv, NEW r \in Asked, NEW how \in Hows, Ask(r, how)
  PROVE  IInv'
<1> DEFINE p == IF how = "good" THEN r ELSE "bad"
           b == WithRequest(buffer, p)
<1>1. /\ buffer \in Buffers /\ p \in Asked \cup {"bad"}
      /\ p \in Asked => p = r
  BY Registers DEF IInv, TypeOK, Buffers
<1>2. b \in Buffers /\ (buffer = Empty => b.req = p /\ b.ans = "none")
  BY <1>1, WithRequestIs, Registers, EmptyAndOdd DEF WithRequest, Buffers
<1>3. /\ bus = "none" /\ bus' = r
      /\ buffer' \in {buffer, Odd, b} /\ fresh' \in {fresh, TRUE}
      /\ sure' = (child # "run" \/ (buffer = Empty /\ how \in {"good", "bad"}))
      /\ UNCHANGED <<processes, flags, val, lastpar, since_ok, tty, silent,
                     crashes>>
  BY DEF Ask, Hear
<1>4. Listens' => buffer' = b /\ buffer = Empty /\ fresh' = TRUE
  BY DEF Ask, Hear, Listens, processes
<1>8. buffer = Empty => b = [Empty EXCEPT !.req = p]
  BY DEF WithRequest
<1> HIDE DEF p, b
<1>5. TypeOK'
  <2>1. buffer' \in Buffers
    BY <1>1, <1>2, <1>3, EmptyAndOdd
  <2>2. fresh' \in BOOLEAN /\ sure' \in BOOLEAN
    BY <1>3 DEF IInv, TypeOK
  <2> QED
    BY <1>3, <2>1, <2>2 DEF IInv, TypeOK, Buffers, processes
<1>6. BufferInv' /\ AnsweredInv'
  BY <1>1, <1>2, <1>3, <1>4 DEF BufferInv, AnsweredInv
<1>7. AskedInv'
  <2> SUFFICES ASSUME Listens' PROVE AskedInv'
    BY DEF AskedInv
  <2>1. buffer'.req # "none" /\ fresh' = TRUE /\ ~buffer'.odd
    <3>1. buffer' = b /\ b = [Empty EXCEPT !.req = p]
      BY <1>4, <1>8
    <3> QED
      BY <1>1, <1>4, <3>1, Registers, EmptyAndOdd DEF Buffers
  <2> QED
    BY <2>1 DEF AskedInv, Whole
<1> QED
  BY <1>5, <1>6, <1>7 DEF IInv

(* The station answers the request that is on the bus.                     *)
LEMMA ReplyStep ==
  ASSUME IInv, NEW how \in Hows, Reply(how)
  PROVE  IInv'
<1> DEFINE p == IF how = "good" THEN bus ELSE "bad"
           b == WithAnswer(buffer, p)
<1>1. /\ buffer \in Buffers /\ bus \in Asked /\ p \in Asked \cup {"bad"}
      /\ p \in {bus, "bad"}
  BY DEF IInv, TypeOK, Buffers, Reply
<1>2. /\ b \in Buffers
      /\ buffer.ans = "none" /\ ~buffer.odd =>
           b.req = buffer.req /\ b.ans = p /\ ~b.odd
      /\ ~(buffer.ans = "none" /\ ~buffer.odd) => b = Odd
  BY <1>1, WithAnswerIs
<1>3. /\ bus' = "none" /\ sure' = sure
      /\ \/ buffer' = buffer /\ fresh' = fresh
         \/ buffer' \in {Odd, b} /\ fresh' = TRUE
      /\ UNCHANGED <<processes, flags, val, lastpar, since_ok, tty, silent,
                     crashes>>
  BY DEF Reply, Hear
<1> HIDE DEF p, b
<1>4. TypeOK'
  <2>1. buffer' \in Buffers
    BY <1>1, <1>2, <1>3, EmptyAndOdd
  <2>2. fresh' \in BOOLEAN /\ sure' \in BOOLEAN
    BY <1>3 DEF IInv, TypeOK
  <2> QED
    BY <1>3, <2>1, <2>2 DEF IInv, TypeOK, Buffers, processes
<1>5. BufferInv' /\ AnsweredInv' /\ AskedInv'
  <2> SUFFICES ASSUME Listens' PROVE BufferInv' /\ AnsweredInv' /\ AskedInv'
    BY DEF BufferInv, AnsweredInv, AskedInv
  <2>1. Listens /\ bus' = "none" /\ lastpar' = lastpar
    BY <1>3 DEF Listens, processes
  <2>2. CASE buffer' = buffer /\ fresh' = fresh
    BY <2>1, <2>2 DEF IInv, BufferInv, AnsweredInv, AskedInv, Whole
  <2>3. CASE buffer' = Odd /\ fresh' = TRUE
    BY <2>1, <2>3, EmptyAndOdd DEF BufferInv, AnsweredInv, AskedInv, Whole
  <2>4. CASE buffer' = b /\ b # Odd /\ fresh' = TRUE
    <3>1. /\ buffer.ans = "none" /\ ~buffer.odd
          /\ b.req = buffer.req /\ b.ans = p /\ ~b.odd
      BY <1>2, <2>4
    <3>2. BufferInv' /\ AnsweredInv'
      BY <1>1, <2>1, <2>4, <3>1, Registers
         DEF IInv, BufferInv, AnsweredInv, Whole
    <3>3. AskedInv'
      BY <1>1, <2>1, <2>4, <3>1, Registers DEF IInv, AskedInv, Whole
    <3> QED
      BY <3>2, <3>3
  <2> QED
    BY <1>3, <2>2, <2>3, <2>4
<1> QED
  BY <1>4, <1>5 DEF IInv

(* A request that gets no answer leaves nothing on the bus.                *)
LEMMA NoReplyStep == IInv /\ NoReply => IInv'
<1> SUFFICES ASSUME IInv, NoReply PROVE IInv'
  OBVIOUS
<1>1. /\ bus' = "none" /\ silent' \in {silent, TRUE}
      /\ UNCHANGED <<master, child, flags, val, lastpar, buffer, fresh,
                     since_ok, tty, crashes, sure>>
  BY DEF NoReply, processes, reading
<1>2. TypeOK'
  <2>1. silent' \in BOOLEAN
    BY <1>1 DEF IInv, TypeOK
  <2> QED
    BY <1>1, <2>1 DEF IInv, TypeOK
<1>3. BufferInv' /\ AnsweredInv'
  BY <1>1 DEF IInv, BufferInv, AnsweredInv, Listens, Whole
<1>4. AskedInv'
  BY <1>1 DEF IInv, AskedInv, Listens, Whole
<1> QED
  BY <1>2, <1>3, <1>4 DEF IInv

-----------------------------------------------------------------------------
(* Every step keeps the invariant.                                         *)
LEMMA NextIInv == IInv /\ [Next]_vars => IInv'
<1> SUFFICES ASSUME IInv, [Next]_vars PROVE IInv'
  OBVIOUS
<1>1. CASE UNCHANGED vars
  BY <1>1 DEF vars, processes, reading, line, IInv, TypeOK, BufferInv,
              AnsweredInv, AskedInv, Listens, Whole
<1>2. CASE ChildStep
  BY <1>2, ProcessStep, ConnectStep, PauseStep, AnswerStep DEF ChildStep
<1> QED
  BY <1>1, <1>2, ProcessStep, AskStep, ReplyStep, NoReplyStep DEF Next

(* Only an answer stores a value.                                          *)
LEMMA OtherStepsKeepValues ==
  ASSUME [Next]_vars, \A accepted \in BOOLEAN : ~Answer(accepted)
  PROVE  val' = val
BY DEF Next, vars, ChildStep, GuardStep, Fork, Wait, Sleep, Stop, Prctl,
       Connect, ConnectFails, NoSignal, LostConnection, Crash, BadSum,
       Request, OddBytes, GiveUp, GiveUpEarly, Ask, Reply, NoReply, Plug, Tick

(* A value is never stored under another register than its own when the    *)
(* last request was read from its beginning, whatever is lost or damaged   *)
(* besides.                                                                *)
THEOREM ValuesUnderTheirRegisters == Spec => RightRegister
<1>1. IInv /\ [Next]_vars =>
        [\A r \in Regs : val'[r] # val[r] => val'[r] = r \/ ~sure]_vars
  BY AnswerStep, OtherStepsKeepValues
<1> QED
  BY <1>1, InitIInv, NextIInv, PTL DEF Spec, RightRegister
=============================================================================
