--------------------------- MODULE CanRingProofs ----------------------------
(***************************************************************************)
(* Proofs about CanRing for any ring size, any servers and any clients.    *)
(***************************************************************************)
EXTENDS CanRing, TLAPS

USE DEF Slots, Times

-----------------------------------------------------------------------------
(* The inductive invariant.                                                *)

WriterHolds(w) == wpc[w] \in {"head", "body", "advance", "unlock"}
ReaderHolds(r) == rpc[r] \in {"head", "body", "return", "skipped"}

(* Who is between flock(LOCK_EX) and flock(LOCK_UN) is the lock's owner.   *)
LockInv ==
  /\ \A w \in Writers : WriterHolds(w) => can_lk = w
  /\ \A r \in Readers : ReaderHolds(r) => can_lk = r

(* How a client's index relates to the frames it still has to read.        *)
InPlace(r) ==
  /\ pos[r] <= written
  /\ pos[r] = written => pbuf[r] = rx_buff_pntr
  /\ pos[r] < written => pos[r] < FrameAt(pbuf[r])
  /\ written - pos[r] \in 1 .. CAN_RX_SIZE => FrameAt(pbuf[r]) = pos[r] + 1
  /\ rpc[r] \in {"lock", "head", "body"} => pos[r] < written

PosInv == \A r \in Readers : InPlace(r)

Holding(i, n) == rx_buff[i].head = n /\ rx_buff[i].body = n

(* Every slot holds the frame its place calls for, but the one being       *)
(* written, which stays half written if its writer dies.                   *)
ContentInv ==
  /\ \A i \in Slots \ {rx_buff_pntr} : Holding(i, FrameAt(i))
  /\ \/ Holding(rx_buff_pntr, FrameAt(rx_buff_pntr))
     \/ \E w \in Writers : wpc[w] \in {"body", "advance"}
     \/ deaths > 0
  /\ \A w \in Writers :
       /\ wpc[w] = "body" => rx_buff[rx_buff_pntr].head = written + 1
       /\ wpc[w] = "advance" => Holding(rx_buff_pntr, written + 1)

(* What a client has copied so far is what the slot still holds.           *)
GotInv ==
  \A r \in Readers :
    rpc[r] = "body" => got[r].head = rx_buff[pbuf[r]].head

IInv == TypeOK /\ LockInv /\ PosInv /\ ContentInv /\ GotInv

-----------------------------------------------------------------------------
(* Arithmetic of the ring.                                                 *)

(* The index after i is i + 1, or 0 after the last slot.                   *)
LEMMA NextSlotIs ==
  ASSUME NEW i \in Slots
  PROVE  /\ NextSlot(i) = IF i = CAN_RX_SIZE - 1 THEN 0 ELSE i + 1
         /\ NextSlot(i) \in Slots
BY SizeAssumption DEF NextSlot

(* The places are numbered by consecutive frames from the oldest, at       *)
(* rx_buff_pntr, to the newest, just before it.                            *)
LEMMA FrameAtOrder ==
  ASSUME TypeOK, NEW i \in Slots
  PROVE  /\ FrameAt(i) \in Int
         /\ FrameAt(i) \in (written - CAN_RX_SIZE + 1) .. written
         /\ FrameAt(rx_buff_pntr) = written - CAN_RX_SIZE + 1
         /\ NextSlot(i) = rx_buff_pntr <=> FrameAt(i) = written
         /\ NextSlot(i) # rx_buff_pntr =>
              FrameAt(NextSlot(i)) = FrameAt(i) + 1
<1>1. /\ rx_buff_pntr \in Slots
      /\ written \in Nat
      /\ CAN_RX_SIZE \in Nat \ {0}
  BY SizeAssumption DEF TypeOK
<1>2. /\ NextSlot(i) = IF i = CAN_RX_SIZE - 1 THEN 0 ELSE i + 1
      /\ NextSlot(i) \in Slots
  BY NextSlotIs
<1> QED
  BY <1>1, <1>2 DEF FrameAt

(* A new frame renumbers only the place it takes.                          *)
LEMMA FrameAtAdvance ==
  ASSUME TypeOK, NEW w \in Writers, AdvancePntr(w), NEW i \in Slots
  PROVE  FrameAt(i)' = IF i = rx_buff_pntr THEN written + 1 ELSE FrameAt(i)
<1>1. /\ rx_buff_pntr \in Slots
      /\ written \in Nat
      /\ CAN_RX_SIZE \in Nat \ {0}
  BY SizeAssumption DEF TypeOK
<1>2. /\ rx_buff_pntr' = IF rx_buff_pntr = CAN_RX_SIZE - 1
                         THEN 0 ELSE rx_buff_pntr + 1
      /\ written' = written + 1
  BY <1>1, NextSlotIs DEF AdvancePntr
<1> QED
  BY <1>1, <1>2 DEF FrameAt

(* Steps that leave the index and the count alone renumber nothing.        *)
LEMMA FrameAtSame ==
  ASSUME UNCHANGED <<rx_buff_pntr, written>>, NEW i
  PROVE  FrameAt(i)' = FrameAt(i)
BY DEF FrameAt

-----------------------------------------------------------------------------
(* Every variable keeps its type.                                          *)
LEMMA TypeStep == TypeOK /\ [Next]_vars => TypeOK'
<1> SUFFICES ASSUME TypeOK, [Next]_vars PROVE TypeOK'
  OBVIOUS
<1> USE DEF TypeOK, WriterStep, ReaderStep, Acquire, Release, readerVars,
            writerVars, StepIndex
<1>1. ASSUME NEW w \in Writers, WriterNext(w) PROVE TypeOK'
  <2>1. CASE LockToPut(w)
    BY <2>1 DEF LockToPut, Repaired, tm
  <2>2. CASE PutHead(w)
    <3>1. rx_buff[rx_buff_pntr].body \in Int /\ rx[w] \in Times
      OBVIOUS
    <3>2. rx_buff' \in [Slots -> [head : Int, body : Int, stamp : Times]]
      BY <2>2, <3>1 DEF PutHead
    <3> QED
      BY <2>2, <3>2 DEF PutHead
  <2>3. CASE PutBody(w)
    BY <2>3 DEF PutBody
  <2>4. CASE AdvancePntr(w)
    <3>1. rx_buff_pntr' \in Slots
      BY <2>4, NextSlotIs DEF AdvancePntr
    <3> QED
      BY <2>4, <3>1 DEF AdvancePntr
  <2>5. CASE UnlockPut(w)
    BY <2>5 DEF UnlockPut
  <2> QED
    BY <1>1, <2>1, <2>2, <2>3, <2>4, <2>5 DEF WriterNext
<1>2. ASSUME NEW w \in Writers, WriterDies(w) PROVE TypeOK'
  BY <1>2 DEF WriterDies
<1>3. ASSUME NEW r \in Readers, ReaderNext(r) PROVE TypeOK'
  <2>1. CASE CleanRecv(r)
    <3>1. pbuf' \in [Readers -> Slots] /\ pos' \in [Readers -> Int]
      BY <2>1 DEF CleanRecv
    <3>2. rtime' \in [Readers -> Times]
      BY <2>1 DEF CleanRecv
    <3>3. UNCHANGED <<can_lk, rpc, got, deaths, rx_buff_pntr, rx_buff, wpc,
                      rx, written>>
      BY <2>1 DEF CleanRecv
    <3> QED
      BY <3>1, <3>2, <3>3
  <2>2. CASE GetFrame(r) \/ Look(r) \/ LockToGet(r)
    BY <2>2 DEF GetFrame, Look, LockToGet
  <2>3. CASE TakeHead(r)
    BY <2>3 DEF TakeHead
  <2>4. CASE TakeBody(r)
    BY <2>4, NextSlotIs, FrameAtOrder DEF TakeBody
  <2>5. CASE SkipStale(r)
    BY <2>5, NextSlotIs, FrameAtOrder DEF SkipStale
  <2>6. CASE UnlockGet(r) \/ UnlockSkip(r)
    BY <2>6 DEF UnlockGet, UnlockSkip
  <2> QED
    BY <1>3, <2>1, <2>2, <2>3, <2>4, <2>5, <2>6 DEF ReaderNext, InCall
<1>4. CASE UNCHANGED vars
  BY <1>4 DEF vars
<1> QED
  BY <1>1, <1>2, <1>3, <1>4 DEF Next

(* flock() excludes: the owner alone is between lock and unlock.           *)
LEMMA LockStep == TypeOK /\ LockInv /\ [Next]_vars => LockInv'
<1> SUFFICES ASSUME TypeOK, LockInv, [Next]_vars PROVE LockInv'
  OBVIOUS
<1> USE ProcessAssumption DEF TypeOK, LockInv, WriterHolds, ReaderHolds,
        WriterStep, ReaderStep, Acquire, Release, readerVars, writerVars
<1>1. ASSUME NEW w \in Writers, WriterNext(w) PROVE LockInv'
  <2>1. CASE LockToPut(w)
    BY <2>1 DEF LockToPut
  <2>2. CASE PutHead(w) \/ PutBody(w) \/ AdvancePntr(w)
    BY <2>2 DEF PutHead, PutBody, AdvancePntr
  <2>3. CASE UnlockPut(w)
    BY <2>3 DEF UnlockPut
  <2> QED
    BY <1>1, <2>1, <2>2, <2>3 DEF WriterNext
<1>2. ASSUME NEW w \in Writers, WriterDies(w) PROVE LockInv'
  BY <1>2 DEF WriterDies
<1>3. ASSUME NEW r \in Readers, ReaderNext(r) PROVE LockInv'
  <2>1. CASE CleanRecv(r) \/ GetFrame(r) \/ Look(r)
    BY <2>1 DEF CleanRecv, GetFrame, Look
  <2>2. CASE LockToGet(r)
    BY <2>2 DEF LockToGet
  <2>3. CASE TakeHead(r) \/ TakeBody(r) \/ SkipStale(r)
    BY <2>3 DEF TakeHead, TakeBody, SkipStale
  <2>4. CASE UnlockGet(r) \/ UnlockSkip(r)
    <3>1. can_lk = r /\ wpc' = wpc
      BY <2>4 DEF UnlockGet, UnlockSkip
    <3>2. rpc'[r] \in {"out", "loop"}
          /\ \A q \in Readers \ {r} : rpc'[q] = rpc[q]
      BY <2>4 DEF UnlockGet, UnlockSkip
    <3> QED
      BY <3>1, <3>2
  <2> QED
    BY <1>3, <2>1, <2>2, <2>3, <2>4 DEF ReaderNext, InCall
<1>4. CASE UNCHANGED vars
  BY <1>4 DEF vars
<1> QED
  BY <1>1, <1>2, <1>3, <1>4 DEF Next

(* The lock is locked only while its owner is between its two calls of     *)
(* flock and lives: it is not left locked by one that died there, nor on   *)
(* any way through can_get_buff_frame.                                     *)
NoOrphanLock ==
  \/ can_lk = Free
  \/ \E w \in Writers : can_lk = w /\ WriterHolds(w)
  \/ \E r \in Readers : can_lk = r /\ ReaderHolds(r)

LEMMA OrphanStep == TypeOK /\ NoOrphanLock /\ [Next]_vars => NoOrphanLock'
<1> SUFFICES ASSUME TypeOK, NoOrphanLock, [Next]_vars PROVE NoOrphanLock'
  OBVIOUS
<1> USE ProcessAssumption DEF TypeOK, NoOrphanLock, WriterHolds, ReaderHolds,
        WriterStep, ReaderStep, Acquire, Release, readerVars, writerVars
<1>1. ASSUME NEW w \in Writers, WriterNext(w) PROVE NoOrphanLock'
  <2>1. CASE LockToPut(w)
    BY <2>1 DEF LockToPut
  <2>2. CASE PutHead(w) \/ PutBody(w) \/ AdvancePntr(w)
    BY <2>2 DEF PutHead, PutBody, AdvancePntr
  <2>3. CASE UnlockPut(w)
    BY <2>3 DEF UnlockPut
  <2> QED
    BY <1>1, <2>1, <2>2, <2>3 DEF WriterNext
<1>2. ASSUME NEW w \in Writers, WriterDies(w) PROVE NoOrphanLock'
  BY <1>2 DEF WriterDies
<1>3. ASSUME NEW r \in Readers, ReaderNext(r) PROVE NoOrphanLock'
  <2>1. CASE CleanRecv(r)
    BY <2>1 DEF CleanRecv
  <2>2. CASE GetFrame(r) \/ Look(r)
    BY <2>2 DEF GetFrame, Look
  <2>3. CASE LockToGet(r)
    BY <2>3 DEF LockToGet
  <2>4. CASE TakeHead(r) \/ TakeBody(r) \/ SkipStale(r)
    BY <2>4 DEF TakeHead, TakeBody, SkipStale
  <2>5. CASE UnlockGet(r) \/ UnlockSkip(r)
    BY <2>5 DEF UnlockGet, UnlockSkip
  <2> QED
    BY <1>3, <2>1, <2>2, <2>3, <2>4, <2>5 DEF ReaderNext, InCall
<1>4. CASE UNCHANGED vars
  BY <1>4 DEF vars
<1> QED
  BY <1>1, <1>2, <1>3, <1>4 DEF Next

-----------------------------------------------------------------------------
(* Where the clients are.                                                  *)

(* The reader's facts about itself depend on these variables only.         *)
LEMMA InPlaceSame ==
  ASSUME NEW r \in Readers, InPlace(r),
         UNCHANGED <<rx_buff_pntr, written, pbuf, pos>>,
         \/ rpc'[r] = rpc[r]
         \/ rpc'[r] \notin {"lock", "head", "body"}
         \/ rpc[r] \in {"lock", "head", "body"}
  PROVE  InPlace(r)'
BY FrameAtSame DEF InPlace

(* A client that takes or skips the frame at its index is at the next.     *)
LEMMA InPlaceStep ==
  ASSUME TypeOK, NEW r \in Readers, InPlace(r), StepIndex(r),
         UNCHANGED <<rx_buff_pntr, written>>,
         rpc[r] \in {"head", "body"}, rpc'[r] \in {"return", "skipped"}
  PROVE  InPlace(r)'
<1> DEFINE i == pbuf[r]
<1>1. /\ i \in Slots /\ pos[r] \in Int /\ written \in Nat
      /\ CAN_RX_SIZE \in Nat \ {0} /\ rx_buff_pntr \in Slots
  BY SizeAssumption DEF TypeOK
<1>2. pbuf'[r] = NextSlot(i) /\ pos'[r] = FrameAt(i)
  BY DEF StepIndex, TypeOK
<1>3. /\ FrameAt(i) \in (written - CAN_RX_SIZE + 1) .. written
      /\ NextSlot(i) = rx_buff_pntr <=> FrameAt(i) = written
      /\ NextSlot(i) # rx_buff_pntr => FrameAt(NextSlot(i)) = FrameAt(i) + 1
  BY <1>1, FrameAtOrder
<1>4. FrameAt(pbuf[r])' = FrameAt(NextSlot(i))
  BY <1>2 DEF FrameAt
<1> HIDE DEF i
<1> QED
  BY <1>1, <1>2, <1>3, <1>4 DEF InPlace

(* A new frame puts every client one frame further behind.                 *)
LEMMA InPlaceAdvance ==
  ASSUME TypeOK, NEW r \in Readers, InPlace(r),
         NEW w \in Writers, AdvancePntr(w)
  PROVE  InPlace(r)'
<1> DEFINE i == pbuf[r]
<1>1. /\ i \in Slots /\ pos[r] \in Int /\ written \in Nat
      /\ CAN_RX_SIZE \in Nat \ {0} /\ rx_buff_pntr \in Slots
  BY SizeAssumption DEF TypeOK
<1>2. /\ pbuf' = pbuf /\ pos' = pos /\ rpc' = rpc
      /\ written' = written + 1
  BY DEF AdvancePntr, readerVars
<1>3. FrameAt(pbuf[r])' = IF i = rx_buff_pntr THEN written + 1 ELSE FrameAt(i)
  BY <1>1, <1>2, FrameAtAdvance DEF FrameAt
<1>4. /\ FrameAt(rx_buff_pntr) = written - CAN_RX_SIZE + 1
      /\ FrameAt(i) \in (written - CAN_RX_SIZE + 1) .. written
  BY <1>1, FrameAtOrder
<1> HIDE DEF i
<1>5. i = pbuf[r]
  BY DEF i
<1> QED
  BY <1>1, <1>2, <1>3, <1>4, <1>5 DEF InPlace

(* Every step leaves every client in place.                                *)
LEMMA PosStep == TypeOK /\ PosInv /\ [Next]_vars => PosInv'
<1> SUFFICES ASSUME TypeOK, PosInv, [Next]_vars, NEW r \in Readers
             PROVE  InPlace(r)'
  BY DEF PosInv
<1>0. InPlace(r)
  BY DEF PosInv
<1>1. ASSUME NEW w \in Writers, WriterNext(w) \/ WriterDies(w)
      PROVE  InPlace(r)'
  <2>1. CASE AdvancePntr(w)
    BY <1>0, <2>1, InPlaceAdvance
  <2>2. CASE ~AdvancePntr(w)
    <3>1. UNCHANGED <<rx_buff_pntr, written, pbuf, pos, rpc>>
      BY <1>1, <2>2 DEF WriterNext, WriterDies, LockToPut, PutHead, PutBody,
                        UnlockPut, readerVars
    <3> QED
      BY <1>0, <3>1, InPlaceSame
  <2> QED
    BY <2>1, <2>2
<1>2. ASSUME NEW q \in Readers, ReaderNext(q), q # r
      PROVE  InPlace(r)'
  <2>1. /\ UNCHANGED <<rx_buff_pntr, written>>
        /\ pbuf'[r] = pbuf[r] /\ pos'[r] = pos[r] /\ rpc'[r] = rpc[r]
    BY <1>2 DEF ReaderNext, InCall, CleanRecv, GetFrame, Look, LockToGet,
                TakeHead, TakeBody, UnlockGet, SkipStale, UnlockSkip,
                StepIndex, ReaderStep, writerVars, TypeOK
  <2> QED
    BY <1>0, <2>1 DEF InPlace, FrameAt
<1>3. ASSUME ReaderNext(r) PROVE InPlace(r)'
  <2>1. CASE CleanRecv(r)
    <3>1. /\ pos'[r] = written /\ pbuf'[r] = rx_buff_pntr
          /\ UNCHANGED <<rx_buff_pntr, written, rpc>>
          /\ rpc[r] = "out" /\ written \in Nat
      BY <2>1 DEF CleanRecv, writerVars, TypeOK
    <3> QED
      BY <3>1 DEF InPlace
  <2>2. CASE Look(r)
    <3>1. /\ UNCHANGED <<rx_buff_pntr, written, pbuf, pos>>
          /\ rpc'[r] = IF Behind(r) THEN "lock" ELSE "out"
      BY <2>2 DEF Look, ReaderStep, writerVars, TypeOK
    <3>2. pos[r] \in Int /\ written \in Nat
      BY DEF TypeOK
    <3> QED
      BY <1>0, <3>1, <3>2, FrameAtSame DEF InPlace, Behind
  <2>3. CASE TakeBody(r) \/ SkipStale(r)
    <3>1. /\ UNCHANGED <<rx_buff_pntr, written>> /\ StepIndex(r)
          /\ rpc[r] \in {"head", "body"}
          /\ rpc'[r] \in {"return", "skipped"}
      BY <2>3 DEF TakeBody, SkipStale, ReaderStep, writerVars, TypeOK
    <3> QED
      BY <1>0, <3>1, InPlaceStep
  <2>4. CASE \/ GetFrame(r) \/ LockToGet(r) \/ TakeHead(r)
             \/ UnlockGet(r) \/ UnlockSkip(r)
    <3>1. /\ UNCHANGED <<rx_buff_pntr, written, pbuf, pos>>
          /\ \/ rpc'[r] \notin {"lock", "head", "body"}
             \/ rpc[r] \in {"lock", "head", "body"}
      BY <2>4 DEF GetFrame, LockToGet, TakeHead, UnlockGet, UnlockSkip,
                  ReaderStep, writerVars, TypeOK
    <3> QED
      BY <1>0, <3>1, InPlaceSame
  <2> QED
    BY <1>3, <2>1, <2>2, <2>3, <2>4 DEF ReaderNext, InCall
<1>4. CASE UNCHANGED vars
  BY <1>0, <1>4, InPlaceSame DEF vars
<1> QED
  BY <1>1, <1>2, <1>3, <1>4 DEF Next

-----------------------------------------------------------------------------
(* What the slots hold.                                                    *)

(* Two servers are never both between lock and unlock.                     *)
LEMMA OneWriter ==
  ASSUME TypeOK, LockInv, NEW v \in Writers, NEW w \in Writers,
         WriterHolds(v), WriterHolds(w)
  PROVE  v = w
BY DEF LockInv

(* Only the slot at rx_buff_pntr is ever half written.                     *)
LEMMA ContentStep ==
  TypeOK /\ LockInv /\ ContentInv /\ [Next]_vars => ContentInv'
<1> SUFFICES ASSUME TypeOK, LockInv, ContentInv, [Next]_vars
             PROVE  ContentInv'
  OBVIOUS
<1>0. /\ rx_buff_pntr \in Slots /\ written \in Nat /\ deaths \in Nat
      /\ \A i \in Slots : FrameAt(i) \in Int
  BY FrameAtOrder DEF TypeOK
<1>1. ASSUME NEW w \in Writers, LockToPut(w) \/ UnlockPut(w)
      PROVE  ContentInv'
  <2>1. /\ UNCHANGED <<rx_buff, rx_buff_pntr, written, deaths>>
        /\ wpc[w] \notin {"body", "advance"}
        /\ wpc'[w] \notin {"body", "advance"}
        /\ \A v \in Writers : v # w => wpc'[v] = wpc[v]
    BY <1>1 DEF LockToPut, UnlockPut, WriterStep, TypeOK
  <2> QED
    BY <2>1, FrameAtSame DEF ContentInv, Holding
<1>2. ASSUME NEW w \in Writers, PutHead(w) PROVE ContentInv'
  <2>1. /\ UNCHANGED <<rx_buff_pntr, written, deaths>>
        /\ wpc[w] = "head" /\ wpc'[w] = "body"
        /\ \A v \in Writers : v # w => wpc'[v] = wpc[v]
        /\ rx_buff'[rx_buff_pntr].head = written + 1
        /\ \A i \in Slots \ {rx_buff_pntr} : rx_buff'[i] = rx_buff[i]
    BY <1>0, <1>2 DEF PutHead, WriterStep, TypeOK
  <2>2. \A v \in Writers : v # w => wpc[v] \notin {"body", "advance"}
    BY <2>1, OneWriter DEF WriterHolds
  <2> QED
    BY <2>1, <2>2, FrameAtSame DEF ContentInv, Holding
<1>3. ASSUME NEW w \in Writers, PutBody(w) PROVE ContentInv'
  <2>1. /\ UNCHANGED <<rx_buff_pntr, written, deaths>>
        /\ wpc[w] = "body" /\ wpc'[w] = "advance"
        /\ \A v \in Writers : v # w => wpc'[v] = wpc[v]
        /\ rx_buff'[rx_buff_pntr].head = rx_buff[rx_buff_pntr].head
        /\ rx_buff'[rx_buff_pntr].body = written + 1
        /\ \A i \in Slots \ {rx_buff_pntr} : rx_buff'[i] = rx_buff[i]
    BY <1>0, <1>3 DEF PutBody, WriterStep, TypeOK
  <2>2. \A v \in Writers : v # w => wpc[v] \notin {"body", "advance"}
    BY <2>1, OneWriter DEF WriterHolds
  <2> QED
    BY <2>1, <2>2, FrameAtSame DEF ContentInv, Holding
<1>4. ASSUME NEW w \in Writers, AdvancePntr(w) PROVE ContentInv'
  <2>1. /\ UNCHANGED <<rx_buff, deaths>>
        /\ rx_buff_pntr' = NextSlot(rx_buff_pntr)
        /\ wpc[w] = "advance" /\ wpc'[w] = "unlock"
        /\ \A v \in Writers : v # w => wpc'[v] = wpc[v]
    BY <1>4 DEF AdvancePntr, WriterStep, TypeOK
  <2>2. \A v \in Writers : wpc'[v] \notin {"body", "advance"}
    BY <2>1, OneWriter DEF WriterHolds
  <2>3. Holding(rx_buff_pntr, written + 1)
    BY <2>1 DEF ContentInv
  <2>4. \A i \in Slots : Holding(i, FrameAt(i))'
    <3> SUFFICES ASSUME NEW i \in Slots PROVE Holding(i, FrameAt(i))'
      OBVIOUS
    <3>1. FrameAt(i)' = IF i = rx_buff_pntr THEN written + 1 ELSE FrameAt(i)
      BY <1>4, FrameAtAdvance
    <3> QED
      BY <2>1, <2>3, <3>1 DEF ContentInv, Holding
  <2>5. rx_buff_pntr' \in Slots
    BY <1>0, <2>1, NextSlotIs
  <2> QED
    BY <2>2, <2>4, <2>5 DEF ContentInv
<1>5. ASSUME NEW w \in Writers, WriterDies(w) PROVE ContentInv'
  <2>1. /\ UNCHANGED <<rx_buff, rx_buff_pntr, written>>
        /\ deaths' > 0 /\ wpc'[w] = "read"
        /\ \A v \in Writers : v # w => wpc'[v] = wpc[v]
    BY <1>0, <1>5 DEF WriterDies, TypeOK
  <2> QED
    BY <2>1, FrameAtSame DEF ContentInv, Holding
<1>6. ASSUME UNCHANGED <<rx_buff, rx_buff_pntr, written, deaths, wpc>>
      PROVE  ContentInv'
  BY <1>6, FrameAtSame DEF ContentInv, Holding
<1>7. ASSUME NEW r \in Readers, ReaderNext(r) PROVE ContentInv'
  BY <1>6, <1>7
     DEF ReaderNext, InCall, CleanRecv, GetFrame, Look, LockToGet, TakeHead,
         TakeBody, UnlockGet, SkipStale, UnlockSkip, writerVars
<1>8. CASE UNCHANGED vars
  BY <1>6, <1>8 DEF vars
<1> QED
  BY <1>1, <1>2, <1>3, <1>4, <1>5, <1>7, <1>8 DEF Next, WriterNext

(* No server touches the slot a client is copying.                         *)
LEMMA GotStep == TypeOK /\ LockInv /\ GotInv /\ [Next]_vars => GotInv'
<1> SUFFICES ASSUME TypeOK, LockInv, GotInv, [Next]_vars,
                    NEW r \in Readers, rpc'[r] = "body"
             PROVE  got'[r].head = rx_buff'[pbuf'[r]].head
  BY DEF GotInv
<1>0. pbuf[r] \in Slots
  BY DEF TypeOK
<1>1. CASE TakeHead(r)
  BY <1>0, <1>1 DEF TakeHead, writerVars, TypeOK
<1>2. CASE ~TakeHead(r)
  <2>1. rpc[r] = "body" /\ got'[r] = got[r] /\ pbuf'[r] = pbuf[r]
    BY <1>2 DEF Next, WriterNext, LockToPut, PutHead, PutBody, AdvancePntr,
         UnlockPut, WriterDies, ReaderNext, InCall, CleanRecv, GetFrame, Look,
         LockToGet, TakeHead, TakeBody, UnlockGet, SkipStale, UnlockSkip,
         ReaderStep, StepIndex, readerVars, vars, TypeOK
  <2>2. can_lk = r
    BY <2>1 DEF LockInv, ReaderHolds
  <2>3. \A w \in Writers : ~WriterHolds(w)
    BY <2>2, ProcessAssumption DEF LockInv
  <2>4. rx_buff' = rx_buff
    BY <2>3 DEF Next, WriterNext, WriterHolds, LockToPut, PutHead, PutBody,
         AdvancePntr, UnlockPut, WriterDies, ReaderNext, InCall, CleanRecv,
         GetFrame, Look, LockToGet, TakeHead, TakeBody, UnlockGet, SkipStale,
         UnlockSkip, WriterStep, writerVars, vars
  <2> QED
    BY <2>1, <2>4 DEF GotInv
<1> QED
  BY <1>1, <1>2

-----------------------------------------------------------------------------
(* IInv holds in the first state and every step keeps it.                  *)

LEMMA InitIInv == Init => IInv
<1> SUFFICES ASSUME Init PROVE IInv
  OBVIOUS
<1>1. TypeOK
  BY SizeAssumption, BoundsAssumption DEF Init, TypeOK
<1>2. LockInv /\ GotInv
  BY DEF Init, LockInv, WriterHolds, ReaderHolds, GotInv
<1>3. PosInv
  BY SizeAssumption DEF Init, PosInv, InPlace, FrameAt
<1>4. ContentInv
  <2>1. \A i \in Slots : FrameAt(i) = i + 1 - CAN_RX_SIZE
    BY SizeAssumption DEF Init, FrameAt
  <2>2. \A i \in Slots : Holding(i, i + 1 - CAN_RX_SIZE)
    BY DEF Init, Holding
  <2>3. rx_buff_pntr \in Slots /\ \A w \in Writers : wpc[w] = "read"
    BY SizeAssumption DEF Init
  <2> QED
    BY <2>1, <2>2, <2>3 DEF ContentInv
<1> QED
  BY <1>1, <1>2, <1>3, <1>4 DEF IInv

LEMMA NextIInv == IInv /\ [Next]_vars => IInv'
BY TypeStep, LockStep, PosStep, ContentStep, GotStep DEF IInv

(* The lock discipline, the clients' places and the contents of the slots  *)
(* that IInv describes hold in every state.                                *)
THEOREM Invariance == Spec => []IInv
BY InitIInv, NextIInv, PTL DEF Spec

(* Every index stays in the ring, whoever dies in whichever call.          *)
THEOREM TypeCorrect == Spec => []TypeOK
<1>1. IInv => TypeOK
  BY DEF IInv
<1> QED
  BY <1>1, Invariance, PTL

(* Who waits for the lock waits for a process that is at work with it: one *)
(* that dies inside, from can_abort in a signal handler too, leaves none   *)
(* locked.  This is what a waiting can_get_buff_frame rests on.            *)
THEOREM LockIsGivenBack == Spec => []NoOrphanLock
<1>1. Init => NoOrphanLock
  BY DEF Init, NoOrphanLock
<1>2. IInv => TypeOK
  BY DEF IInv
<1> QED
  BY <1>1, <1>2, OrphanStep, Invariance, PTL DEF Spec

(* With fewer than CAN_RX_SIZE frames to read a client is told of them.    *)
THEOREM CapacityHolds == Spec => []HoldsAllButOne
<1>1. IInv => HoldsAllButOne
  <2> SUFFICES ASSUME IInv, NEW r \in Readers,
                      written - pos[r] \in 1 .. CAN_RX_SIZE - 1
               PROVE  Behind(r)
    BY DEF HoldsAllButOne
  <2>1. /\ pos[r] \in Int /\ written \in Nat /\ pbuf[r] \in Slots
        /\ CAN_RX_SIZE \in Nat \ {0}
    BY SizeAssumption DEF IInv, TypeOK
  <2>2. FrameAt(pbuf[r]) = pos[r] + 1
    BY <2>1 DEF IInv, PosInv, InPlace
  <2>3. FrameAt(rx_buff_pntr) = written - CAN_RX_SIZE + 1
    BY <2>1, FrameAtOrder DEF IInv
  <2> QED
    BY <2>1, <2>2, <2>3 DEF Behind
<1> QED
  BY <1>1, Invariance, PTL

(* Unless a writer died in mid copy and it was lapped, a client is given   *)
(* the whole frame that is next for it.                                    *)
THEOREM FramesIntact == Spec => IntactUnlessLapped
<1>1. IInv /\ [Next]_vars =>
        [\A r \in Readers :
           TakeBody(r) =>
             /\ pos[r] < pos'[r]
             /\ \/ got'[r] = [head |-> pos'[r], body |-> pos'[r]]
                \/ deaths > 0 /\ written - pos[r] >= CAN_RX_SIZE]_vars
  <2> SUFFICES ASSUME IInv, NEW r \in Readers, TakeBody(r)
               PROVE  /\ pos[r] < pos'[r]
                      /\ \/ got'[r] = [head |-> pos'[r], body |-> pos'[r]]
                         \/ deaths > 0 /\ written - pos[r] >= CAN_RX_SIZE
    OBVIOUS
  <2> DEFINE i == pbuf[r]
  <2>1. /\ i \in Slots /\ pos[r] \in Int /\ written \in Nat
        /\ deaths \in Nat /\ CAN_RX_SIZE \in Nat \ {0}
    BY SizeAssumption DEF IInv, TypeOK
  <2>2. /\ rpc[r] = "body"
        /\ pos'[r] = FrameAt(i)
        /\ got'[r] = [head |-> rx_buff[i].head, body |-> rx_buff[i].body]
    BY DEF TakeBody, ReaderStep, StepIndex, IInv, TypeOK, GotInv
  <2>3. /\ pos[r] < written
        /\ pos[r] < FrameAt(i)
        /\ written - pos[r] \in 1 .. CAN_RX_SIZE => FrameAt(i) = pos[r] + 1
    BY <2>2 DEF IInv, PosInv, InPlace
  <2>4. CASE Holding(i, FrameAt(i))
    BY <2>2, <2>3, <2>4 DEF Holding
  <2>5. CASE ~Holding(i, FrameAt(i))
    <3>1. i = rx_buff_pntr
      BY <2>1, <2>5 DEF IInv, ContentInv
    <3>2. \A w \in Writers : wpc[w] \notin {"body", "advance"}
      BY <2>2, ProcessAssumption
         DEF IInv, LockInv, ReaderHolds, WriterHolds
    <3>3. deaths > 0
      BY <2>5, <3>1, <3>2 DEF IInv, ContentInv
    <3>4. FrameAt(i) = written - CAN_RX_SIZE + 1
      BY <2>1, <3>1, FrameAtOrder DEF IInv
    <3> HIDE DEF i
    <3> QED
      BY <2>1, <2>2, <2>3, <3>3, <3>4
  <2> QED
    BY <2>4, <2>5
<1> QED
  BY <1>1, Invariance, PTL DEF Spec, IntactUnlessLapped

-----------------------------------------------------------------------------
(* The ring implements the log.                                            *)

(* A client that leaves the frame at its index behind makes a step of the  *)
(* log: the next frame, or one of those kept if it was lapped.             *)
LEMMA StepIndexAdvances ==
  ASSUME IInv, NEW r \in Readers, StepIndex(r), rpc[r] \in {"head", "body"},
         UNCHANGED written
  PROVE  Log!Advance(r) \/ Log!Overrun(r)
<1> DEFINE n == FrameAt(pbuf[r])
<1>1. /\ pos \in [Readers -> Int] /\ written \in Nat
      /\ CAN_RX_SIZE \in Nat \ {0} /\ pbuf[r] \in Slots
  BY SizeAssumption DEF IInv, TypeOK
<1>2. pos' = [pos EXCEPT ![r] = n]
  BY DEF StepIndex
<1>3. /\ pos[r] < written
      /\ written - pos[r] \in 1 .. CAN_RX_SIZE => n = pos[r] + 1
  BY DEF IInv, PosInv, InPlace
<1>4. n \in (written - CAN_RX_SIZE + 1) .. written
  BY <1>1, FrameAtOrder DEF IInv
<1> HIDE DEF n
<1>5. CASE written - pos[r] \in 1 .. CAN_RX_SIZE
  BY <1>1, <1>2, <1>3, <1>5 DEF Log!Advance
<1>6. CASE written - pos[r] > CAN_RX_SIZE
  BY <1>1, <1>2, <1>4, <1>6 DEF Log!Overrun
<1> QED
  BY <1>1, <1>3, <1>5, <1>6

(* Frames come to every client in order, none twice, and none is left out  *)
(* unless the client was lapped.                                           *)
THEOREM RingImplementsLog == Spec => ImplementsLog
<1>1. Init => Log!Init
  BY DEF Init, Log!Init
<1>2. IInv /\ [Next]_vars => [Log!Next]_(Log!logVars)
  <2> SUFFICES ASSUME IInv, [Next]_vars
               PROVE  [Log!Next]_(Log!logVars)
    OBVIOUS
  <2>1. ASSUME NEW w \in Writers, AdvancePntr(w) PROVE Log!Next
    BY <2>1 DEF AdvancePntr, readerVars, Log!Next, Log!Publish
  <2>2. ASSUME NEW r \in Readers, CleanRecv(r) PROVE Log!Next
    BY <2>2 DEF CleanRecv, writerVars, Log!Next, Log!CatchUp
  <2>3. ASSUME NEW r \in Readers, TakeBody(r) \/ SkipStale(r)
        PROVE  Log!Next
    <3>1. /\ StepIndex(r) /\ rpc[r] \in {"head", "body"}
          /\ UNCHANGED written
      BY <2>3 DEF TakeBody, SkipStale, ReaderStep, writerVars
    <3> QED
      BY <3>1, StepIndexAdvances DEF Log!Next
  <2>4. CASE UNCHANGED <<written, pos>>
    BY <2>4 DEF Log!logVars
  <2> QED
    BY <2>1, <2>2, <2>3, <2>4
       DEF Next, WriterNext, LockToPut, PutHead, PutBody, UnlockPut,
           WriterDies, ReaderNext, InCall, GetFrame, Look, LockToGet, TakeHead,
           UnlockGet, UnlockSkip, readerVars, writerVars, vars
<1> QED
  BY <1>1, <1>2, Invariance, PTL DEF Spec, ImplementsLog, Log!Spec
=============================================================================
