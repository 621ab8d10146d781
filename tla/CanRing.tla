------------------------------ MODULE CanRing -------------------------------
(***************************************************************************)
(* The receive buffer of the CAN I/O process (olddaemon/CAN/can_io.c): a   *)
(* ring of frames in shared memory that one or more server processes fill  *)
(* and that client processes read, each with a private index.  The copies  *)
(* in and out of a slot are made under flock() on the lock file, but a     *)
(* client compares its index with rx_buff_pntr BEFORE it takes the lock.   *)
(*                                                                         *)
(* A frame is its number in the order of writing.  The structure copied    *)
(* in and out of a slot is two words, its head (identifier, timestamp)     *)
(* and its body (length, data), each with the number of the frame it       *)
(* belongs to, so that a frame mixed from two others can be seen.          *)
(***************************************************************************)
EXTENDS Integers

CONSTANTS
  CAN_RX_SIZE, \* slots of the ring
  Writers,     \* server processes: start_can_io, can_put_buff_frame
  Readers,     \* client processes: can_get_buff_frame
  MaxTime,     \* bound: timestamps are 0 .. MaxTime seconds
  MaxFrames,   \* bound: frames written
  MaxDeaths,   \* bound: processes that die
  Free         \* the lock file is not locked

ASSUME SizeAssumption == CAN_RX_SIZE \in Nat \ {0}
ASSUME BoundsAssumption ==
  MaxTime \in Nat /\ MaxFrames \in Nat /\ MaxDeaths \in Nat
ASSUME ProcessAssumption ==
  Writers \cap Readers = {} /\ Free \notin Writers \cup Readers

VARIABLES
  can_lk,       \* who holds flock() on the lock file
  rx_buff_pntr, \* the slot the next frame goes to
  rx_buff,      \* the slots
  wpc,          \* where each server process is
  rx,           \* timestamp of the frame it is about to store
  rpc,          \* where each client process is
  pbuf,         \* the client's index in the ring
  rtime,        \* timestamp of the last frame it took
  got,          \* the frame it was given last
  written,      \* history: frames stored so far
  pos,          \* history: the last frame each client passed over
  deaths        \* history: processes that died

vars == <<can_lk, rx_buff_pntr, rx_buff, wpc, rx, rpc, pbuf, rtime, got,
          written, pos, deaths>>
readerVars == <<rpc, pbuf, rtime, got, pos>>
writerVars == <<rx_buff_pntr, rx_buff, wpc, rx, written>>

Slots == 0 .. CAN_RX_SIZE - 1
Times == 0 .. MaxTime
NextSlot(i) == (i + 1) % CAN_RX_SIZE

(* init_can_io of the process that creates the segment.  The empty slots   *)
(* are numbered as if a round had been written before the first frame.     *)
Init ==
  /\ can_lk = Free
  /\ rx_buff_pntr = 0
  /\ rx_buff = [i \in Slots |-> [head |-> i + 1 - CAN_RX_SIZE,
                                 body |-> i + 1 - CAN_RX_SIZE, stamp |-> 0]]
  /\ wpc = [w \in Writers |-> "read"]
  /\ rx = [w \in Writers |-> 0]
  /\ rpc = [r \in Readers |-> "out"]
  /\ pbuf = [r \in Readers |-> 0]
  /\ rtime = [r \in Readers |-> 0]
  /\ got = [r \in Readers |-> [head |-> 0, body |-> 0]]
  /\ written = 0
  /\ pos = [r \in Readers |-> 0]
  /\ deaths = 0

Acquire(p) == can_lk = Free /\ can_lk' = p
Release(p) == can_lk' = IF can_lk = p THEN Free ELSE can_lk

-----------------------------------------------------------------------------
(* The server: a frame read from the driver, or one sent and echoed.       *)

WriterStep(w, from, to) == wpc[w] = from /\ wpc' = [wpc EXCEPT ![w] = to]

(* The work around for drivers whose timestamps step back raises the       *)
(* timestamp to that of the frame before, tm; but tm is never assigned.    *)
tm == 0
Repaired(t) == IF t < tm THEN tm ELSE t

(* A frame with some timestamp is there and flock() succeeds.              *)
LockToPut(w) ==
  /\ written < MaxFrames
  /\ WriterStep(w, "read", "head")
  /\ Acquire(w)
  /\ \E t \in Times : rx' = [rx EXCEPT ![w] = Repaired(t)]
  /\ UNCHANGED <<rx_buff_pntr, rx_buff, written, deaths>>
  /\ UNCHANGED readerVars

(* rx_buff[rx_buff_pntr] = rx, the first words of the structure ...        *)
PutHead(w) ==
  /\ WriterStep(w, "head", "body")
  /\ rx_buff' = [rx_buff EXCEPT ![rx_buff_pntr] =
                   [head |-> written + 1, body |-> @.body, stamp |-> rx[w]]]
  /\ UNCHANGED <<can_lk, rx_buff_pntr, rx, written, deaths>>
  /\ UNCHANGED readerVars

(* ... and the others.                                                     *)
PutBody(w) ==
  /\ WriterStep(w, "body", "advance")
  /\ rx_buff' = [rx_buff EXCEPT ![rx_buff_pntr] =
                   [head |-> @.head, body |-> written + 1, stamp |-> @.stamp]]
  /\ UNCHANGED <<can_lk, rx_buff_pntr, rx, written, deaths>>
  /\ UNCHANGED readerVars

(* rx_buff_pntr = (rx_buff_pntr + 1) % CAN_RX_SIZE                         *)
AdvancePntr(w) ==
  /\ WriterStep(w, "advance", "unlock")
  /\ rx_buff_pntr' = NextSlot(rx_buff_pntr)
  /\ written' = written + 1
  /\ UNCHANGED <<can_lk, rx_buff, rx, deaths>>
  /\ UNCHANGED readerVars

(* Mutant: the lock is not given back.                                     *)
UnlockPutForgotten(w) ==
  /\ WriterStep(w, "unlock", "read")
  /\ UNCHANGED <<can_lk, rx_buff_pntr, rx_buff, rx, written, deaths>>
  /\ UNCHANGED readerVars


UnlockPut(w) ==
  /\ WriterStep(w, "unlock", "read")
  /\ Release(w)
  /\ UNCHANGED <<rx_buff_pntr, rx_buff, rx, written, deaths>>
  /\ UNCHANGED readerVars

(* The process dies wherever it is: can_abort on SIGALRM runs in a signal  *)
(* handler and exits from there.  The kernel drops the lock, the segment   *)
(* stays, and a new process goes on from the rx_buff_pntr it finds.        *)
WriterDies(w) ==
  /\ deaths < MaxDeaths
  /\ deaths' = deaths + 1
  /\ wpc' = [wpc EXCEPT ![w] = "read"]
  /\ Release(w)
  /\ UNCHANGED <<rx_buff_pntr, rx_buff, rx, written>>
  /\ UNCHANGED readerVars

-----------------------------------------------------------------------------
(* The client.                                                             *)

ReaderStep(r, from, to) == rpc[r] = from /\ rpc' = [rpc EXCEPT ![r] = to]

(* Mutant: rx_buff_pntr is taken for the newest frame's slot.              *)
BehindOffByOne(r) == NextSlot(pbuf[r]) # rx_buff_pntr

Behind(r) == pbuf[r] # rx_buff_pntr

(* The number of the frame whose place slot i is: the newest frame is just *)
(* before rx_buff_pntr, the oldest is there and the next will replace it.  *)
FrameAt(i) ==
  written - rx_buff_pntr + i + 1
    - (IF i < rx_buff_pntr THEN 0 ELSE CAN_RX_SIZE)

(* The index moves on; pos remembers which frame it has left behind.       *)
StepIndex(r) ==
  /\ pbuf' = [pbuf EXCEPT ![r] = NextSlot(@)]
  /\ pos' = [pos EXCEPT ![r] = FrameAt(pbuf[r])]

(* Mutant: a client starts at the first slot, wherever the writer is.      *)
CleanRecvFirstSlot(r) ==
  /\ rpc[r] = "out"
  /\ pbuf' = [pbuf EXCEPT ![r] = 0]
  /\ pos' = [pos EXCEPT ![r] = written]
  /\ \E now \in Times : rtime' = [rtime EXCEPT ![r] = now]
  /\ UNCHANGED <<can_lk, rpc, got, deaths>>
  /\ UNCHANGED writerVars

(* can_clean_recv, no lock taken: what is pending is given up.             *)
CleanRecv(r) ==
  /\ rpc[r] = "out"
  /\ pbuf' = [pbuf EXCEPT ![r] = rx_buff_pntr]
  /\ pos' = [pos EXCEPT ![r] = written]
  /\ \E now \in Times : rtime' = [rtime EXCEPT ![r] = now]
  /\ UNCHANGED <<can_lk, rpc, got, deaths>>
  /\ UNCHANGED writerVars

(* can_get_buff_frame is called.                                           *)
GetFrame(r) ==
  /\ ReaderStep(r, "out", "loop")
  /\ UNCHANGED <<can_lk, pbuf, rtime, got, pos, deaths>>
  /\ UNCHANGED writerVars

(* The loop condition, pbuf against rx_buff_pntr, with no lock taken.      *)
Look(r) ==
  /\ ReaderStep(r, "loop", IF Behind(r) THEN "lock" ELSE "out")
  /\ UNCHANGED <<can_lk, pbuf, rtime, got, pos, deaths>>
  /\ UNCHANGED writerVars

(* Mutant: the frame is copied without the lock.                           *)
LockToGetUnlocked(r) ==
  /\ ReaderStep(r, "lock", "head")
  /\ UNCHANGED <<can_lk, pbuf, rtime, got, pos, deaths>>
  /\ UNCHANGED writerVars


LockToGet(r) ==
  /\ ReaderStep(r, "lock", "head")
  /\ Acquire(r)
  /\ UNCHANGED <<pbuf, rtime, got, pos, deaths>>
  /\ UNCHANGED writerVars

(* A frame more than a second older than the last one taken is stale.      *)
Fresh(r) == rx_buff[pbuf[r]].stamp + 1 >= rtime[r]

TakeHead(r) ==
  /\ Fresh(r)
  /\ ReaderStep(r, "head", "body")
  /\ got' = [got EXCEPT ![r] =
               [head |-> rx_buff[pbuf[r]].head, body |-> @.body]]
  /\ UNCHANGED <<can_lk, pbuf, rtime, pos, deaths>>
  /\ UNCHANGED writerVars

TakeBody(r) ==
  /\ ReaderStep(r, "body", "return")
  /\ got' = [got EXCEPT ![r] =
               [head |-> @.head, body |-> rx_buff[pbuf[r]].body]]
  /\ rtime' = [rtime EXCEPT ![r] = rx_buff[pbuf[r]].stamp]
  /\ StepIndex(r)
  /\ UNCHANGED <<can_lk, deaths>>
  /\ UNCHANGED writerVars

UnlockGet(r) ==
  /\ ReaderStep(r, "return", "out")
  /\ Release(r)
  /\ UNCHANGED <<pbuf, rtime, got, pos, deaths>>
  /\ UNCHANGED writerVars

SkipStale(r) ==
  /\ ~Fresh(r)
  /\ ReaderStep(r, "head", "skipped")
  /\ StepIndex(r)
  /\ UNCHANGED <<can_lk, rtime, got, deaths>>
  /\ UNCHANGED writerVars

UnlockSkip(r) ==
  /\ ReaderStep(r, "skipped", "loop")
  /\ Release(r)
  /\ UNCHANGED <<pbuf, rtime, got, pos, deaths>>
  /\ UNCHANGED writerVars

-----------------------------------------------------------------------------
WriterNext(w) ==
  \/ LockToPut(w) \/ PutHead(w) \/ PutBody(w) \/ AdvancePntr(w)
  \/ UnlockPut(w)

InCall(r) ==
  \/ Look(r) \/ LockToGet(r) \/ TakeHead(r) \/ TakeBody(r)
  \/ UnlockGet(r) \/ SkipStale(r) \/ UnlockSkip(r)

ReaderNext(r) == CleanRecv(r) \/ GetFrame(r) \/ InCall(r)

Next ==
  \/ \E w \in Writers : WriterNext(w) \/ WriterDies(w)
  \/ \E r \in Readers : ReaderNext(r)

Spec == Init /\ [][Next]_vars

(* A process that runs goes on; flock() serves those that wait in turn.    *)
Fairness ==
  /\ \A w \in Writers : WF_vars(WriterNext(w))
  /\ \A r \in Readers : WF_vars(InCall(r)) /\ SF_vars(LockToGet(r))

FairSpec == Spec /\ Fairness

-----------------------------------------------------------------------------
(* Properties.                                                             *)

TypeOK ==
  /\ can_lk \in Writers \cup Readers \cup {Free}
  /\ rx_buff_pntr \in Slots
  /\ rx_buff \in [Slots -> [head : Int, body : Int, stamp : Times]]
  /\ wpc \in [Writers -> {"read", "head", "body", "advance", "unlock"}]
  /\ rx \in [Writers -> Times]
  /\ rpc \in [Readers -> {"out", "loop", "lock", "head", "body", "return",
                          "skipped"}]
  /\ pbuf \in [Readers -> Slots]
  /\ rtime \in [Readers -> Times]
  /\ got \in [Readers -> [head : Int, body : Int]]
  /\ written \in Nat
  /\ pos \in [Readers -> Int]
  /\ deaths \in Nat

Log == INSTANCE FrameLog WITH Capacity <- CAN_RX_SIZE, Clients <- Readers,
                              published <- written, seen <- pos

(* The ring gives its clients what the log promises, although a client     *)
(* decides that a frame is there before it takes the lock and the writer   *)
(* may go round the ring in between: frames in order, none twice, and none *)
(* left out unless the client was lapped.                                  *)
ImplementsLog == Log!Spec

(* A client is given a frame it did not have before, the one its place in  *)
(* the log calls for, whole.  The one exception to whole needs a writer    *)
(* that died in the middle of its copy AND a client that was CAN_RX_SIZE   *)
(* frames or more behind.                                                  *)
IntactUnlessLapped ==
  [][\A r \in Readers :
       TakeBody(r) =>
         /\ pos[r] < pos'[r]
         /\ \/ got'[r] = [head |-> pos'[r], body |-> pos'[r]]
            \/ deaths > 0 /\ written - pos[r] >= CAN_RX_SIZE]_vars

(* The ring holds one frame less than its size ("max. # frames in          *)
(* Rx-buffer", can_io.h:2): a client with fewer than CAN_RX_SIZE frames to *)
(* read is not told that there is none; with exactly that many it is.      *)
HoldsAllButOne ==
  \A r \in Readers :
    rpc[r] = "loop" /\ written - pos[r] \in 1 .. CAN_RX_SIZE - 1 => Behind(r)

(* A call of can_get_buff_frame returns, whoever dies with the lock held.  *)
GetReturns == \A r \in Readers : rpc[r] = "loop" ~> rpc[r] = "out"
=============================================================================
