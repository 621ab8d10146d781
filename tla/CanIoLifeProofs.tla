-------------------------- MODULE CanIoLifeProofs --------------------------
(***************************************************************************)
(* Proofs about CanIoLife for any set of servers and clients, any number   *)
(* of segments and starts, with super-user's rights or without.            *)
(***************************************************************************)
EXTENDS CanIoLife, FiniteSetTheorems, TLAPS

-----------------------------------------------------------------------------
(* The inductive invariant for OneServer and KeyLeadsToServer.             *)

(* Attached to the segment of shm_id.                                      *)
Holds(p) == pc[p] \in {"device", "clear", "check", "refused", "claim_pid",
                       "claim_open", "run", "stopping", "client"}
Busy(p) == InStart(p) \/ InExit(p) \/ pc[p] = "stopping"

(* Whatever mishaps there were: who does what, and where.                  *)
PlaceInv ==
  \A p \in Procs :
    /\ pc[p] \notin {"off", "other", "find", "attach", "device", "client",
                     "stat", "remove"}
         => p \in Servers
    /\ pc[p] \notin {"off", "other", "find", "create"} => shm_id[p] \in Segs
    /\ \A g \in Segs : p \in attached[g] => Holds(p) /\ shm_id[p] = g
    /\ Holds(p) => p \in attached[shm_id[p]]

(* Without mishaps one process at a time starts or leaves.                 *)
BusyInv == \A p, q \in Procs : Busy(p) /\ Busy(q) => p = q

(* It has not cleared yet the segment it creates.                          *)
Creates(p) ==
  pc[p] = "clear" \/ (pc[p] \in {"attach", "device"} /\ new_shm[p])
Removes(p) == pc[p] = "remove"

(* All use the segment under the key; who has just created it, or is about *)
(* to remove it, is alone with it.                                         *)
SegmentInv ==
  \A p \in Procs :
    /\ Holds(p) \/ pc[p] \in {"attach", "stat", "remove"}
         => key = shm_id[p] /\ key # NoSeg
    /\ Creates(p) \/ Removes(p) => \A q \in Procs \ {p} : ~Holds(q)

(* The server in its loop has its words in the segment, and there is none  *)
(* while another one writes them.                                          *)
WordsInv ==
  \A p \in Servers :
    /\ pc[p] = "run" => can_pid[key] = p /\ can_open[key]
    /\ pc[p] = "claim_open" => can_pid[key] = p
    /\ pc[p] \in {"claim_pid", "claim_open", "stopping"}
         => \A q \in Servers : pc[q] # "run"

CalmInv ==
  mishaps \subseteq {"pid_reused"} => BusyInv /\ SegmentInv /\ WordsInv

IInv == TypeOK /\ PlaceInv /\ CalmInv

-----------------------------------------------------------------------------
(* The inductive invariant for SoleServerServes and RefusedOnlyIfServed.   *)

(* Segments are numbered in order: a new one is nobody's yet.              *)
NumberInv == key <= nsegs /\ \A p \in Procs : shm_id[p] <= nsegs

(* For RefusedOnlyIfServed: one at a time starts, and a segment names a    *)
(* living process only if that one has claimed it and, once it is told to  *)
(* stop, can_open is no more.                                              *)
StartsInv == \A p, q \in Procs : InStart(p) /\ InStart(q) => p = q
ClaimInv ==
  \A q \in Servers :
    /\ \A g \in Segs : can_pid[g] = q /\ pc[q] # "off"
         => /\ shm_id[q] = g
            /\ pc[q] \in {"claim_open", "run", "stopping", "stat", "remove"}
            /\ pc[q] \in {"stopping", "stat", "remove"} => ~can_open[g]
    /\ pc[q] = "claim_open" => can_pid[shm_id[q]] \in {q, NoPid}
NamedInv ==
  mishaps \cap {"overlap", "pid_reused"} = {} => StartsInv /\ ClaimInv

(* Also beside a segment that was removed while in use: who creates one is *)
(* alone with it, ...                                                      *)
Shares(p, q) == Holds(q) /\ shm_id[q] = shm_id[p]
AloneInv ==
  \A p \in Procs : Creates(p) => \A q \in Procs \ {p} : ~Shares(p, q)

(* ... and each server in its loop has its words, which nobody writes.     *)
ServesInv ==
  \A p \in Servers :
    /\ pc[p] = "run" => Serves(p)
    /\ pc[p] = "claim_open" => can_pid[shm_id[p]] = p
    /\ pc[p] \in {"claim_pid", "claim_open", "stopping"}
         => \A q \in Servers : pc[q] = "run" => shm_id[q] # shm_id[p]

OrderlyInv ==
  mishaps \subseteq {"device_fails", "pid_reused"}
    => BusyInv /\ AloneInv /\ ServesInv

WordsIInv == IInv /\ NumberInv /\ NamedInv /\ OrderlyInv

(* Where a process can be.                                                 *)
States == {"off", "find", "create", "attach", "device", "clear", "check",
           "refused", "claim_pid", "claim_open", "run", "stopping", "stat",
           "remove", "client", "other"}

LEMMA Constants ==
  /\ MaxSegs \in Nat /\ MaxStarts \in Nat /\ NoSeg \notin Segs
  /\ NoPid \notin Servers /\ Servers \subseteq Procs /\ Clients \subseteq Procs
  /\ Procs = Servers \cup Clients /\ Segs \subseteq Nat
BY ProcsAssumption, BoundsAssumption DEF Procs, Segs, NoSeg, NoPid

-----------------------------------------------------------------------------
(* Types.                                                                  *)

LEMMA HastyType ==
  \A p : Hasty(p) \subseteq Mishaps /\ Reused(p) \subseteq Mishaps
BY DEF Hasty, Reused, Mishaps

(* What detaching and removing do to their variables.                      *)
LEMMA DetachType ==
  ASSUME TypeOK, NEW p \in Procs, shm_id[p] \in Segs, Detach(p)
  PROVE  /\ attached' \in [Segs -> SUBSET Procs]
         /\ \A g \in Segs : attached'[g] \subseteq attached[g]
         /\ \A q \in Procs, g \in Segs :
              q # p \/ g # shm_id[p]
                => (q \in attached'[g] <=> q \in attached[g])
         /\ p \notin attached'[shm_id[p]]
BY DEF TypeOK, Detach

LEMMA RemoveType ==
  ASSUME TypeOK, NEW g \in Segs, RemoveSegment(g)
  PROVE  dest' \subseteq Segs /\ key' \in {NoSeg} \cup Segs
BY DEF TypeOK, RemoveSegment

LEMMA InitIInv == Init => IInv
<1> SUFFICES ASSUME Init PROVE IInv
  OBVIOUS
<1>1. TypeOK
  <2>1. /\ can_open \in [Segs -> BOOLEAN] /\ new_shm \in [Procs -> BOOLEAN]
        /\ mishaps \subseteq Mishaps
    BY Zenon DEF Init
  <2> QED
    BY <2>1, Constants DEF Init, TypeOK, NoPid
<1>2. PlaceInv
  BY DEF Init, PlaceInv, Holds
<1>3. CalmInv
  BY Constants
     DEF Init, CalmInv, BusyInv, SegmentInv, WordsInv, Holds, Busy, InStart,
         InExit, Creates, Removes
<1> QED
  BY <1>1, <1>2, <1>3 DEF IInv

(* Every step keeps the types.                                             *)
LEMMA InitCanIoType ==
  ASSUME TypeOK, PlaceInv, NEW p \in Procs, InitCanIo(p)
  PROVE  TypeOK'
<1> USE Constants DEF TypeOK, Go, kernel, words, history
<1>1. CASE Start(p)
  BY <1>1, HastyType DEF Start, Note
<1>2. CASE FindSegment(p)
  BY <1>2 DEF FindSegment
<1>3. CASE CreateSegment(p)
  <2>1. CASE key = NoSeg
    <3>1. nsegs' = nsegs + 1 /\ nsegs < MaxSegs /\ key' = nsegs'
          /\ shm_id' = [shm_id EXCEPT ![p] = nsegs']
          /\ new_shm' = [new_shm EXCEPT ![p] = TRUE]
          /\ pc' = [pc EXCEPT ![p] = "attach"]
          /\ UNCHANGED <<dest, attached, history, words>>
      BY <1>3, <2>1 DEF CreateSegment
    <3>2. nsegs' \in Segs /\ nsegs' \in 0 .. MaxSegs
      BY <3>1 DEF Segs
    <3>3. new_shm' \in [Procs -> BOOLEAN]
      BY <3>1, Zenon
    <3> QED
      BY <3>1, <3>2, <3>3
  <2>2. CASE key # NoSeg
    BY <1>3, <2>2 DEF CreateSegment
  <2> QED
    BY <2>1, <2>2
<1>4. CASE Attach(p)
  <2>1. shm_id[p] \in Segs
    BY <1>4 DEF Attach, PlaceInv
  <2>2. attached' \in [Segs -> SUBSET Procs]
    BY <1>4, <2>1 DEF Attach
  <2>3. pc' \in [Procs -> States]
    BY <1>4 DEF Attach, States
  <2>4. UNCHANGED <<key, nsegs, dest, shm_id, new_shm, history, words>>
    BY <1>4 DEF Attach
  <2> QED
    BY <2>2, <2>3, <2>4 DEF States
<1>5. CASE OpenDevice(p)
  BY <1>5 DEF OpenDevice
<1>6. CASE DeviceFails(p)
  <2>1. shm_id[p] \in Segs
    BY <1>6 DEF DeviceFails, PlaceInv
  <2> QED
    BY <1>6, <2>1, DetachType, RemoveType DEF DeviceFails, Note, Mishaps
<1>7. CASE ClearSegment(p)
  BY <1>7 DEF ClearSegment
<1> QED
  BY <1>1, <1>2, <1>3, <1>4, <1>5, <1>6, <1>7 DEF InitCanIo

LEMMA StartCanIoType ==
  ASSUME TypeOK, PlaceInv, NEW p \in Procs, StartCanIo(p)
  PROVE  TypeOK'
<1> USE Constants DEF TypeOK, Go, kernel, words, history
<1>1. CASE Refuse(p)
  BY <1>1 DEF Refuse
<1>2. CASE ExitRefused(p)
  BY <1>2, DetachType DEF ExitRefused, PlaceInv
<1>3. CASE Accept(p)
  BY <1>3 DEF Accept
<1>4. CASE ClaimPid(p)
  BY <1>4 DEF ClaimPid, PlaceInv
<1>5. CASE ClaimOpen(p)
  BY <1>5 DEF ClaimOpen
<1> QED
  BY <1>1, <1>2, <1>3, <1>4, <1>5 DEF StartCanIo

LEMMA LeaveType ==
  ASSUME TypeOK, PlaceInv, NEW p \in Procs, Leave(p)
  PROVE  TypeOK'
<1> USE Constants DEF TypeOK, Go, kernel, words, history
<1>1. CASE Terminate(p)
  BY <1>1, HastyType DEF Terminate, Note
<1>2. CASE StopOnAlarm(p)
  BY <1>2, DetachType DEF StopOnAlarm, PlaceInv
<1>3. CASE TerminateEarly(p)
  BY <1>3, DetachType DEF TerminateEarly, PlaceInv, Note, Mishaps
<1>4. CASE ClientExit(p)
  BY <1>4, DetachType, HastyType DEF ClientExit, PlaceInv, Note
<1>5. CASE CountAttached(p)
  BY <1>5 DEF CountAttached
<1>6. CASE RemoveAndExit(p)
  <2>1. shm_id[p] \in Segs
    BY <1>6 DEF RemoveAndExit, PlaceInv
  <2> QED
    BY <1>6, <2>1, RemoveType DEF RemoveAndExit
<1>7. CASE Crash(p)
  BY <1>7, DetachType DEF Crash, PlaceInv
<1> QED
  BY <1>1, <1>2, <1>3, <1>4, <1>5, <1>6, <1>7 DEF Leave

LEMMA OthersType ==
  ASSUME TypeOK, NEW p \in Procs, Others(p)
  PROVE  TypeOK'
<1> USE DEF TypeOK, Go, kernel, words, history
<1>1. CASE OtherStarts(p)
  BY <1>1 DEF OtherStarts, Note, Mishaps
<1>2. CASE OtherEnds(p)
  BY <1>2 DEF OtherEnds
<1> QED
  BY <1>1, <1>2 DEF Others

LEMMA NextType == TypeOK /\ PlaceInv /\ [Next]_vars => TypeOK'
<1> SUFFICES ASSUME TypeOK, PlaceInv, [Next]_vars PROVE TypeOK'
  OBVIOUS
<1>1. CASE UNCHANGED vars
  BY <1>1 DEF vars, TypeOK
<1> QED
  BY <1>1, InitCanIoType, StartCanIoType, LeaveType, OthersType DEF Next

-----------------------------------------------------------------------------
(* Who is where.                                                           *)

(* Who detaches is attached to nothing, and the others stay.               *)
LEMMA DetachPlace ==
  ASSUME TypeOK, PlaceInv, NEW p \in Procs, shm_id[p] \in Segs, Detach(p),
         UNCHANGED shm_id, NEW to \in {"off", "stat"},
         pc' = [pc EXCEPT ![p] = to]
  PROVE  PlaceInv'
<1>1. /\ \A g \in Segs : attached'[g] \subseteq attached[g]
      /\ \A q \in Procs, g \in Segs :
           q # p \/ g # shm_id[p] => (q \in attached'[g] <=> q \in attached[g])
      /\ p \notin attached'[shm_id[p]]
  BY DetachType
<1> SUFFICES ASSUME NEW q \in Procs
             PROVE
    /\ pc'[q] \notin {"off", "other", "find", "attach", "device", "client",
                      "stat", "remove"}
         => q \in Servers
    /\ pc'[q] \notin {"off", "other", "find", "create"} => shm_id'[q] \in Segs
    /\ \A g \in Segs : q \in attached'[g] => Holds(q)' /\ shm_id'[q] = g
    /\ Holds(q)' => q \in attached'[shm_id'[q]]
  BY DEF PlaceInv
<1>2. CASE q = p
  <2>1. pc'[q] = to /\ shm_id'[q] = shm_id[p]
    BY <1>2 DEF TypeOK
  <2>2. \A g \in Segs : p \notin attached'[g]
    BY <1>1 DEF PlaceInv
  <2> QED
    BY <1>2, <2>1, <2>2 DEF Holds
<1>3. CASE q # p
  <2>1. pc'[q] = pc[q] /\ shm_id'[q] = shm_id[q]
    BY <1>3 DEF TypeOK
  <2>2. pc[q] \notin {"off", "other", "find", "create"} => shm_id[q] \in Segs
    BY DEF PlaceInv
  <2> QED
    BY <1>1, <1>3, <2>1, <2>2 DEF PlaceInv, Holds
<1> QED
  BY <1>2, <1>3

LEMMA InitCanIoPlace ==
  ASSUME TypeOK, PlaceInv, NEW p \in Procs, InitCanIo(p)
  PROVE  PlaceInv'
<1> USE Constants DEF TypeOK, PlaceInv, Holds, Go, kernel, words, history
<1>1. CASE Start(p)
  BY <1>1 DEF Start
<1>2. CASE FindSegment(p)
  BY <1>2 DEF FindSegment
<1>3. CASE CreateSegment(p)
  <2>1. CASE key = NoSeg
    <3>1. /\ nsegs' \in Segs /\ shm_id' = [shm_id EXCEPT ![p] = nsegs']
          /\ pc[p] = "create" /\ pc' = [pc EXCEPT ![p] = "attach"]
          /\ attached' = attached
      BY <1>3, <2>1 DEF CreateSegment, Segs
    <3> QED
      BY <3>1
  <2>2. CASE key # NoSeg
    BY <1>3, <2>2 DEF CreateSegment
  <2> QED
    BY <2>1, <2>2
<1>4. CASE Attach(p)
  <2>1. CASE Gone(shm_id[p])
    BY <1>4, <2>1 DEF Attach
  <2>2. CASE ~Gone(shm_id[p])
    <3>1. /\ pc' = [pc EXCEPT ![p] = "device"]
          /\ attached' = [attached EXCEPT ![shm_id[p]] = @ \cup {p}]
          /\ shm_id' = shm_id /\ shm_id[p] \in Segs
      BY <1>4, <2>2 DEF Attach
    <3>2. \A g \in Segs : attached'[g] = IF g = shm_id[p]
                                         THEN attached[g] \cup {p}
                                         ELSE attached[g]
      BY <3>1
    <3> QED
      BY <3>1, <3>2
  <2> QED
    BY <2>1, <2>2
<1>5. CASE OpenDevice(p)
  BY <1>5 DEF OpenDevice
<1>6. CASE DeviceFails(p)
  <2>1. /\ shm_id[p] \in Segs /\ Detach(p) /\ UNCHANGED shm_id
        /\ \E to \in {"off", "stat"} : pc' = [pc EXCEPT ![p] = to]
    BY <1>6 DEF DeviceFails
  <2> QED
    BY <2>1, DetachPlace
<1>7. CASE ClearSegment(p)
  BY <1>7 DEF ClearSegment
<1> QED
  BY <1>1, <1>2, <1>3, <1>4, <1>5, <1>6, <1>7 DEF InitCanIo

LEMMA StartCanIoPlace ==
  ASSUME TypeOK, PlaceInv, NEW p \in Procs, StartCanIo(p)
  PROVE  PlaceInv'
<1> USE Constants DEF TypeOK, PlaceInv, Holds, Go, kernel, words, history
<1>1. CASE Refuse(p)
  BY <1>1 DEF Refuse
<1>2. CASE ExitRefused(p)
  <2>1. /\ shm_id[p] \in Segs /\ Detach(p) /\ UNCHANGED shm_id
        /\ \E to \in {"off", "stat"} : pc' = [pc EXCEPT ![p] = to]
    BY <1>2 DEF ExitRefused
  <2> QED
    BY <2>1, DetachPlace
<1>3. CASE Accept(p)
  BY <1>3 DEF Accept
<1>4. CASE ClaimPid(p)
  BY <1>4 DEF ClaimPid
<1>5. CASE ClaimOpen(p)
  BY <1>5 DEF ClaimOpen
<1> QED
  BY <1>1, <1>2, <1>3, <1>4, <1>5 DEF StartCanIo

LEMMA LeavePlace ==
  ASSUME TypeOK, PlaceInv, NEW p \in Procs, Leave(p)
  PROVE  PlaceInv'
<1> USE Constants DEF TypeOK, PlaceInv, Holds, Go, kernel, words, history
<1>1. CASE Terminate(p)
  BY <1>1 DEF Terminate
<1>2. CASE StopOnAlarm(p)
  <2>1. /\ shm_id[p] \in Segs /\ Detach(p) /\ UNCHANGED shm_id
        /\ \E to \in {"off", "stat"} : pc' = [pc EXCEPT ![p] = to]
    BY <1>2 DEF StopOnAlarm
  <2> QED
    BY <2>1, DetachPlace
<1>3. CASE TerminateEarly(p)
  <2>1. /\ shm_id[p] \in Segs /\ Detach(p) /\ UNCHANGED shm_id
        /\ \E to \in {"off", "stat"} : pc' = [pc EXCEPT ![p] = to]
    BY <1>3 DEF TerminateEarly
  <2> QED
    BY <2>1, DetachPlace
<1>4. CASE ClientExit(p)
  <2>1. /\ shm_id[p] \in Segs /\ Detach(p) /\ UNCHANGED shm_id
        /\ \E to \in {"off", "stat"} : pc' = [pc EXCEPT ![p] = to]
    BY <1>4 DEF ClientExit
  <2> QED
    BY <2>1, DetachPlace
<1>5. CASE CountAttached(p)
  BY <1>5 DEF CountAttached
<1>6. CASE RemoveAndExit(p)
  BY <1>6 DEF RemoveAndExit
<1>7. CASE Crash(p)
  <2>1. /\ shm_id[p] \in Segs /\ Detach(p) /\ UNCHANGED shm_id
        /\ \E to \in {"off", "stat"} : pc' = [pc EXCEPT ![p] = to]
    BY <1>7 DEF Crash
  <2> QED
    BY <2>1, DetachPlace
<1> QED
  BY <1>1, <1>2, <1>3, <1>4, <1>5, <1>6, <1>7 DEF Leave

LEMMA OthersPlace ==
  ASSUME TypeOK, PlaceInv, NEW p \in Procs, Others(p)
  PROVE  PlaceInv'
BY DEF TypeOK, PlaceInv, Holds, Go, kernel, Others, OtherStarts, OtherEnds

LEMMA NextPlace == TypeOK /\ PlaceInv /\ [Next]_vars => PlaceInv'
<1> SUFFICES ASSUME TypeOK, PlaceInv, [Next]_vars PROVE PlaceInv'
  OBVIOUS
<1>1. CASE UNCHANGED vars
  BY <1>1 DEF vars, PlaceInv, Holds
<1> QED
  BY <1>1, InitCanIoPlace, StartCanIoPlace, LeavePlace, OthersPlace DEF Next

-----------------------------------------------------------------------------
(* Without mishaps.                                                        *)

(* A mishap once noted stays; and if none is noted when a process goes in  *)
(* or out, the others neither start nor leave.                             *)
LEMMA CalmBefore ==
  ASSUME [Next]_vars, mishaps' \subseteq {"pid_reused"}
  PROVE  mishaps \subseteq {"pid_reused"}
BY DEF vars, Next, InitCanIo, StartCanIo, Leave, Start, FindSegment,
       CreateSegment, Attach, OpenDevice, DeviceFails, ClearSegment, Refuse,
       ExitRefused, Accept, ClaimPid, ClaimOpen, Terminate, StopOnAlarm,
       TerminateEarly, ClientExit, CountAttached, RemoveAndExit, Crash, Others,
       OtherStarts, OtherEnds, Note, history

LEMMA NotHasty ==
  ASSUME NEW p \in Procs, Hasty(p) \subseteq mishaps',
         mishaps' \subseteq {"pid_reused"}
  PROVE  \A q \in Procs \ {p} : ~Busy(q)
BY DEF Hasty, Busy

LEMMA InitCanIoCalm ==
  ASSUME TypeOK, PlaceInv, BusyInv, SegmentInv, WordsInv,
         NEW p \in Procs, InitCanIo(p), mishaps' \subseteq {"pid_reused"}
  PROVE  BusyInv' /\ SegmentInv' /\ WordsInv'
<1> USE Constants DEF TypeOK, Go, kernel, words, history, Holds, Busy, InStart,
                      InExit, Creates, Removes
<1>1. CASE Start(p)
  <2>1. \A q \in Procs \ {p} : ~Busy(q)
    BY <1>1, NotHasty DEF Note, Start
  <2>2. BusyInv'
    BY <1>1, <2>1 DEF Start, BusyInv
  <2>3. SegmentInv'
    BY <1>1, <2>1 DEF Start, SegmentInv
  <2>4. WordsInv'
    BY <1>1 DEF Start, WordsInv
  <2> QED
    BY <2>2, <2>3, <2>4
<1>2. CASE FindSegment(p)
  <2>1. BusyInv'
    BY <1>2 DEF FindSegment, BusyInv
  <2>2. SegmentInv'
    BY <1>2 DEF FindSegment, SegmentInv, BusyInv
  <2>3. WordsInv'
    BY <1>2 DEF FindSegment, WordsInv
  <2> QED
    BY <2>1, <2>2, <2>3
<1>3. CASE CreateSegment(p)
  <2>1. BusyInv'
    BY <1>3 DEF CreateSegment, BusyInv
  <2>2. CASE key # NoSeg
    BY <1>3, <2>1, <2>2 DEF CreateSegment, SegmentInv, WordsInv
  <2>3. ASSUME key = NoSeg, NEW q \in Procs, q # p
        PROVE  ~Holds(q) /\ pc[q] \notin {"attach", "stat", "remove"}
    BY <1>3, <2>3 DEF SegmentInv
  <2>4. CASE key = NoSeg
    <3>1. /\ key' # NoSeg /\ shm_id'[p] = key' /\ pc'[p] = "attach"
          /\ \A q \in Procs \ {p} : pc'[q] = pc[q]
      BY <1>3, <2>4 DEF CreateSegment, Segs, NoSeg
    <3>2. SegmentInv'
      BY <2>3, <2>4, <3>1 DEF SegmentInv
    <3>3. WordsInv'
      BY <2>3, <2>4, <3>1 DEF WordsInv
    <3> QED
      BY <2>1, <3>2, <3>3
  <2> QED
    BY <2>2, <2>4
<1>4. CASE Attach(p)
  <2>1. BusyInv'
    BY <1>4 DEF Attach, BusyInv
  <2>2. SegmentInv'
    BY <1>4 DEF Attach, SegmentInv, BusyInv
  <2>3. WordsInv'
    BY <1>4 DEF Attach, WordsInv
  <2> QED
    BY <2>1, <2>2, <2>3
<1>5. CASE OpenDevice(p)
  <2>1. BusyInv'
    BY <1>5 DEF OpenDevice, BusyInv
  <2>2. SegmentInv'
    BY <1>5 DEF OpenDevice, SegmentInv
  <2>3. WordsInv'
    BY <1>5 DEF OpenDevice, WordsInv
  <2> QED
    BY <2>1, <2>2, <2>3
<1>6. CASE DeviceFails(p)
  BY <1>6 DEF DeviceFails, Note
<1>7. CASE ClearSegment(p)
  <2>1. BusyInv'
    BY <1>7 DEF ClearSegment, BusyInv
  <2>2. SegmentInv'
    BY <1>7 DEF ClearSegment, SegmentInv
  <2>3. ASSUME NEW q \in Procs, q # p
        PROVE  ~Holds(q)
    BY <1>7, <2>3 DEF ClearSegment, SegmentInv
  <2>4. WordsInv'
    BY <1>7, <2>3 DEF ClearSegment, WordsInv
  <2> QED
    BY <2>1, <2>2, <2>4
<1> QED
  BY <1>1, <1>2, <1>3, <1>4, <1>5, <1>6, <1>7 DEF InitCanIo

LEMMA StartCanIoCalm ==
  ASSUME TypeOK, PlaceInv, BusyInv, SegmentInv, WordsInv,
         NEW p \in Procs, StartCanIo(p), mishaps' \subseteq {"pid_reused"}
  PROVE  BusyInv' /\ SegmentInv' /\ WordsInv'
<1> USE Constants DEF TypeOK, Go, kernel, words, history, Holds, Busy, InStart,
                      InExit, Creates, Removes
<1>1. CASE Refuse(p)
  BY <1>1 DEF Refuse, BusyInv, SegmentInv, WordsInv
<1>2. CASE ExitRefused(p)
  BY <1>2 DEF ExitRefused, BusyInv, SegmentInv, WordsInv
<1>3. CASE Accept(p)
  <2>1. BusyInv' /\ SegmentInv'
    BY <1>3 DEF Accept, BusyInv, SegmentInv
  <2>2. ASSUME NEW q \in Servers PROVE pc[q] # "run"
    <3> SUFFICES ASSUME pc[q] = "run" PROVE FALSE
      OBVIOUS
    <3>1. shm_id[p] = key /\ can_pid[key] = q /\ can_open[key] /\ Alive(q)
      BY <1>3, <2>2 DEF Accept, SegmentInv, WordsInv, Alive
    <3> QED
      BY <1>3, <2>2, <3>1 DEF Accept, can_io_ok, can_io_shm_ok
  <2>3. WordsInv'
    BY <1>3, <2>2 DEF Accept, WordsInv, BusyInv
  <2> QED
    BY <2>1, <2>3
<1>4. CASE ClaimPid(p)
  <2>1. BusyInv' /\ SegmentInv'
    BY <1>4 DEF ClaimPid, BusyInv, SegmentInv
  <2>2. WordsInv'
    BY <1>4 DEF ClaimPid, WordsInv, SegmentInv, BusyInv, PlaceInv
  <2> QED
    BY <2>1, <2>2
<1>5. CASE ClaimOpen(p)
  <2>1. BusyInv' /\ SegmentInv'
    BY <1>5 DEF ClaimOpen, BusyInv, SegmentInv
  <2>2. WordsInv'
    BY <1>5 DEF ClaimOpen, WordsInv, SegmentInv, BusyInv, PlaceInv
  <2> QED
    BY <2>1, <2>2
<1> QED
  BY <1>1, <1>2, <1>3, <1>4, <1>5 DEF StartCanIo

LEMMA LeaveCalm ==
  ASSUME TypeOK, PlaceInv, BusyInv, SegmentInv, WordsInv,
         NEW p \in Procs, Leave(p), mishaps' \subseteq {"pid_reused"}
  PROVE  BusyInv' /\ SegmentInv' /\ WordsInv'
<1> USE Constants DEF TypeOK, Go, kernel, words, history, Holds, Busy, InStart,
                      InExit, Creates, Removes
<1>1. CASE Terminate(p)
  <2>1. \A q \in Procs \ {p} : ~Busy(q)
    BY <1>1, NotHasty DEF Note, Terminate
  <2>2. BusyInv' /\ SegmentInv'
    BY <1>1, <2>1 DEF Terminate, BusyInv, SegmentInv
  <2>3. ASSUME NEW q \in Servers, q # p PROVE pc[q] # "run"
    BY <1>1, <2>3 DEF Terminate, WordsInv, PlaceInv
  <2>4. WordsInv'
    BY <1>1, <2>1, <2>3 DEF Terminate, WordsInv
  <2> QED
    BY <2>2, <2>4
<1>2. CASE StopOnAlarm(p)
  <2>1. BusyInv' /\ SegmentInv'
    BY <1>2 DEF StopOnAlarm, BusyInv, SegmentInv
  <2>2. WordsInv'
    BY <1>2 DEF StopOnAlarm, WordsInv, BusyInv, PlaceInv
  <2> QED
    BY <2>1, <2>2
<1>3. CASE TerminateEarly(p)
  BY <1>3 DEF TerminateEarly, Note
<1>4. CASE ClientExit(p)
  <2>1. \A q \in Procs \ {p} : ~Busy(q)
    BY <1>4, NotHasty DEF Note, ClientExit
  <2>2. BusyInv' /\ SegmentInv'
    BY <1>4, <2>1 DEF ClientExit, BusyInv, SegmentInv
  <2>3. WordsInv'
    BY <1>4, <2>1 DEF ClientExit, WordsInv
  <2> QED
    BY <2>2, <2>3
<1>5. CASE CountAttached(p)
  <2>1. BusyInv'
    BY <1>5 DEF CountAttached, BusyInv
  <2>2. attached[shm_id[p]] = {} => \A q \in Procs : ~Holds(q)
    BY <1>5 DEF CountAttached, SegmentInv, PlaceInv
  <2>3. SegmentInv'
    BY <1>5, <2>2 DEF CountAttached, SegmentInv
  <2>4. WordsInv'
    BY <1>5 DEF CountAttached, WordsInv
  <2> QED
    BY <2>1, <2>3, <2>4
<1>6. CASE RemoveAndExit(p)
  <2>1. \A q \in Procs \ {p} : ~Holds(q) /\ ~Busy(q)
    <3>1. pc[p] = "remove"
      BY <1>6 DEF RemoveAndExit
    <3>2. \A q \in Procs \ {p} : ~Holds(q)
      BY <3>1 DEF SegmentInv
    <3>3. \A q \in Procs \ {p} : ~Busy(q)
      BY <3>1 DEF BusyInv
    <3> QED
      BY <3>2, <3>3
  <2>2. BusyInv' /\ SegmentInv'
    BY <1>6, <2>1 DEF RemoveAndExit, BusyInv, SegmentInv
  <2>3. WordsInv'
    BY <1>6, <2>1 DEF RemoveAndExit, WordsInv
  <2> QED
    BY <2>2, <2>3
<1>7. CASE Crash(p)
  <2>1. BusyInv' /\ SegmentInv'
    BY <1>7 DEF Crash, BusyInv, SegmentInv
  <2>2. WordsInv'
    BY <1>7 DEF Crash, WordsInv
  <2> QED
    BY <2>1, <2>2
<1> QED
  BY <1>1, <1>2, <1>3, <1>4, <1>5, <1>6, <1>7 DEF Leave

LEMMA OthersCalm ==
  ASSUME TypeOK, BusyInv, SegmentInv, WordsInv, NEW p \in Procs, Others(p)
  PROVE  BusyInv' /\ SegmentInv' /\ WordsInv'
BY Constants
   DEF TypeOK, Go, kernel, words, Holds, Busy, InStart, InExit, Creates,
       Removes, Others, OtherStarts, OtherEnds, BusyInv, SegmentInv, WordsInv

-----------------------------------------------------------------------------
(* Every step keeps the invariant.                                         *)
LEMMA NextIInv == IInv /\ [Next]_vars => IInv'
<1> SUFFICES ASSUME IInv, [Next]_vars PROVE IInv'
  OBVIOUS
<1>1. TypeOK' /\ PlaceInv'
  BY NextType, NextPlace DEF IInv
<1>2. CalmInv'
  <2> SUFFICES ASSUME mishaps' \subseteq {"pid_reused"}
               PROVE  BusyInv' /\ SegmentInv' /\ WordsInv'
    BY DEF CalmInv
  <2>1. BusyInv /\ SegmentInv /\ WordsInv
    BY CalmBefore DEF IInv, CalmInv
  <2>2. CASE UNCHANGED vars
    BY <2>1, <2>2 DEF vars, BusyInv, SegmentInv, WordsInv, Holds, Busy,
                      InStart, InExit, Creates, Removes
  <2> QED
    BY <2>1, <2>2, InitCanIoCalm, StartCanIoCalm, LeaveCalm, OthersCalm
       DEF IInv, Next
<1> QED
  BY <1>1, <1>2 DEF IInv

(* Servers, clients and their segments are where IInv says in every state. *)
THEOREM Invariance == Spec => []IInv
BY InitIInv, NextIInv, PTL DEF Spec

(* No two servers read the device, crashes and restarts included, whoever  *)
(* got the PIDs of the dead, as long as starts and exits do not overlap,   *)
(* no server is signalled early, and device and lock file open.            *)
THEOREM OneServerReads == Spec => []OneServer
<1>1. IInv => OneServer
  <2> SUFFICES ASSUME IInv, mishaps \subseteq {"pid_reused"}
               PROVE  Cardinality(Running) <= 1
    BY DEF OneServer
  <2>1. ASSUME NEW p \in Running, NEW q \in Running PROVE p = q
    BY DEF IInv, CalmInv, WordsInv, Running
  <2>2. CASE Running = {}
    BY <2>2, FS_EmptySet
  <2>3. CASE Running # {}
    <3>1. PICK p \in Running : Running = {p}
      BY <2>1, <2>3
    <3>2. Cardinality({p}) = 1
      BY FS_Singleton
    <3> QED
      BY <3>1, <3>2
  <2> QED
    BY <2>2, <2>3
<1> QED
  BY <1>1, Invariance, PTL

(* A client that starts finds the segment of the server that runs, under   *)
(* the same condition.                                                     *)
THEOREM KeyNamesServer == Spec => []KeyLeadsToServer
<1>1. IInv => KeyLeadsToServer
  BY Constants
     DEF IInv, CalmInv, SegmentInv, Holds, KeyLeadsToServer, Running
<1> QED
  BY <1>1, Invariance, PTL
-----------------------------------------------------------------------------
(* Also with devices that fail, beside segments that were removed.         *)

LEMMA InitWordsIInv == Init => WordsIInv
<1> SUFFICES ASSUME Init PROVE WordsIInv
  OBVIOUS
<1>1. IInv
  BY InitIInv
<1>2. NumberInv /\ NamedInv
  BY Constants DEF Init, NumberInv, NamedInv, StartsInv, ClaimInv, NoSeg,
                   NoPid, InStart
<1>3. OrderlyInv
  BY Constants
     DEF Init, OrderlyInv, BusyInv, AloneInv, ServesInv, Busy, InStart,
         InExit, Creates
<1> QED
  BY <1>1, <1>2, <1>3 DEF WordsIInv

(* Segments are numbered in the order of their creation ...                *)
LEMMA NextNumber == TypeOK /\ NumberInv /\ [Next]_vars => NumberInv'
<1> SUFFICES ASSUME TypeOK, NumberInv, [Next]_vars PROVE NumberInv'
  OBVIOUS
<1> USE Constants DEF TypeOK, NumberInv, kernel, NoSeg
<1>1. CASE UNCHANGED vars
  BY <1>1 DEF vars
<1>2. ASSUME NEW p \in Procs, InitCanIo(p) PROVE NumberInv'
  <2>1. CASE FindSegment(p)
    BY <2>1 DEF FindSegment
  <2>2. CASE CreateSegment(p)
    <3>1. CASE key # NoSeg
      BY <2>2, <3>1 DEF CreateSegment
    <3>2. CASE key = NoSeg
      <4>1. /\ nsegs' = nsegs + 1 /\ key' = nsegs + 1
            /\ shm_id' = [shm_id EXCEPT ![p] = nsegs + 1]
        BY <2>2, <3>2 DEF CreateSegment
      <4>2. \A q \in Procs : shm_id[q] \in Int /\ shm_id[q] <= nsegs
        BY DEF Segs
      <4> QED
        BY <4>1, <4>2
    <3> QED
      BY <3>1, <3>2
  <2>3. CASE Attach(p) \/ DeviceFails(p)
    BY <2>3 DEF Attach, DeviceFails, RemoveSegment
  <2>4. CASE Start(p) \/ OpenDevice(p) \/ ClearSegment(p)
    BY <2>4 DEF Start, OpenDevice, ClearSegment
  <2> QED
    BY <1>2, <2>1, <2>2, <2>3, <2>4 DEF InitCanIo
<1>3. ASSUME NEW p \in Procs, StartCanIo(p) PROVE NumberInv'
  BY <1>3 DEF StartCanIo, Refuse, ExitRefused, Accept, ClaimPid, ClaimOpen
<1>4. ASSUME NEW p \in Procs, Leave(p) PROVE NumberInv'
  BY <1>4 DEF Leave, Terminate, StopOnAlarm, TerminateEarly, ClientExit,
              CountAttached, RemoveAndExit, Crash, RemoveSegment
<1>5. ASSUME NEW p \in Procs, Others(p) PROVE NumberInv'
  BY <1>5 DEF Others, OtherStarts, OtherEnds
<1> QED
  BY <1>1, <1>2, <1>3, <1>4, <1>5 DEF Next

(* ... and name living servers only as long as those have claimed them.    *)
LEMMA NamedBefore ==
  ASSUME [Next]_vars, mishaps' \cap {"overlap", "pid_reused"} = {}
  PROVE  mishaps \cap {"overlap", "pid_reused"} = {}
BY DEF vars, Next, InitCanIo, StartCanIo, Leave, Start, FindSegment,
       CreateSegment, Attach, OpenDevice, DeviceFails, ClearSegment, Refuse,
       ExitRefused, Accept, ClaimPid, ClaimOpen, Terminate, StopOnAlarm,
       TerminateEarly, ClientExit, CountAttached, RemoveAndExit, Crash, Others,
       OtherStarts, OtherEnds, Note, history

LEMMA InitCanIoNamed ==
  ASSUME TypeOK, PlaceInv, StartsInv, ClaimInv, NEW p \in Procs, InitCanIo(p),
         mishaps' \cap {"overlap", "pid_reused"} = {}
  PROVE  StartsInv' /\ ClaimInv'
<1> USE Constants DEF TypeOK, Go, InStart, words, kernel
<1>1. CASE Start(p)
  <2>1. /\ \A q \in Procs \ {p} : ~InStart(q)
        /\ ~Named(p)
    BY <1>1 DEF Start, Note, Hasty, Reused
  <2>2. StartsInv'
    BY <1>1, <2>1 DEF Start, StartsInv
  <2>3. ClaimInv'
    BY <1>1, <2>1 DEF Start, ClaimInv, Named
  <2> QED
    BY <2>2, <2>3
<1>2. CASE FindSegment(p) \/ CreateSegment(p)
  BY <1>2 DEF FindSegment, CreateSegment, StartsInv, ClaimInv
<1>3. CASE Attach(p)
  BY <1>3 DEF Attach, StartsInv, ClaimInv
<1>4. CASE OpenDevice(p) \/ DeviceFails(p)
  BY <1>4 DEF OpenDevice, DeviceFails, StartsInv, ClaimInv
<1>5. CASE ClearSegment(p)
  <2>1. StartsInv'
    BY <1>5 DEF ClearSegment, StartsInv
  <2>2. ClaimInv'
    BY <1>5 DEF ClearSegment, ClaimInv
  <2> QED
    BY <2>1, <2>2
<1> QED
  BY <1>1, <1>2, <1>3, <1>4, <1>5 DEF InitCanIo

LEMMA StartCanIoNamed ==
  ASSUME TypeOK, PlaceInv, StartsInv, ClaimInv, NEW p \in Procs, StartCanIo(p)
  PROVE  StartsInv' /\ ClaimInv'
<1> USE Constants DEF TypeOK, Go, InStart, words, kernel
<1>1. StartsInv'
  BY DEF StartCanIo, Refuse, ExitRefused, Accept, ClaimPid, ClaimOpen,
         StartsInv
<1>2. CASE Refuse(p) \/ ExitRefused(p) \/ Accept(p)
  BY <1>1, <1>2 DEF Refuse, ExitRefused, Accept, ClaimInv
<1>3. CASE ClaimPid(p)
  <2>1. p \in Servers /\ shm_id[p] \in Segs
    BY <1>3 DEF ClaimPid, PlaceInv
  <2>2. \A q \in Procs \ {p} : pc[q] # "claim_open"
    BY <1>3 DEF ClaimPid, StartsInv
  <2>3. /\ can_pid' = [can_pid EXCEPT ![shm_id[p]] = p]
        /\ pc[p] = "claim_pid" /\ pc' = [pc EXCEPT ![p] = "claim_open"]
        /\ UNCHANGED <<can_open, shm_id>>
    BY <1>3 DEF ClaimPid
  <2>4. \A g \in Segs : can_pid[g] # p
    BY <2>1, <2>3 DEF ClaimInv
  <2>5. ASSUME NEW q \in Servers
        PROVE  /\ \A g \in Segs : can_pid'[g] = q /\ pc'[q] # "off"
                    => /\ shm_id'[q] = g
                       /\ pc'[q] \in {"claim_open", "run", "stopping", "stat",
                                      "remove"}
                       /\ pc'[q] \in {"stopping", "stat", "remove"}
                            => ~can_open'[g]
               /\ pc'[q] = "claim_open" => can_pid'[shm_id'[q]] \in {q, NoPid}
    <3>1. CASE q = p
      BY <2>1, <2>3, <2>4, <3>1
    <3>2. CASE q # p
      <4>1. pc'[q] = pc[q] /\ shm_id'[q] = shm_id[q] /\ pc[q] # "claim_open"
        BY <2>2, <2>3, <3>2
      <4>2. \A g \in Segs : can_pid'[g] = q => can_pid[g] = q
        BY <2>1, <2>3, <3>2
      <4> QED
        BY <2>3, <4>1, <4>2 DEF ClaimInv
    <3> QED
      BY <3>1, <3>2
  <2>6. ClaimInv'
    BY <2>5 DEF ClaimInv
  <2> QED
    BY <1>1, <2>6
<1>4. CASE ClaimOpen(p)
  <2>1. p \in Servers /\ shm_id[p] \in Segs
    BY <1>4 DEF ClaimOpen, PlaceInv
  <2>2. can_pid[shm_id[p]] \in {p, NoPid}
    BY <1>4, <2>1 DEF ClaimOpen, ClaimInv
  <2>3. /\ can_open' = [can_open EXCEPT ![shm_id[p]] = TRUE]
        /\ pc[p] = "claim_open" /\ pc' = [pc EXCEPT ![p] = "run"]
        /\ UNCHANGED <<can_pid, shm_id>>
    BY <1>4 DEF ClaimOpen
  <2>4. ASSUME NEW q \in Servers
        PROVE  /\ \A g \in Segs : can_pid'[g] = q /\ pc'[q] # "off"
                    => /\ shm_id'[q] = g
                       /\ pc'[q] \in {"claim_open", "run", "stopping", "stat",
                                      "remove"}
                       /\ pc'[q] \in {"stopping", "stat", "remove"}
                            => ~can_open'[g]
               /\ pc'[q] = "claim_open" => can_pid'[shm_id'[q]] \in {q, NoPid}
    <3>1. CASE q = p
      BY <2>1, <2>3, <3>1 DEF ClaimInv
    <3>2. CASE q # p
      <4>1. pc'[q] = pc[q]
        BY <2>3, <3>2
      <4>2. \A g \in Segs : can_pid[g] = q => g # shm_id[p]
        BY <2>2, <3>2, Constants
      <4> QED
        BY <2>1, <2>3, <4>1, <4>2 DEF ClaimInv
    <3> QED
      BY <3>1, <3>2
  <2>5. ClaimInv'
    BY <2>4 DEF ClaimInv
  <2> QED
    BY <1>1, <2>5
<1> QED
  BY <1>2, <1>3, <1>4 DEF StartCanIo

LEMMA LeaveNamed ==
  ASSUME TypeOK, PlaceInv, StartsInv, ClaimInv, NEW p \in Procs, Leave(p)
  PROVE  StartsInv' /\ ClaimInv'
<1> USE Constants DEF TypeOK, Go, InStart, words, kernel
<1>1. StartsInv'
  BY DEF Leave, Terminate, StopOnAlarm, TerminateEarly, ClientExit,
         CountAttached, RemoveAndExit, Crash, StartsInv
<1>2. CASE Terminate(p)
  <2>1. p \in Servers /\ shm_id[p] \in Segs
    BY <1>2 DEF Terminate, PlaceInv
  <2>2. ClaimInv'
    BY <1>2, <2>1 DEF Terminate, ClaimInv
  <2> QED
    BY <1>1, <2>2
<1>3. CASE StopOnAlarm(p)
  <2>1. p \in Servers /\ shm_id[p] \in Segs
    BY <1>3 DEF StopOnAlarm, PlaceInv
  <2>2. ClaimInv'
    BY <1>3, <2>1 DEF StopOnAlarm, ClaimInv
  <2> QED
    BY <1>1, <2>2
<1>4. CASE TerminateEarly(p)
  <2>1. p \in Servers /\ shm_id[p] \in Segs
    BY <1>4 DEF TerminateEarly, PlaceInv
  <2>2. ClaimInv'
    BY <1>4, <2>1 DEF TerminateEarly, ClaimInv
  <2> QED
    BY <1>1, <2>2
<1>5. CASE ClientExit(p) \/ CountAttached(p)
  <2>1. pc[p] = "client" => p \notin Servers \/ \A g \in Segs : can_pid[g] # p
    BY DEF ClaimInv
  <2>2. ClaimInv'
    BY <1>5, <2>1 DEF ClientExit, CountAttached, ClaimInv
  <2> QED
    BY <1>1, <2>2
<1>6. CASE RemoveAndExit(p) \/ Crash(p)
  BY <1>1, <1>6 DEF RemoveAndExit, Crash, ClaimInv
<1> QED
  BY <1>2, <1>3, <1>4, <1>5, <1>6 DEF Leave

LEMMA NextNamed ==
  TypeOK /\ PlaceInv /\ NamedInv /\ [Next]_vars => NamedInv'
<1> SUFFICES ASSUME TypeOK, PlaceInv, NamedInv, [Next]_vars,
                    mishaps' \cap {"overlap", "pid_reused"} = {}
             PROVE  StartsInv' /\ ClaimInv'
  BY DEF NamedInv
<1>1. StartsInv /\ ClaimInv
  BY NamedBefore DEF NamedInv
<1>2. CASE UNCHANGED vars
  BY <1>1, <1>2 DEF vars, StartsInv, ClaimInv, InStart
<1>3. ASSUME NEW p \in Procs, Others(p) PROVE StartsInv' /\ ClaimInv'
  <2>1. OtherEnds(p)
    BY <1>3 DEF Others, OtherStarts, Note
  <2> QED
    BY <1>1, <2>1 DEF OtherEnds, Go, TypeOK, StartsInv, ClaimInv, InStart,
                      words, kernel
<1> QED
  BY <1>1, <1>2, <1>3, InitCanIoNamed, StartCanIoNamed, LeaveNamed DEF Next

(* As before, for the mishaps that SoleServerServes allows.                *)
LEMMA OrderlyBefore ==
  ASSUME [Next]_vars, mishaps' \subseteq {"device_fails", "pid_reused"}
  PROVE  mishaps \subseteq {"device_fails", "pid_reused"}
BY DEF vars, Next, InitCanIo, StartCanIo, Leave, Start, FindSegment,
       CreateSegment, Attach, OpenDevice, DeviceFails, ClearSegment, Refuse,
       ExitRefused, Accept, ClaimPid, ClaimOpen, Terminate, StopOnAlarm,
       TerminateEarly, ClientExit, CountAttached, RemoveAndExit, Crash, Others,
       OtherStarts, OtherEnds, Note, history

LEMMA NobodyHasty ==
  ASSUME NEW p \in Procs, Hasty(p) \subseteq mishaps',
         mishaps' \subseteq {"device_fails", "pid_reused"}
  PROVE  \A q \in Procs \ {p} : ~Busy(q)
BY DEF Hasty, Busy

LEMMA OrderlyBusy ==
  ASSUME TypeOK, BusyInv, NEW p \in Procs,
         InitCanIo(p) \/ StartCanIo(p) \/ Leave(p),
         mishaps' \subseteq {"device_fails", "pid_reused"}
  PROVE  BusyInv'
<1> USE DEF TypeOK, Go, BusyInv, Busy, InStart, InExit
<1>1. CASE Start(p) \/ Terminate(p) \/ ClientExit(p)
  <2>1. \A q \in Procs \ {p} : ~Busy(q)
    BY <1>1, NobodyHasty DEF Note, Start, Terminate, ClientExit
  <2> QED
    BY <1>1, <2>1 DEF Start, Terminate, ClientExit
<1>2. CASE TerminateEarly(p)
  BY <1>2 DEF TerminateEarly, Note
<1>3. CASE InitCanIo(p) /\ ~Start(p)
  BY <1>3 DEF InitCanIo, FindSegment, CreateSegment, Attach, OpenDevice,
              DeviceFails, ClearSegment
<1>4. CASE StartCanIo(p)
  BY <1>4 DEF StartCanIo, Refuse, ExitRefused, Accept, ClaimPid, ClaimOpen
<1>5. CASE StopOnAlarm(p) \/ CountAttached(p) \/ RemoveAndExit(p) \/ Crash(p)
  BY <1>5 DEF StopOnAlarm, CountAttached, RemoveAndExit, Crash
<1> QED
  BY <1>1, <1>2, <1>3, <1>4, <1>5 DEF Leave

LEMMA InitCanIoOrderly ==
  ASSUME TypeOK, PlaceInv, NumberInv, BusyInv, AloneInv, ServesInv,
         NEW p \in Procs, InitCanIo(p)
  PROVE  AloneInv' /\ ServesInv'
<1> USE Constants DEF TypeOK, Go, words, Holds, Busy, InStart, InExit,
                      Creates, Shares, Serves
<1>1. CASE Start(p)
  BY <1>1 DEF Start, AloneInv, ServesInv
<1>2. CASE FindSegment(p)
  <2>1. AloneInv'
    BY <1>2 DEF FindSegment, AloneInv
  <2>2. ServesInv'
    BY <1>2 DEF FindSegment, ServesInv
  <2> QED
    BY <2>1, <2>2
<1>3. CASE CreateSegment(p)
  <2>1. CASE key # NoSeg
    BY <1>3, <2>1 DEF CreateSegment, AloneInv, ServesInv
  <2>2. CASE key = NoSeg
    <3>1. /\ pc[p] = "create" /\ pc' = [pc EXCEPT ![p] = "attach"]
          /\ shm_id' = [shm_id EXCEPT ![p] = nsegs + 1]
          /\ new_shm' = [new_shm EXCEPT ![p] = TRUE]
          /\ UNCHANGED <<can_pid, can_open>>
      BY <1>3, <2>2 DEF CreateSegment
    <3>2. \A q \in Procs : shm_id[q] # nsegs + 1
      BY DEF NumberInv, Segs, NoSeg
    <3>3. AloneInv'
      BY <3>1, <3>2 DEF AloneInv
    <3>4. ServesInv'
      BY <3>1 DEF ServesInv
    <3> QED
      BY <3>3, <3>4
  <2> QED
    BY <2>1, <2>2
<1>4. CASE Attach(p)
  <2>1. AloneInv'
    BY <1>4 DEF Attach, AloneInv, BusyInv
  <2>2. ServesInv'
    BY <1>4 DEF Attach, ServesInv
  <2> QED
    BY <2>1, <2>2
<1>5. CASE OpenDevice(p)
  <2>1. AloneInv'
    BY <1>5 DEF OpenDevice, AloneInv
  <2>2. ServesInv'
    BY <1>5 DEF OpenDevice, ServesInv
  <2> QED
    BY <2>1, <2>2
<1>6. CASE DeviceFails(p)
  <2>1. AloneInv'
    BY <1>6 DEF DeviceFails, AloneInv
  <2>2. ServesInv'
    BY <1>6 DEF DeviceFails, ServesInv
  <2> QED
    BY <2>1, <2>2
<1>7. CASE ClearSegment(p)
  <2>1. AloneInv'
    BY <1>7 DEF ClearSegment, AloneInv
  <2>2. ASSUME NEW q \in Servers, pc[q] \in {"run", "claim_open"}
        PROVE  shm_id[q] # shm_id[p] /\ q # p
    BY <1>7, <2>2 DEF ClearSegment, AloneInv, BusyInv
  <2>3. ServesInv'
    BY <1>7, <2>2 DEF ClearSegment, ServesInv, PlaceInv
  <2> QED
    BY <2>1, <2>3
<1> QED
  BY <1>1, <1>2, <1>3, <1>4, <1>5, <1>6, <1>7 DEF InitCanIo

LEMMA StartCanIoOrderly ==
  ASSUME TypeOK, PlaceInv, BusyInv, AloneInv, ServesInv,
         NEW p \in Procs, StartCanIo(p)
  PROVE  AloneInv' /\ ServesInv'
<1> USE Constants DEF TypeOK, Go, words, Holds, Busy, InStart, InExit,
                      Creates, Shares, Serves
<1>1. AloneInv'
  BY DEF StartCanIo, Refuse, ExitRefused, Accept, ClaimPid, ClaimOpen,
         AloneInv
<1>2. CASE Refuse(p) \/ ExitRefused(p)
  BY <1>1, <1>2 DEF Refuse, ExitRefused, ServesInv
<1>3. CASE Accept(p)
  <2>1. ASSUME NEW q \in Servers, pc[q] = "run" PROVE shm_id[q] # shm_id[p]
    <3> SUFFICES ASSUME shm_id[q] = shm_id[p] PROVE FALSE
      OBVIOUS
    <3>1. can_pid[shm_id[p]] = q /\ can_open[shm_id[p]] /\ Alive(q)
      BY <2>1 DEF ServesInv, Alive
    <3> QED
      BY <1>3, <3>1 DEF Accept, can_io_ok, can_io_shm_ok
  <2>2. ServesInv'
    BY <1>3, <2>1 DEF Accept, ServesInv
  <2> QED
    BY <1>1, <2>2
<1>4. CASE ClaimPid(p)
  <2>1. ServesInv'
    BY <1>4 DEF ClaimPid, ServesInv, BusyInv, PlaceInv
  <2> QED
    BY <1>1, <2>1
<1>5. CASE ClaimOpen(p)
  <2>1. ServesInv'
    BY <1>5 DEF ClaimOpen, ServesInv, BusyInv, PlaceInv
  <2> QED
    BY <1>1, <2>1
<1> QED
  BY <1>2, <1>3, <1>4, <1>5 DEF StartCanIo

LEMMA LeaveOrderly ==
  ASSUME TypeOK, PlaceInv, BusyInv, AloneInv, ServesInv,
         NEW p \in Procs, Leave(p),
         mishaps' \subseteq {"device_fails", "pid_reused"}
  PROVE  AloneInv' /\ ServesInv'
<1> USE Constants DEF TypeOK, Go, words, Holds, Busy, InStart, InExit,
                      Creates, Shares, Serves
<1>1. AloneInv'
  BY DEF Leave, Terminate, StopOnAlarm, TerminateEarly, ClientExit,
         CountAttached, RemoveAndExit, Crash, AloneInv
<1>2. CASE Terminate(p)
  <2>1. \A q \in Procs \ {p} : ~Busy(q)
    BY <1>2, NobodyHasty DEF Note, Terminate
  <2>2. ASSUME NEW q \in Servers, q # p, pc[q] = "run"
        PROVE  shm_id[q] # shm_id[p]
    BY <1>2, <2>2 DEF Terminate, ServesInv, PlaceInv
  <2>3. ServesInv'
    BY <1>2, <2>1, <2>2 DEF Terminate, ServesInv, PlaceInv
  <2> QED
    BY <1>1, <2>3
<1>3. CASE StopOnAlarm(p)
  <2>1. ServesInv'
    BY <1>3 DEF StopOnAlarm, ServesInv, BusyInv, PlaceInv
  <2> QED
    BY <1>1, <2>1
<1>4. CASE TerminateEarly(p)
  BY <1>4 DEF TerminateEarly, Note
<1>5. CASE ClientExit(p) \/ CountAttached(p) \/ RemoveAndExit(p) \/ Crash(p)
  BY <1>1, <1>5 DEF ClientExit, CountAttached, RemoveAndExit, Crash, ServesInv
<1> QED
  BY <1>2, <1>3, <1>4, <1>5 DEF Leave

LEMMA OthersOrderly ==
  ASSUME TypeOK, BusyInv, AloneInv, ServesInv, NEW p \in Procs, Others(p)
  PROVE  BusyInv' /\ AloneInv' /\ ServesInv'
BY Constants
   DEF TypeOK, Go, words, Holds, Busy, InStart, InExit, Creates, Shares,
       Serves, Others, OtherStarts, OtherEnds, BusyInv, AloneInv, ServesInv

LEMMA NextWordsIInv == WordsIInv /\ [Next]_vars => WordsIInv'
<1> SUFFICES ASSUME WordsIInv, [Next]_vars PROVE WordsIInv'
  OBVIOUS
<1>1. IInv' /\ NumberInv' /\ NamedInv'
  BY NextIInv, NextNumber, NextNamed DEF WordsIInv, IInv
<1>2. OrderlyInv'
  <2> SUFFICES ASSUME mishaps' \subseteq {"device_fails", "pid_reused"}
               PROVE  BusyInv' /\ AloneInv' /\ ServesInv'
    BY DEF OrderlyInv
  <2>1. BusyInv /\ AloneInv /\ ServesInv
    BY OrderlyBefore DEF WordsIInv, OrderlyInv
  <2>2. CASE UNCHANGED vars
    BY <2>1, <2>2 DEF vars, BusyInv, AloneInv, ServesInv, Holds, Busy,
                      InStart, InExit, Creates, Shares, Serves
  <2> QED
    BY <2>1, <2>2, OrderlyBusy, InitCanIoOrderly, StartCanIoOrderly,
       LeaveOrderly, OthersOrderly DEF WordsIInv, IInv, Next
<1> QED
  BY <1>1, <1>2 DEF WordsIInv

(* Each server in its loop has its words in its segment, ...               *)
THEOREM WordsInvariance == Spec => []WordsIInv
BY InitWordsIInv, NextWordsIInv, PTL DEF Spec

(* ... so the server that is alone serves, and does not wait for ever for  *)
(* words that are not its own, also when a server before it found its      *)
(* device or lock file missing and removed a segment in use.               *)
THEOREM LoneServerServes == Spec => []SoleServerServes
<1>1. WordsIInv => SoleServerServes
  BY DEF WordsIInv, OrderlyInv, ServesInv, SoleServerServes, Running
<1> QED
  BY <1>1, WordsInvariance, PTL

(* A server with super-user's rights is told "already running" only when   *)
(* another one runs and serves the segment, unless two started or left at  *)
(* a time or a PID that a segment names came into use again.               *)
THEOREM RefusedByTheServing == Root => (Spec => RefusedOnlyIfServed)
<1> SUFFICES ASSUME Root PROVE Spec => RefusedOnlyIfServed
  OBVIOUS
<1>1. ASSUME WordsIInv, NEW p \in Servers, Refuse(p),
             mishaps \cap {"overlap", "pid_reused"} = {}
      PROVE  \E q \in Running \ {p} : shm_id[q] = shm_id[p] /\ Serves(q)
  <2> DEFINE g == shm_id[p]
             q == can_pid[g]
  <2>1. pc[p] = "check" /\ q # NoPid /\ can_open[g] /\ pc[q] # "off"
    BY <1>1 DEF Refuse, Go, can_io_ok, can_io_shm_ok, Alive
  <2>2. g \in Segs
    BY <1>1, <2>1, Constants DEF WordsIInv, IInv, PlaceInv
  <2>3. q \in Servers
    BY <1>1, <2>1, <2>2 DEF WordsIInv, IInv, TypeOK
  <2>4. shm_id[q] = g /\ pc[q] \in {"claim_open", "run"}
    BY <1>1, <2>1, <2>2, <2>3 DEF WordsIInv, NamedInv, ClaimInv
  <2>5. pc[q] # "claim_open"
    BY <1>1, <2>1, <2>3, Constants
       DEF WordsIInv, NamedInv, StartsInv, InStart
  <2>6. q \in Running \ {p} /\ Serves(q)
    BY <2>1, <2>3, <2>4, <2>5 DEF Running, Serves
  <2> QED
    BY <2>4, <2>6
<1>2. WordsIInv /\ [Next]_vars
        => [\A p \in Servers :
              Refuse(p) /\ mishaps \cap {"overlap", "pid_reused"} = {}
                => \E q \in Running \ {p} :
                     shm_id[q] = shm_id[p] /\ Serves(q)]_vars
  BY <1>1
<1> QED
  BY <1>2, WordsInvariance, PTL DEF Spec, RefusedOnlyIfServed
=============================================================================
