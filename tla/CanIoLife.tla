----------------------------- MODULE CanIoLife ------------------------------
(***************************************************************************)
(* The life of the CAN I/O process and of the shared memory segment it     *)
(* serves (olddaemon/CAN/can_io.c): init_can_io, the start of              *)
(* start_can_io, can_abort and can_exit, one system call or one store in   *)
(* shared memory at a time.  Servers and clients start, stop on a signal   *)
(* and crash; nothing but the words can_pid and can_open tells a new       *)
(* server that there is another, and the PID that a dead one left may      *)
(* belong to any process by then.                                          *)
(*                                                                         *)
(* Segments are numbered in the order of their creation; the kernel's side *)
(* of shmget, shmat, shmdt and shmctl is modelled as far as it is used.    *)
(***************************************************************************)
EXTENDS Integers, FiniteSets

CONSTANTS
  Servers,    \* processes that call start_can_io
  Clients,    \* processes that call init_can_io alone
  MaxSegs,    \* bound: segments created
  MaxStarts,  \* bound: processes started
  Root        \* whether the servers run as super-user

(* What an operator can keep from happening, noted when it does:           *)
(*   overlap       a process starts or exits while another one does        *)
(*   quick_restart one starts or exits in the two seconds that a server    *)
(*                 signalled with SIGTERM takes to stop                    *)
(*   early_term    a server gets SIGTERM before it is in its loop          *)
(*   device_fails  the CAN device or the lock file cannot be opened        *)
(* and one thing that nobody can:                                          *)
(*   pid_reused    a PID that a segment still names goes to a new process  *)
Mishaps == {"overlap", "quick_restart", "early_term", "device_fails",
            "pid_reused"}

NoPid == 0
NoSeg == 0
Segs == 1 .. MaxSegs
Procs == Servers \cup Clients

ASSUME ProcsAssumption ==
  IsFiniteSet(Procs) /\ Servers \cap Clients = {} /\ NoPid \notin Servers
ASSUME BoundsAssumption == MaxSegs \in Nat /\ MaxStarts \in Nat
ASSUME ModeAssumption == Root \in BOOLEAN

VARIABLES
  key,       \* the segment shmget finds under the key, or NoSeg
  nsegs,     \* how many were created
  dest,      \* those marked for destruction
  attached,  \* who is attached to each
  can_pid,   \* the word of that name in each
  can_open,  \* whether that word is a descriptor (> 0)
  pc,        \* where each process is
  shm_id,    \* the segment it found or created
  new_shm,   \* whether it created it
  starts,    \* history: processes started
  mishaps    \* history: what has happened of the list above

vars == <<key, nsegs, dest, attached, can_pid, can_open, pc, shm_id, new_shm,
          starts, mishaps>>
history == <<starts, mishaps>>
kernel == <<key, nsegs, dest, attached>>
words == <<can_pid, can_open>>

Init ==
  /\ key = NoSeg
  /\ nsegs = 0
  /\ dest = {}
  /\ attached = [g \in Segs |-> {}]
  /\ can_pid = [g \in Segs |-> NoPid]
  /\ can_open = [g \in Segs |-> FALSE]
  /\ pc = [p \in Procs |-> "off"]
  /\ shm_id = [p \in Procs |-> NoSeg]
  /\ new_shm = [p \in Procs |-> FALSE]
  /\ starts = 0
  /\ mishaps = {}

Go(p, from, to) == pc[p] = from /\ pc' = [pc EXCEPT ![p] = to]
Alive(p) == pc[p] # "off"

(* Marked for destruction and attached by nobody: it exists no more.       *)
Gone(g) == g \in dest /\ attached[g] = {}

(* shmctl(IPC_RMID): shmget finds it no more, those attached keep it.      *)
RemoveSegment(g) ==
  /\ dest' = dest \cup {g}
  /\ key' = IF key = g THEN NoSeg ELSE key

Detach(p) == attached' = [attached EXCEPT ![shm_id[p]] = @ \ {p}]

(* Start-up code, and exit code up to the removal of the segment.          *)
InStart(p) == pc[p] \in {"find", "create", "attach", "device", "clear",
                         "check", "claim_pid", "claim_open"}
InExit(p) == pc[p] \in {"stat", "remove"}

(* What happens when p goes in or out now.                                 *)
Hasty(p) ==
  LET others == Procs \ {p} IN
    (IF \E q \in others : InStart(q) \/ InExit(q) THEN {"overlap"} ELSE {})
      \cup
    (IF \E q \in others : pc[q] = "stopping" THEN {"quick_restart"} ELSE {})

Note(ms) == mishaps' = mishaps \cup ms

(* A segment names p, which is not there.                                  *)
Named(p) == \E g \in Segs : can_pid[g] = p
Reused(p) == IF Named(p) THEN {"pid_reused"} ELSE {}

-----------------------------------------------------------------------------
(* init_can_io, for a server and for a client.                             *)

(* A process starts.  Its PID may be one that a segment still names.       *)
Start(p) ==
  /\ starts < MaxStarts
  /\ Go(p, "off", "find")
  /\ starts' = starts + 1
  /\ Note(Hasty(p) \cup Reused(p))
  /\ UNCHANGED <<shm_id, new_shm, kernel, words>>

(* shmget without IPC_CREAT.  Where there is nothing a server goes on to   *)
(* create the segment and a client exits.                                  *)
FindSegment(p) ==
  /\ \/ key # NoSeg /\ Go(p, "find", "attach")
     \/ key = NoSeg /\ Go(p, "find", IF p \in Servers THEN "create" ELSE "off")
  /\ shm_id' = [shm_id EXCEPT ![p] = key]
  /\ new_shm' = [new_shm EXCEPT ![p] = FALSE]
  /\ UNCHANGED <<history, kernel, words>>

(* shmget with IPC_CREAT|IPC_EXCL gives a segment of zeros, or fails when  *)
(* another process was faster, and the server exits.                       *)
CreateSegment(p) ==
  \/ /\ key = NoSeg /\ nsegs < MaxSegs
     /\ Go(p, "create", "attach")
     /\ nsegs' = nsegs + 1
     /\ key' = nsegs'
     /\ shm_id' = [shm_id EXCEPT ![p] = nsegs']
     /\ new_shm' = [new_shm EXCEPT ![p] = TRUE]
     /\ UNCHANGED <<dest, attached, history, words>>
  \/ /\ key # NoSeg
     /\ Go(p, "create", "off")
     /\ UNCHANGED <<shm_id, new_shm, history, kernel, words>>

(* shmat fails when the segment was removed in between.                    *)
Attach(p) ==
  \/ /\ ~Gone(shm_id[p])
     /\ Go(p, "attach", "device")
     /\ attached' = [attached EXCEPT ![shm_id[p]] = @ \cup {p}]
     /\ UNCHANGED <<key, nsegs, dest, shm_id, new_shm, history, words>>
  \/ /\ Gone(shm_id[p])
     /\ Go(p, "attach", "off")
     /\ UNCHANGED <<shm_id, new_shm, history, kernel, words>>

(* Mutant: a segment that was found is cleared like a new one.             *)
OpenDeviceClears(p) ==
  /\ Go(p, "device", "clear")
  /\ UNCHANGED <<shm_id, new_shm, history, kernel, words>>

(* open of the device, for a server, and of the lock file.                 *)
OpenDevice(p) ==
  /\ \/ /\ p \in Servers
        /\ Go(p, "device", IF new_shm[p] THEN "clear" ELSE "check")
     \/ p \in Clients /\ Go(p, "device", "client")
  /\ UNCHANGED <<shm_id, new_shm, history, kernel, words>>

(* When one of them fails the segment is removed, whoever else uses it,    *)
(* and the process exits, a client too.                                    *)
DeviceFails(p) ==
  /\ Go(p, "device", "off")
  /\ RemoveSegment(shm_id[p])
  /\ Detach(p)
  /\ Note({"device_fails"})
  /\ UNCHANGED <<nsegs, shm_id, new_shm, starts, words>>

(* if(new_shm): the words of the new segment get their first values.       *)
ClearSegment(p) ==
  /\ Go(p, "clear", "check")
  /\ can_pid' = [can_pid EXCEPT ![shm_id[p]] = NoPid]
  /\ can_open' = [can_open EXCEPT ![shm_id[p]] = FALSE]
  /\ UNCHANGED <<shm_id, new_shm, history, kernel>>

-----------------------------------------------------------------------------
(* start_can_io.                                                           *)

can_io_shm_ok(g) == can_pid[g] # NoPid /\ can_open[g]

(* Mutants: kill is not tried; its result is taken the wrong way round.    *)
can_io_ok_untried(g) == can_io_shm_ok(g)
can_io_ok_inverted(g) == can_io_shm_ok(g) /\ (Root => ~Alive(can_pid[g]))

(* kill(can_pid, 0) is tried by the super-user only.                       *)
can_io_ok(g) == can_io_shm_ok(g) /\ (Root => Alive(can_pid[g]))

(* "already running": the new process gives up; exit(0) detaches it.       *)
Refuse(p) ==
  /\ Go(p, "check", "refused")
  /\ can_io_ok(shm_id[p])
  /\ UNCHANGED <<shm_id, new_shm, history, kernel, words>>

ExitRefused(p) ==
  /\ Go(p, "refused", "off")
  /\ Detach(p)
  /\ UNCHANGED <<key, nsegs, dest, shm_id, new_shm, history, words>>

Accept(p) ==
  /\ Go(p, "check", "claim_pid")
  /\ ~can_io_ok(shm_id[p])
  /\ UNCHANGED <<shm_id, new_shm, history, kernel, words>>

(* can_pid = getpid()                                                      *)
ClaimPid(p) ==
  /\ Go(p, "claim_pid", "claim_open")
  /\ can_pid' = [can_pid EXCEPT ![shm_id[p]] = p]
  /\ UNCHANGED <<can_open, shm_id, new_shm, history, kernel>>

(* can_open = can_fd, then the loop: from here on can_abort has the        *)
(* signals.                                                                *)
ClaimOpen(p) ==
  /\ Go(p, "claim_open", "run")
  /\ can_open' = [can_open EXCEPT ![shm_id[p]] = TRUE]
  /\ UNCHANGED <<can_pid, shm_id, new_shm, history, kernel>>

-----------------------------------------------------------------------------
(* can_abort, can_exit and crashes.                                        *)

(* SIGTERM in the loop: the device is closed and the alarm set.            *)
Terminate(p) ==
  /\ Go(p, "run", "stopping")
  /\ can_open' = [can_open EXCEPT ![shm_id[p]] = FALSE]
  /\ Note(Hasty(p))
  /\ UNCHANGED <<can_pid, shm_id, new_shm, starts, kernel>>

(* SIGALRM two seconds later: can_pid = 0, shmdt.                          *)
StopOnAlarm(p) ==
  /\ Go(p, "stopping", "stat")
  /\ can_pid' = [can_pid EXCEPT ![shm_id[p]] = NoPid]
  /\ Detach(p)
  /\ UNCHANGED <<key, nsegs, dest, can_open, shm_id, new_shm, history>>

(* SIGTERM while can_exit still has the signals: it calls can_abort, which *)
(* clears can_open, then goes on to detach and exit.                       *)
TerminateEarly(p) ==
  /\ pc[p] \in {"check", "refused", "claim_pid", "claim_open"}
  /\ pc' = [pc EXCEPT ![p] = "stat"]
  /\ can_open' = [can_open EXCEPT ![shm_id[p]] = FALSE]
  /\ Detach(p)
  /\ Note({"early_term"})
  /\ UNCHANGED <<key, nsegs, dest, can_pid, shm_id, new_shm, starts>>

(* A client leaves: can_exit, up to shmdt.                                 *)
ClientExit(p) ==
  /\ Go(p, "client", "stat")
  /\ Detach(p)
  /\ Note(Hasty(p))
  /\ UNCHANGED <<key, nsegs, dest, words, shm_id, new_shm, starts>>

(* Mutant: who leaves removes the segment whether or not it is in use.     *)
CountAttachedIgnored(p) ==
  /\ Go(p, "stat", "remove")
  /\ UNCHANGED <<shm_id, new_shm, history, kernel, words>>

(* shmctl(IPC_STAT) ...                                                    *)
CountAttached(p) ==
  /\ Go(p, "stat", IF attached[shm_id[p]] = {} THEN "remove" ELSE "off")
  /\ UNCHANGED <<shm_id, new_shm, history, kernel, words>>

(* ... and, when nobody was attached, shmctl(IPC_RMID).                    *)
RemoveAndExit(p) ==
  /\ Go(p, "remove", "off")
  /\ RemoveSegment(shm_id[p])
  /\ UNCHANGED <<nsegs, attached, shm_id, new_shm, history, words>>

(* SIGKILL, or a crash, anywhere: the kernel detaches, the words stay.     *)
Crash(p) ==
  /\ pc[p] \notin {"off", "find", "create", "other"}
  /\ pc' = [pc EXCEPT ![p] = "off"]
  /\ Detach(p)
  /\ UNCHANGED <<key, nsegs, dest, shm_id, new_shm, history, words>>

-----------------------------------------------------------------------------
(* Any other process of the computer that gets the PID of a dead server    *)
(* while a segment names it, and ends some time.                           *)
OtherStarts(p) ==
  /\ p \in Servers /\ Named(p)
  /\ Go(p, "off", "other")
  /\ Note({"pid_reused"})
  /\ UNCHANGED <<starts, shm_id, new_shm, kernel, words>>

OtherEnds(p) ==
  /\ Go(p, "other", "off")
  /\ UNCHANGED <<history, shm_id, new_shm, kernel, words>>

-----------------------------------------------------------------------------
InitCanIo(p) ==
  \/ Start(p) \/ FindSegment(p) \/ CreateSegment(p) \/ Attach(p)
  \/ OpenDevice(p) \/ DeviceFails(p) \/ ClearSegment(p)

StartCanIo(p) ==
  \/ Refuse(p) \/ ExitRefused(p) \/ Accept(p) \/ ClaimPid(p) \/ ClaimOpen(p)

Leave(p) ==
  \/ Terminate(p) \/ StopOnAlarm(p) \/ TerminateEarly(p) \/ ClientExit(p)
  \/ CountAttached(p) \/ RemoveAndExit(p) \/ Crash(p)

Others(p) == OtherStarts(p) \/ OtherEnds(p)

Next ==
  \E p \in Procs : InitCanIo(p) \/ StartCanIo(p) \/ Leave(p) \/ Others(p)

Spec == Init /\ [][Next]_vars

-----------------------------------------------------------------------------
(* Properties.                                                             *)

TypeOK ==
  /\ key \in {NoSeg} \cup Segs /\ nsegs \in 0 .. MaxSegs
  /\ dest \subseteq Segs
  /\ attached \in [Segs -> SUBSET Procs]
  /\ can_pid \in [Segs -> Servers \cup {NoPid}]
  /\ can_open \in [Segs -> BOOLEAN]
  /\ pc \in [Procs ->
       {"off", "find", "create", "attach", "device", "clear", "check",
        "refused", "claim_pid", "claim_open", "run", "stopping", "stat",
        "remove", "client", "other"}]
  /\ shm_id \in [Procs -> {NoSeg} \cup Segs]
  /\ new_shm \in [Procs -> BOOLEAN]
  /\ starts \in 0 .. MaxStarts
  /\ mishaps \subseteq Mishaps

Running == {p \in Servers : pc[p] = "run"}

(* "CAN I/O process already running!": no two servers read the device,     *)
(* crashes and restarts included, whoever got the PIDs of the dead, as     *)
(* long as none of the mishaps happens that an operator can avoid.         *)
OneServer == mishaps \subseteq {"pid_reused"} => Cardinality(Running) <= 1

(* A server in its loop that no other server lives beside has its words in *)
(* the segment.  If they are not its own it waits for ever for them to be  *)
(* set, and reads no frame.                                                *)
Serves(p) == can_pid[shm_id[p]] = p /\ can_open[shm_id[p]]
Sole(p) == \A q \in Servers \ {p} : pc[q] \in {"off", "other"}

SoleServerServes ==
  mishaps \subseteq {"device_fails", "pid_reused"}
    => \A p \in Running : Sole(p) => Serves(p)

(* can_pid is the "PID of CAN I/O process" (can_io.c:44) and the old       *)
(* process "should stop after 2sec delay" (can_io.c:437): a server started *)
(* before that serves, once the old one is gone.                           *)
RestartedServerServes ==
  mishaps \subseteq {"quick_restart"}
    => \A p \in Running : Sole(p) => Serves(p)

(* A client that starts finds the segment of the server that runs.         *)
KeyLeadsToServer ==
  mishaps \subseteq {"pid_reused"} => \A p \in Running : key = shm_id[p]

(* The super-user's server is told "already running" only when another one *)
(* is in its loop at that moment and serves the same segment: also after   *)
(* crashes that left their words behind, restarts in the two seconds of    *)
(* the old one's alarm, signals before the loop and segments removed in    *)
(* use.  Two things take this away: two that start or exit at a time, and  *)
(* a new process with a PID that a segment still names, for which          *)
(* kill(can_pid, 0) cannot tell a server from any other process.           *)
RefusedOnlyIfServed ==
  [][\A p \in Servers :
       Refuse(p) /\ mishaps \cap {"overlap", "pid_reused"} = {}
       => \E q \in Running \ {p} : shm_id[q] = shm_id[p] /\ Serves(q)]_vars
=============================================================================
