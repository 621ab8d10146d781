--------------------------- MODULE SingleInstance ---------------------------
(***************************************************************************)
(* How the P1 rotator program keeps a second copy of itself from driving   *)
(* the motor (p1rotator/ch4run.c, main.c).  check4running() looks in a PID *)
(* file and then in /proc, one process after the other, for a live process *)
(* of its own name; it takes no lock.  The same code, called before the    *)
(* process becomes a daemon, is in jsonbta and Stellarium_control.         *)
(***************************************************************************)
EXTENDS Integers, FiniteSets

CONSTANTS
  Pids,      \* process ids that processes of this name may get
  NoPid,     \* no PID: the file is missing, or empty
  MaxStarts  \* bound: processes started

PidsAssumption == NoPid \notin Pids
BoundAssumption == MaxStarts \in Nat

VARIABLES
  pc,       \* where the process with each id is; "gone": there is none
  pidfile,  \* the PID in PIDFILE
  pid,      \* the PID check4running has read there
  passed,   \* the ids it has gone past in /proc
  company,  \* history: those that lived while another one did
  starts    \* history: processes started

vars == <<pc, pidfile, pid, passed, company, starts>>

Init ==
  /\ pc = [p \in Pids |-> "gone"]
  /\ pidfile \in Pids \cup {NoPid}     \* a crash, or a reboot, may leave one
  /\ pid = [p \in Pids |-> NoPid]
  /\ passed = [p \in Pids |-> {}]
  /\ company = {}
  /\ starts = 0

(* readname(q) gives one's own name: it lives, whatever it is doing.       *)
SameName(q) == pc[q] # "gone"
Live == {q \in Pids : SameName(q)}

Go(p, from, to) == pc[p] = from /\ pc' = [pc EXCEPT ![p] = to]

-----------------------------------------------------------------------------
(* The process is there, for the others to see, before it looks at them.   *)
Exec(p) ==
  /\ starts < MaxStarts
  /\ Go(p, "gone", "stat")
  /\ pid' = [pid EXCEPT ![p] = NoPid]
  /\ passed' = [passed EXCEPT ![p] = {}]
  /\ company' = IF Live = {} THEN company \ {p} ELSE company \cup Live \cup {p}
  /\ starts' = starts + 1
  /\ UNCHANGED pidfile

(* The PID file is there and has a number in it.                           *)
ReadPidfile(p) ==
  /\ pidfile # NoPid
  /\ Go(p, "stat", "named")
  /\ pid' = [pid EXCEPT ![p] = pidfile]
  /\ UNCHANGED <<pidfile, passed, company, starts>>

NoPidfile(p) ==
  /\ pidfile = NoPid
  /\ Go(p, "stat", "scan")
  /\ UNCHANGED <<pidfile, pid, passed, company, starts>>

(* The number is that of a live process of the same name, perhaps one's    *)
(* own: exit(0).                                                           *)
FoundNamed(p) ==
  /\ Go(p, "named", "refused")
  /\ SameName(pid[p])
  /\ UNCHANGED <<pidfile, pid, passed, company, starts>>

StaleNamed(p) ==
  /\ Go(p, "named", "scan")
  /\ ~SameName(pid[p])
  /\ UNCHANGED <<pidfile, pid, passed, company, starts>>

(* Mutant: the directory is listed, the names are not read.                *)
PassUnread(p, q) ==
  /\ pc[p] = "scan" /\ q # p /\ q \notin passed[p]
  /\ passed' = [passed EXCEPT ![p] = @ \cup {q}]
  /\ UNCHANGED <<pc, pidfile, pid, company, starts>>

(* The scan of /proc comes to q's entry, or to where it would be.          *)
Pass(p, q) ==
  /\ pc[p] = "scan" /\ q # p /\ q \notin passed[p]
  /\ ~SameName(q)
  /\ passed' = [passed EXCEPT ![p] = @ \cup {q}]
  /\ UNCHANGED <<pc, pidfile, pid, company, starts>>

(* Mutant: the scan does not leave out the process itself.                 *)
FoundSelfToo(p, q) ==
  /\ q \notin passed[p]
  /\ SameName(q)
  /\ Go(p, "scan", "refused")
  /\ UNCHANGED <<pidfile, pid, passed, company, starts>>

Found(p, q) ==
  /\ q # p /\ q \notin passed[p]
  /\ SameName(q)
  /\ Go(p, "scan", "refused")
  /\ UNCHANGED <<pidfile, pid, passed, company, starts>>

(* fopen(pidfilename, "w"): the file is empty until it is closed.          *)
OpenPidfile(p) ==
  /\ passed[p] = Pids \ {p}
  /\ Go(p, "scan", "write")
  /\ pidfile' = NoPid
  /\ UNCHANGED <<pid, passed, company, starts>>

(* Mutant: what is written is the PID the file had before.                 *)
WritePidfileOther(p) ==
  /\ Go(p, "write", "main")
  /\ pidfile' = pid[p]
  /\ UNCHANGED <<pid, passed, company, starts>>

WritePidfile(p) ==
  /\ Go(p, "write", "main")
  /\ pidfile' = p
  /\ UNCHANGED <<pid, passed, company, starts>>

-----------------------------------------------------------------------------
(* signals(): a signal, or an error in main, removes the PID file, stops   *)
(* the motor and exits.                                                    *)
UnlinkPidfile(p) ==
  /\ Go(p, "main", "stop_motor")
  /\ pidfile' = NoPid
  /\ UNCHANGED <<pid, passed, company, starts>>

Exit(p) ==
  /\ \/ Go(p, "stop_motor", "gone")
     \/ Go(p, "refused", "gone")
  /\ UNCHANGED <<pidfile, pid, passed, company, starts>>

(* SIGKILL, a signal before signals() is installed, or main's return.      *)
Killed(p) ==
  /\ SameName(p)
  /\ pc' = [pc EXCEPT ![p] = "gone"]
  /\ UNCHANGED <<pidfile, pid, passed, company, starts>>

-----------------------------------------------------------------------------
Check4Running(p) ==
  \/ ReadPidfile(p) \/ NoPidfile(p) \/ FoundNamed(p) \/ StaleNamed(p)
  \/ \E q \in Pids : Pass(p, q) \/ Found(p, q)
  \/ OpenPidfile(p) \/ WritePidfile(p)

Next ==
  \E p \in Pids :
    \/ Exec(p) \/ Check4Running(p)
    \/ UnlinkPidfile(p) \/ Exit(p) \/ Killed(p)

Spec == Init /\ [][Next]_vars

-----------------------------------------------------------------------------
(* Properties.                                                             *)

TypeOK ==
  /\ pc \in [Pids -> {"gone", "stat", "named", "scan", "write", "main",
                      "stop_motor", "refused"}]
  /\ pidfile \in Pids \cup {NoPid}
  /\ pid \in [Pids -> Pids \cup {NoPid}]
  /\ passed \in [Pids -> SUBSET Pids]
  /\ company \subseteq Pids
  /\ starts \in Nat

(* Beyond check4running: the process has the motor to itself.              *)
Inside(p) == pc[p] \in {"write", "main", "stop_motor"}

(* Two processes never drive the motor together, in whatever order they    *)
(* start, look at each other, die and are given each other's ids.          *)
OneInstance == \A p, q \in Pids : Inside(p) /\ Inside(q) => p = q

(* The PID file names the process that runs, although every process writes *)
(* and removes it without asking whose it is.                              *)
PidfileNamesIt == \A p \in Pids : pc[p] = "main" => pidfile = p

(* A process gives up only when another was there with it, or when a stale *)
(* PID file happens to name the id it was itself given.                    *)
RefusedForCause ==
  \A p \in Pids : pc[p] = "refused" => p \in company \/ pid[p] = p
=============================================================================
