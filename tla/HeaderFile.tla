----------------------------- MODULE HeaderFile -----------------------------
(***************************************************************************)
(* The program that keeps a FITS header with the telescope's state         *)
(* (bta_print_header/main.c and print_header in bta_print.c).  A master    *)
(* forks a child that writes the header again and again, each time to a    *)
(* new file that then takes the header's name, for readers to find a whole *)
(* header at any time.                                                     *)
(***************************************************************************)
EXTENDS Integers

CONSTANTS
  Records,   \* records of a header
  MaxPause,  \* longest pause before the next fork                 (900 s)
  MaxMishaps \* bound: signals, other instances, lost or found segments

ASSUME HeaderAssumption ==
  /\ Records \in Nat \ {0} /\ MaxPause \in Nat \ {0} /\ MaxMishaps \in Nat

VARIABLES
  master,   \* "fork", "wait", "sleep", or "dead"
  knows,    \* childpid of the master is not 0
  pause,    \* before the next fork
  pidlock,  \* the PID file is there
  writer,   \* the child: "none", "born", "check", "open", "write", "rename"
  mortal,   \* the child has called prctl while its master lived
  written,  \* records in the child's file
  fails,    \* the child's last write failed
  header,   \* under the header's name: "none", "empty", "part", "whole"
  litter,   \* files left behind under other names
  segment,  \* the control system's segment is there and is right
  disk,     \* there is room on the disk
  other,    \* another instance, at its start: "idle", "opened"
  short,    \* history: what was renamed last had a record that failed
  mishaps   \* bound: counts what MaxMishaps limits

header_vars == <<master, knows, pause, pidlock, writer, mortal, written,
                 fails, header, litter, segment, disk, other, short, mishaps>>
world == <<segment, disk, mishaps>>
masters == <<master, knows, pause, pidlock>>
names == <<header, litter, other, short>>

HeaderInit ==
  /\ master = "fork" /\ knows = FALSE /\ pause = 1 /\ pidlock = TRUE
  /\ writer = "none" /\ mortal = FALSE /\ written = 0 /\ fails = FALSE
  /\ header = "none" /\ litter = 0
  /\ segment = TRUE /\ disk = TRUE /\ mishaps = 0
  /\ other = "idle" /\ short = FALSE

-----------------------------------------------------------------------------
(* The master.                                                             *)
ForkWriter ==
  /\ master = "fork" /\ master' = "wait" /\ knows' = TRUE
  /\ writer' = "born" /\ mortal' = FALSE /\ written' = 0 /\ fails' = FALSE
  /\ UNCHANGED <<pause, pidlock, names, world>>

(* wait returns; a child that lived less than a second makes the pause     *)
(* longer.                                                                 *)
Wait ==
  /\ master = "wait" /\ writer = "none" /\ master' = "sleep"
  /\ pause' \in {IF pause < MaxPause THEN pause + 1 ELSE MaxPause, 1}
  /\ UNCHANGED <<knows, pidlock, writer, mortal, written, fails, names, world>>

Wakes ==
  /\ master = "sleep" /\ master' = "fork"
  /\ UNCHANGED <<knows, pause, pidlock, writer, mortal, written, fails, names,
                 world>>

-----------------------------------------------------------------------------
(* The child ends; a file it has not renamed stays.                        *)
Dies ==
  /\ writer' = "none" /\ mortal' = FALSE /\ written' = 0 /\ fails' = FALSE
  /\ litter' = IF writer \in {"write", "rename"} THEN litter + 1 ELSE litter
  /\ UNCHANGED <<header, other, short>>

SetWriterDeathSignal ==
  /\ writer = "born" /\ writer' = "check" /\ mortal' = (master # "dead")
  /\ UNCHANGED <<masters, written, fails, names, world>>

(* check_shm_block, and get_shm_block before it the first time.            *)
CheckBlock ==
  /\ writer = "check"
  /\ IF segment
     THEN writer' = "open" /\ UNCHANGED <<mortal, written, fails, names>>
     ELSE Dies
  /\ UNCHANGED <<masters, world>>

(* print_header: mkstemp; without a file, nothing until the next time.     *)
Open ==
  /\ writer = "open"
  /\ \/ writer' = "write" /\ written' = 0 /\ fails' = FALSE
     \/ ~disk /\ writer' = "check" /\ UNCHANGED <<written, fails>>
  /\ UNCHANGED <<masters, mortal, names, world>>

printhdr ==
  \/ disk /\ written' = written + 1 /\ UNCHANGED fails
  \/ ~disk /\ fails' = TRUE /\ UNCHANGED written

(* A record; the first that cannot be written is the last.                 *)
Write ==
  /\ writer = "write" /\ printhdr
  /\ writer' = IF written' = Records \/ fails' THEN "rename" ELSE "write"
  /\ UNCHANGED <<masters, mortal, names, world>>

Content == IF written = Records THEN "whole"
           ELSE IF written = 0 THEN "empty" ELSE "part"

(* Mutant: the file is renamed before it is written.                       *)
RenameEarly ==
  /\ writer \in {"write", "rename"}
  /\ writer' = IF writer = "write" THEN "write" ELSE "check"
  /\ header' = Content /\ short' = fails
  /\ UNCHANGED <<masters, mortal, written, fails, litter, other, world>>

(* Mutant: the name is taken only if it is free, as link would.            *)
RenameIfFree ==
  /\ writer = "rename" /\ writer' = "check"
  /\ header' = IF header = "none" THEN Content ELSE header
  /\ short' = fails
  /\ UNCHANGED <<masters, mortal, written, fails, litter, other, world>>

(* At "returning" the file is renamed, whatever is in it.                  *)
Rename ==
  /\ writer = "rename" /\ writer' = "check"
  /\ header' = Content /\ short' = fails
  /\ UNCHANGED <<masters, mortal, written, fails, litter, other, world>>

-----------------------------------------------------------------------------
Mishap == mishaps < MaxMishaps /\ mishaps' = mishaps + 1

(* A signal to the child, SIGUSR1 passed on by the master included.  One   *)
(* in the moment before fork's 0 is stored takes itself for the master.    *)
KillChild ==
  /\ Mishap /\ writer # "none" /\ Dies
  /\ \/ UNCHANGED pidlock
     \/ writer = "born" /\ knows /\ pidlock' = FALSE
  /\ UNCHANGED <<master, knows, pause, segment, disk>>

(* SIGTERM and its like to the master; before the first fork returned it   *)
(* does not know that it is the master.                                    *)
KillMaster ==
  /\ master # "dead" /\ master' = "dead"
  /\ pidlock' = IF knows THEN FALSE ELSE pidlock
  /\ UNCHANGED <<knows, pause, writer, mortal, written, fails, names, world>>

WriterDeathSignal ==
  /\ master = "dead" /\ mortal /\ Dies
  /\ UNCHANGED <<masters, world>>

(* Another instance begins: it truncates the header, or makes an empty     *)
(* one; then removes what has the name by that time, be it a new header;   *)
(* and only then sees that there is one running already.  It may be        *)
(* stopped between the two.                                                *)
OtherTruncates ==
  /\ Mishap /\ other = "idle" /\ other' = "opened" /\ header' = "empty"
  /\ UNCHANGED <<masters, writer, mortal, written, fails, litter, short,
                 segment, disk>>
OtherUnlinks ==
  /\ other = "opened" /\ other' = "idle" /\ header' = "none"
  /\ UNCHANGED <<masters, writer, mortal, written, fails, litter, short,
                 world>>

(* The control system ends or begins; the disk is full or is not.          *)
Outside ==
  /\ Mishap
  /\ \/ segment' = ~segment /\ UNCHANGED disk
     \/ disk' = ~disk /\ UNCHANGED segment
  /\ UNCHANGED <<masters, writer, mortal, written, fails, names>>

ChildSteps == SetWriterDeathSignal \/ CheckBlock \/ Open \/ Write \/ Rename
MasterSteps == ForkWriter \/ Wait \/ Wakes

HeaderNext ==
  \/ MasterSteps \/ ChildSteps
  \/ KillChild \/ KillMaster \/ WriterDeathSignal
  \/ OtherTruncates \/ OtherUnlinks \/ Outside

HeaderSpec == HeaderInit /\ [][HeaderNext]_header_vars

(* Both processes go on.                                                   *)
HeaderFairSpec ==
  HeaderSpec /\ WF_header_vars(ChildSteps) /\ WF_header_vars(MasterSteps)

-----------------------------------------------------------------------------
(* Properties.                                                             *)

HeaderTypeOK ==
  /\ master \in {"fork", "wait", "sleep", "dead"}
  /\ writer \in {"none", "born", "check", "open", "write", "rename"}
  /\ {knows, pidlock, mortal, fails, segment, disk, short} \subseteq BOOLEAN
  /\ other \in {"idle", "opened"}
  /\ pause \in 1 .. MaxPause /\ written \in 0 .. Records
  /\ header \in {"none", "empty", "part", "whole"}
  /\ litter \in 0 .. MaxMishaps + 1 /\ mishaps \in 0 .. MaxMishaps

(* A reader who finds a header finds all of it, wherever the child is or   *)
(* was stopped, and whichever instances began: unless one of these has     *)
(* truncated it and not yet removed it, or a record of it could not be     *)
(* written, when a part takes the place of the whole.                      *)
WholeHeader ==
  header \in {"empty", "part"} => other = "opened" \/ short

(* While the master lives, and the segment and the disk stay right, there  *)
(* is a whole header again for good, whoever died or was started before.   *)
HeaderComesBack ==
  <>[](segment /\ disk /\ master # "dead") => <>[](header = "whole")
=============================================================================
