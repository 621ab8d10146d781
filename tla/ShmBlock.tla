------------------------------ MODULE ShmBlock ------------------------------
(***************************************************************************)
(* The block of the telescope's state in shared memory on a machine that   *)
(* gets it from the control system (get_shm_block, bta_data_init, _check   *)
(* and _close in bta_shdata.c, the beginning and the end of                *)
(* bta_control_net.c).  A bridge process finds or makes the segment,       *)
(* throws away old commands, looks whether another bridge runs, and takes  *)
(* the UDP port; readers find the segment by its key, keep it attached and *)
(* look now and then whether it is still right.                            *)
(***************************************************************************)
EXTENDS Integers, Sequences

CONSTANTS
  Bridges,   \* bridge processes
  Readers,   \* programs that read the block
  Nobody,    \* no PID
  Control,   \* the PID of the control system's server, on its own machine
  MaxMade,   \* bound: segments
  MaxQueued  \* bound: commands in the queue

ASSUME ShmAssumption ==
  /\ Nobody \notin Bridges /\ Control \notin Bridges \cup {Nobody}
  /\ MaxMade \in Nat /\ MaxQueued \in Nat

VARIABLES
  doing,   \* of a bridge: "off", "none" if there was no segment, "got",
           \* "blind" if it has no block, "drain", "check", "bind",
           \* "run" with the port, "refused",
           \* "closing" after "run", "leaving" after what is before it
  seg,     \* its segment, 0 before
  key,     \* the segment that the key leads to, or 0
  made,    \* segments made so far; they are numbered
  right,   \* the segments with the right magic and version
  ServPID, \* in each segment
  commands, \* commands; each is the set of bridges started since
  reads,   \* the segment that a reader has attached, or 0
  crossed  \* history: a bridge was stopped while another one, or itself, began

shm_block == <<key, made, right, ServPID>>
shm_vars == <<doing, seg, shm_block, commands, reads, crossed>>

Segments == 1 .. MaxMade
Beginning == {"none", "got", "drain", "check", "bind"}
Stopping == {"closing", "leaving"}
Lives(b) == doing[b] # "off"

ShmInit ==
  /\ doing = [b \in Bridges |-> "off"] /\ seg = [b \in Bridges |-> 0]
  /\ key = 0 /\ made = 0 /\ right = {}
  /\ ServPID = [s \in Segments |-> Nobody]
  /\ commands = <<>> /\ reads = [r \in Readers |-> 0] /\ crossed = FALSE

BridgeGoes(b, from, to) == doing[b] = from /\ doing' = [doing EXCEPT ![b] = to]

-----------------------------------------------------------------------------
(* get_shm_block: shmget, shmget again to create, shmat.  If that fails,   *)
(* main goes on without a block, and crashes where it looks for the PID.   *)
Look(b) ==
  /\ BridgeGoes(b, "off", IF key = 0 THEN "none" ELSE "got")
  /\ seg' = [seg EXCEPT ![b] = key]
  /\ commands' = [i \in DOMAIN commands |-> commands[i] \cup {b}]
  /\ crossed' = (crossed \/ \E a \in Bridges : doing[a] \in Stopping)
  /\ UNCHANGED <<shm_block, reads>>

Create(b) ==
  /\ key = 0 /\ made < MaxMade
  /\ BridgeGoes(b, "none", "got")
  /\ made' = made + 1 /\ key' = made'
  /\ seg' = [seg EXCEPT ![b] = made']
  /\ UNCHANGED <<right, ServPID, commands, reads, crossed>>

Fails(b) ==
  /\ \/ BridgeGoes(b, "none", "blind") /\ key # 0
     \/ BridgeGoes(b, "got", "blind") /\ key # seg[b]
  /\ seg' = [seg EXCEPT ![b] = 0]
  /\ UNCHANGED <<shm_block, commands, reads, crossed>>

(* bta_data_init: a block that is not right is cleared.                    *)
bta_data_init(b) ==
  /\ key = seg[b]
  /\ BridgeGoes(b, "got", "drain")
  /\ right' = right \cup {seg[b]}
  /\ ServPID' = IF seg[b] \in right THEN ServPID
                ELSE [ServPID EXCEPT ![seg[b]] = Nobody]
  /\ UNCHANGED <<seg, key, made, commands, reads, crossed>>

(* Mutant: one command is thrown away.                                     *)
DrainOne(b) ==
  /\ BridgeGoes(b, "drain", "check")
  /\ commands' = IF commands = <<>> THEN <<>> ELSE Tail(commands)
  /\ UNCHANGED <<seg, shm_block, reads, crossed>>

(* get_cmd_queue throws commands away until there are none.                *)
Drain(b) ==
  /\ doing[b] \in {"drain", "blind"}
  /\ IF commands = <<>>
     THEN /\ \/ BridgeGoes(b, "drain", "check")
             \/ BridgeGoes(b, "blind", "off")
          /\ UNCHANGED commands
     ELSE commands' = Tail(commands) /\ UNCHANGED doing
  /\ UNCHANGED <<seg, shm_block, reads, crossed>>

(* "already running!": the PID in the block is some process's.  The one of *)
(* the control system may be anybody's here.                               *)
CheckPid(b) ==
  /\ doing[b] = "check"
  /\ LET pid == ServPID[seg[b]]
     IN \/ /\ pid = Control \/ (pid \in Bridges /\ Lives(pid))
           /\ BridgeGoes(b, "check", "refused")
        \/ /\ ~(pid \in Bridges /\ Lives(pid))
           /\ BridgeGoes(b, "check", "bind")
  /\ UNCHANGED <<seg, shm_block, commands, reads, crossed>>

(* "binding data socket": one process has the port.                        *)
Bind(b) ==
  /\ BridgeGoes(b, "bind",
                IF \E a \in Bridges : doing[a] \in {"run", "closing"}
                THEN "refused" ELSE "run")
  /\ UNCHANGED <<seg, shm_block, commands, reads, crossed>>

ExitBridge(b) ==
  /\ BridgeGoes(b, "refused", "off")
  /\ seg' = [seg EXCEPT ![b] = 0]
  /\ UNCHANGED <<shm_block, commands, reads, crossed>>

-----------------------------------------------------------------------------
(* A block is received: ServPID is set, and then, if the block is right,   *)
(* overwritten with all the rest.                                          *)
Receive(b) ==
  /\ doing[b] = "run"
  /\ \E pid \in {b, Control} :
       /\ ServPID' = [ServPID EXCEPT ![seg[b]] = pid]
       /\ right' = IF pid = Control THEN right \cup {seg[b]} ELSE right
  /\ UNCHANGED <<doing, seg, key, made, commands, reads, crossed>>

(* A command is passed on to the control system.                           *)
PassOn(b) ==
  /\ doing[b] = "run" /\ commands # <<>> /\ commands' = Tail(commands)
  /\ UNCHANGED <<doing, seg, shm_block, reads, crossed>>

(* Mutant: the segment is removed as it is.                                *)
bta_data_close_not(b) ==
  /\ \/ BridgeGoes(b, "run", "closing")
     \/ \E from \in {"drain", "check", "bind"} : BridgeGoes(b, from, "leaving")
  /\ crossed' = (crossed \/ doing[b] \in Beginning
                 \/ \E a \in Bridges \ {b} : doing[a] \in Beginning)
  /\ UNCHANGED <<seg, shm_block, commands, reads>>

(* SIGTERM and its like: close_shm_block makes the block wrong ...         *)
bta_data_close(b) ==
  /\ \/ BridgeGoes(b, "run", "closing")
     \/ \E from \in {"drain", "check", "bind"} : BridgeGoes(b, from, "leaving")
  /\ right' = right \ {seg[b]}
  /\ crossed' = (crossed \/ doing[b] \in Beginning
                 \/ \E a \in Bridges \ {b} : doing[a] \in Beginning)
  /\ UNCHANGED <<seg, key, made, ServPID, commands, reads>>

(* ... and removes the segment from its key.                               *)
RemoveSegment(b) ==
  /\ \E from \in Stopping : BridgeGoes(b, from, "off")
  /\ key' = IF key = seg[b] THEN 0 ELSE key
  /\ seg' = [seg EXCEPT ![b] = 0]
  /\ UNCHANGED <<made, right, ServPID, commands, reads, crossed>>

(* SIGKILL, or a signal before there is a block to close.                  *)
KilledBridge(b) ==
  /\ Lives(b) /\ doing' = [doing EXCEPT ![b] = "off"]
  /\ seg' = [seg EXCEPT ![b] = 0]
  /\ UNCHANGED <<shm_block, commands, reads, crossed>>

-----------------------------------------------------------------------------
(* A reader attaches the segment, or ends.                                 *)
Attach(r) ==
  /\ reads[r] = 0 /\ key # 0 /\ reads' = [reads EXCEPT ![r] = key]
  /\ UNCHANGED <<doing, seg, shm_block, commands, crossed>>
Detach(r) ==
  /\ reads[r] # 0 /\ reads' = [reads EXCEPT ![r] = 0]
  /\ UNCHANGED <<doing, seg, shm_block, commands, crossed>>

(* Someone gives a command; there need not be a bridge.                    *)
GiveCommand ==
  /\ Len(commands) < MaxQueued /\ commands' = Append(commands, {})
  /\ UNCHANGED <<doing, seg, shm_block, reads, crossed>>

Start(b) == Look(b) \/ Create(b) \/ Fails(b) \/ bta_data_init(b) \/ Drain(b)
            \/ CheckPid(b) \/ Bind(b) \/ ExitBridge(b)

ShmNext ==
  \/ \E b \in Bridges :
       \/ Start(b) \/ Receive(b) \/ PassOn(b)
       \/ bta_data_close(b) \/ RemoveSegment(b) \/ KilledBridge(b)
  \/ \E r \in Readers : Attach(r) \/ Detach(r)
  \/ GiveCommand

ShmSpec == ShmInit /\ [][ShmNext]_shm_vars

-----------------------------------------------------------------------------
(* Properties.                                                             *)

ShmTypeOK ==
  /\ doing \in
       [Bridges -> Beginning \cup Stopping
                       \cup {"off", "blind", "run", "refused"}]
  /\ seg \in [Bridges -> {0} \cup Segments] /\ key \in {0} \cup Segments
  /\ made \in 0 .. MaxMade /\ right \subseteq Segments
  /\ ServPID \in [Segments -> Bridges \cup {Nobody, Control}]
  /\ commands \in Seq(SUBSET Bridges) /\ Len(commands) <= MaxQueued
  /\ reads \in [Readers -> {0} \cup Segments] /\ crossed \in BOOLEAN

(* A reader who is told that its block is right (check_shm_block) reads    *)
(* the block of the bridge that runs, whatever bridges were killed and     *)
(* stopped and started before; and who attaches now finds that block too.  *)
(* Only a bridge that is stopped while another begins spoils it.           *)
ReadersSeeBridge ==
  \A b \in Bridges :
    doing[b] = "run" /\ ~crossed =>
      /\ key = seg[b]
      /\ \A r \in Readers : reads[r] \in right => reads[r] = seg[b]

(* A bridge passes on no command that was given before it was started.     *)
NoOldCommands ==
  \A b \in Bridges :
    doing[b] = "run" => \A i \in DOMAIN commands : b \notin commands[i]

(* The message "server process already running!" (bta_control_net.c:240):  *)
(* a bridge is refused by the PID only if another one is there.            *)
RefusedOnlyIfRunning ==
  [][ \A b \in Bridges :
        doing[b] = "check" /\ doing'[b] = "refused" =>
          \E a \in Bridges \ {b} : Lives(a) ]_shm_vars
=============================================================================
