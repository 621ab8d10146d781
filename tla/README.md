# BTA_utils in TLA+

Models, model-checking runs and machine-checked proofs for `BTA_utils`, the
programs that surround the control system of the BTA telescope: daemons that
put weather and mirror temperatures into the control system's shared memory, a
UDP bridge that carries that memory and operators' commands over a network, a
CAN bus reader, clients that move the P1 and P2 rotators, and servers that give
the telescope's state away. All of it is C, one directory per program; there are
no tests. Definitions are translated from the code at the lines listed in
`PROJECT.json` ("map").

Run the tools in this directory, for example

    tlc -workers 2 -config MCCanRing.cfg MCCanRing     # a run
    tlapm CanRingProofs.tla                            # the proofs

## 1. Inventory

The shared state of the whole system is one block of System V shared memory,
`struct BTA_Data` (`bta_shdata.h`; every program has its own copy of
`bta_shdata.c`), and three message queues, `mcmd`, `ocmd` and `ucmd`, that give
commands to the control system. The control system itself is not in the
repository. Programs store to and load from the block without any lock.

| component | state it keeps | operations | how it interacts | what is hard |
|---|---|---|---|---|
| CAN receive ring, `olddaemon/CAN/can_io.c` | ring of frames, `rx_buff_pntr` in shared memory; a private index per client | put, clean, get a frame; send (echoed to the ring) | servers and clients through shared memory and `flock` | the client compares indices before it takes the lock; a process may die with the lock held; a client may be lapped |
| CAN I/O process, same file | segment, `can_pid`, `can_open` | init, start, abort, exit | servers find each other through two words only | start, stop and crash in any order, a stop that takes two seconds |
| old meteo daemon, `olddaemon/bta_meteo_can.c` | `start`, `tok`, `T2`, the rain sensor's times | one pass of its loop | CAN ring; `MeteoMode`, `val_T2`, `Precip_time` in the block | other programs change `MeteoMode` by load and store; lost commands; signals at any place; three times compared in nested conditions |
| Modbus meteo daemon, `BTA_modbusmeteo/` | guard and child; `lastpar`, buffer, `tlast` | listen to a line, pair requests and answers, publish | the line; the block; `fork`, `wait` | answers do not name their register; damaged and unnoticed packets; children that die; flags that outlive the data |
| mirror temperature daemon, `bta_mirtemp/` | guard and child, time of the last data, sockets never closed | poll a TCP server, publish T3 | a server; the block; `fork`, `wait`, death signal | reads without a time-out; sockets that run out; flags that outlive the data; a child killed before it asked for the death signal |
| UDP bridge, `bta_control_net.c` | client: counters, multicast membership; server: `last_recv`, `last_send` | client: receive a block or time out, poll three queues, send; server: receive, reply, broadcast | UDP both ways, queues, the block on both sides | loss and damage, priority of commands, pacing against floods, a membership the kernel loses |
| block and queues, `bta_shdata.c` | segment under a key, its magic and version, `ServPID`, queues | attach, create, drain a queue, mark wrong, remove | every program | bridges that start, stop and crash in any order; commands older than the bridge |
| JSON server and clients, `jsonbta/` | a listening socket, a process per client, a buffer that is never cleared | parse a request, print fields; run single-instanced | reads the block; TCP; `SIGCHLD` | signals of several children that come as one; what older requests left in the buffer |
| Stellarium control, `Stellarium_control/` | guard and child, a client, the status of the last request | decode and encode coordinates, point the telescope | TCP; `ucmd` queue; the block tells whether a command was obeyed | messages that come together, a full queue, others that give commands meanwhile |
| CAN network gateway, `Network_CAN_clientserver/` | two sockets, a reading thread | turn text commands into CAN messages and back | clients' sockets and a serial-line server | the thread deletes a socket the other threads use |
| P1 rotator, `p1rotator/` | PID file; step counts, direction, period | `check4running`; find the zero switch, turn by an angle, follow the position angle while the telescope tracks | motor pins; the block; `/proc` | two copies of the program; an angle that wraps and cables that wind up; two clocks that reset each other |
| P2 client, `client-p2/` | `is_running`, a moving thread and a reading one | move to an angle | motor controller on a serial line; `val_P` in the block | a forbidden zone between the ends of a move; two threads and a flag |
| FITS header writer, `bta_print_header/` | guard and child, a file under a temporary name | write and rename a header, again and again | the block; file system; other instances | a reader that sees half of a file; a full disk; an instance that truncates before it looks for others |
| wavefront reader and FITS tools, `wfs_read/`, `fits_headers/` | where the next line of a table is; an array being sorted | read tables of coefficients; median of angles; Zernike polynomials | files | a parser for which an end of line is a space; loops that rely on sentinels |
| options, locale, headers, vendored code | none | - | - | - |

What makes them correct:

* **Ring.** A client gets each frame once, whole and in order, and loses frames
  only when it was lapped. No call hangs because somebody died.
* **CAN I/O process.** One process reads the device; it is reachable by every
  client; nobody is refused without a reason, also after crashes.
* **Meteo daemons.** A flag of `MeteoMode` says that a value is fresh: it must
  not outlive the data or the daemon, must come back with the data, and must
  stand for the right quantity.
* **Rain.** Other programs learn of rain that is certain, and the operator is
  not flooded with alarms.
* **Bridge.** The image is always a block that existed, never an older one than
  before, and catches up; `StopTel` overtakes other commands; nobody starves.
* **Block.** Who is told that his block is right reads the one of the bridge that
  runs; a bridge passes on no command that is older than itself.
* **P1 rotator.** One process drives the motor; its counters say where it is, its
  cables are not wound up, and it catches up with an angle at rest.
* **P2 client.** Status 0 means that the table is where it was to go, by the
  shorter way, and out of the zone.
* **Guarded daemons.** What a daemon publishes goes with it; what it writes comes
  back after whatever died.
* **Servers.** Who asks is answered; who is told that he was obeyed was; no ended
  child is forgotten.
* **Tools.** The median is the median for every order of the data, and a line of a
  table is a row, whatever is between the lines.

The hazards behind these are listed one by one in `PROJECT.json` ("hazards"), at
the lines where they bite, with the properties that guard them or the reason why
none does.

## 2. Modules

| module | models | composed from |
|---|---|---|
| `FrameLog` | what the ring promises: a log of frames that forgets all but the last ones | |
| `CanRing`, `CanRingProofs` | the ring: one step per lock, word copied and index change | `Log == INSTANCE FrameLog` |
| `CanIoLife`, `CanIoLifeProofs` | life of servers, clients and segments, one system call a step | |
| `MeteoCan`, `MeteoCanProofs` | main loop of the old meteo daemon, its converters, other writers | |
| `Precip` | its handling of the rain sensor | |
| `MirTemp` | guard, child and server of the mirror temperature daemon | |
| `ModbusMeteo`, `ModbusMeteoProofs` | guard, child and line of the Modbus daemon | |
| `NetBridge`, `NetBridgeProofs` | both ends of the bridge and the network | |
| `NetPace` | the bridge server's pace in time | |
| `ShmBlock` | bridges, readers, the block and a queue on one machine | |
| `SingleInstance` | `check4running` and the PID file | |
| `Rotator` | the P1 rotator's motion | |
| `MoveP2` | the P2 client's two threads and the drive | |
| `JsonServer` | parent, children and one connection of the JSON server | |
| `Stellarium` | parent, child, a client, the command queue | |
| `ServersProofs` | proofs about six that serve or publish | `JsonServer`, `Stellarium`, `NetPace`, `ShmBlock`, `Precip`, `MirTemp` |
| `HeaderFile` | master, writing child and file of the FITS header | |
| `QuickSelect` | the median of the FITS header tool | |
| `DatFile` | the reader of tables of coefficients | |
| `FitsProofs` | proofs about these three | `HeaderFile`, `QuickSelect`, `DatFile` |
| `MCPrograms` | the small programs together, see below | the modules it names |
| `ProgramsProofs` | proofs about `SingleInstance`, `Rotator`, `MoveP2`, and about all twelve together | `MCPrograms`, `FitsProofs`, `ServersProofs` |
| other `MC...` | constants for TLC | the module of the same name |

Each module begins with variables named after the code's; history variables are
marked `history:` and bounds `bound:` in their comments. A definition commented
`Mutant:`, with the name of an action and a word more (`StopAdcKeepsFlag`), is a
bug on purpose: `PROJECT.json` ("mutants") says which property catches it when it
takes the place of the action it is named after. No specification uses one.

**`MCPrograms`** puts twelve small modules into one run. The programs share nothing
but the control system's data, which each module has in its environment, so there
is nothing to interleave: `unit` chooses the program of a behaviour in the initial
state, `ProgramsNext` lets that program step and keeps everyone else's variables.
A property of the run is the module's own, about its own variables; a temporal one
begins with `unit = ...` where it needs fairness. All modules are extended, so that a
run and a theorem speak of the same definitions; that is why most definitions for which
the code has no name bear the name of their module (`TempNext`, `StellInit`). The
constants are in the `.cfg`, and TLC evaluates each module's assumptions on them.

### How state and actions correspond to the code

**`CanRing`.** `can_lk` is the lock on the lock file, with its owner;
`rx_buff_pntr`, `rx_buff` are the shared memory; `pbuf`, `rtime`, `got` are a
client's arguments to `can_get_buff_frame`. `LockToPut`, `PutHead`, `PutBody`,
`AdvancePntr` and `UnlockPut` are `can_put_buff_frame`; the client's actions are
`can_clean_recv` and `can_get_buff_frame` with its test `Behind` ahead of the
lock. The copy of a frame is two words, so that a torn one can be seen. A
process dies at any place; the kernel then frees its lock. `written`, `pos` and
`deaths` are history. `flock` is restarted after a signal (`SA_RESTART`, as
`signal()` installs handlers), so that it never returns without the lock.

**`CanIoLife`.** `pc` goes through `init_can_io` (`find`, `create`, `attach`),
`start_can_io` (`device`, `clear`, `check`, `claim_pid`, `claim_open`, `run`) and
`can_abort`/`can_exit` (`stopping`, `stat`, `remove`). `key`, `dest`, `attached`
are the kernel's side of `shmget`, `shmat`, `shmctl`. Any process that cannot open
the device or the lock file, a client too, removes the segment (`DeviceFails`).
The PID of a dead process may go to a server, a client or a program that has nothing
to do with any of it (`pc` is `"other"`), also when `can_pid` still names it, which
`kill(can_pid, 0)` cannot see. `mishaps` notes that, and what an operator can avoid
(two starts or exits at once, a restart within two seconds, a signal before the
loop, a device or file that cannot be opened); the properties name those they exclude.

**`MeteoCan`.** `Control` has the code's three cases in their order. `StartAdc` and
`SendStop` send one command to each converter, any of which may be lost
(`delivered`). The flag is cleared in one step (`ClearFlag`), and the commands and the
exit come in another (`SendStop`, from `"leaving"`), so that other programs may store
a `MeteoMode` they loaded before in between; in the same way `TakeT2` and
`PublishT2` are the two halves of what is done with a frame, around the flag and
`val_T2`. `age` is `tcurr - tok`. `before`, `raced`, `late` are histories of
another program's load and of a signal; `standing` counts how long the flag has
stood without any frame.

**`Precip`.** One frame is one step; `React` is the condition nest of lines
279-290. The times 600, 60, 30 and 3 s are scaled to 6, 4, 2 and 1, which keeps
their order.

**`ModbusMeteo`.** `buffer` says which packets are in the read buffer: a
request, an answer, both (sum right or `"bad"`) or bytes of an odd number.
`fresh` becomes false when `select` times out, which is how the code notices the
end of a packet; the display and the station do not wait for that. A packet comes
whole, with a wrong sum, cut, or not at all. `lastpar` stays from one exchange
to the next as the code's static variable does. `val` holds the register whose
answer was stored, so that a value under a wrong name can be seen. `sure` is a history:
the last request was the first thing in the buffer, and the tries have not run out
within a packet since.

**`MirTemp`.** `child` is the place in the child's loop; `Answer`, `Failure` and
`Hang` are the ways `get_mirT` may go, each with the socket it does not close on
failure (`lost`). `CheckSilence` is the time-out at the head of the loop, with
`quiet` for `time(NULL) - tlast`, which a new child sets to 0 although the
temperature in the block may be old; `T3_age` is the time since that temperature was
stored, whichever child stored it. `grace` is how old it may get: one `Lapse` (a
silence, a pause of each kind, an attempt), and one more for each child that died and
left the flag. `stuck` says that a child has hung in `read` since.
`temp_signals` runs in the child only if it has the segment; `DeathSignal` is what
`prctl` asked for, and `orphan` a child whose guard died before it asked.
`clear_flags` clears what the code clears, `NET_HMD` in the place of `NET_T3`.

**`NetBridge`.** The client's loop is `ClientRecv` or `ClientTimeout`, then
`PollNext` along `Polls` until `SendCommand`, `SendSync` or `NothingToSend`; a
damaged block leads to `Cleanup`. Blocks are numbered; two more numbers stand for a
damaged one, `Garbage`, which is not copied, and for one whose size field is damaged,
`Misfit`, which is, since the code then takes it for a block of another version and
does not look at its sum. `newest` is the history of the newest block the image has been.
The network loses packets of both directions and damages blocks; it keeps their
order and does not duplicate them.

**`NetPace`.** The server's loop in units of time; packets may arrive at any
moment. It keeps the code's order: `last_recv` and `last_send` are set to the
time before the sleep.

**`ShmBlock`.** `Look`, `Create`, `Fails` are the calls of `get_shm_block`; a
bridge that fails there drains the queues all the same before it ends (`blind`).
`bta_data_init` and `bta_data_close` are what they are named after; `Drain` is
`get_cmd_queue`'s loop, `Check` the look at `ServPID`, `Bind` the UDP port, which is
what really keeps two bridges apart. `right` are the segments whose magic and
version are right, which is all that `check_shm_block` looks at. A command is the
set of bridges that were started after it was given. `Receive` stores the bridge's
own PID and then overwrites it with the control system's (finding 5).

**`SingleInstance`.** `Exec` makes the process visible to others; `ReadPidfile`,
`FoundNamed`/`StaleNamed`, `Pass`/`Found` are `check4running`, one process of
`/proc` a step in any order; `UnlinkPidfile`, `Exit` are the signal handler;
`Killed` is a crash. Ids of the dead are used again. The same function, copied, is
in `jsonbta`, `Stellarium_control` and `bta_print_header`.

**`Rotator`.** Angles are microsteps. `setup_pins`, `gotozero`, `Goto` and `Track`
are the phases of `main`; `Track` is one pass of `stepper_process` with its
order of tests: recalculate the period once a second from the time since the last
calculation (`Recalculate`), set the direction (`Direct`), make a step if its time has
come. `since_T` and `since_step` are the code's clocks, up to `MaxWait`. `place` is
where the rotator is in reality, wherever the counters say it is; it turns with
the steps while `EN_PIN` has the level that `setup_pins` gave it. `stop_motor`
ends every way out.

**`MoveP2`.** `mover` and `main` are the two threads, `is_running` their flag.
`Way` is the choice of direction, `Refuse` the tests for the zone. The drive turns
on by itself; `said` is its "Stop" in the line, which `Read` may fail to
recognise. `status` is the argument of `quit`.

**`HeaderFile`.** `CheckBlock`, `Open`, `Write`, `Rename` are the child's loop,
`Rename` with whatever was written, as the code goes to `returning` from any
failed write (`short` notes it). `OtherTruncates` and `OtherUnlinks` are another
instance, which opens the file for writing, or creates it, before `check4running`, and
then removes whatever has the name: the child's `Rename` may come between the two.
The file under the header's name is `header`; those under temporary names are
`litter`.

**`JsonServer`.** `buffer` keeps what older requests and `strtok`'s zeros left
behind the bytes received, for the code neither clears nor ends it. `AnswerNames`,
`AnswerGet` and `AnswerQuery` are the three ways a request is read; characters are
few but real, since the hazard is in them, but a `GET` with its resource is one, a
member of `Marks`. The parent's `wait_for_child` takes all ended children of one
signal.

**`Stellarium`.** `ReadMessage` gives the command to the queue, `PollSegment` is the
wait for the coordinates in the block (`Polls` + 1 looks) and `JudgeSegment` the
second comparison, which decides; `ReadTooMuch` is what happens to messages that come
together. `told` is the status a client was sent last and `about` the message it is
about; `in_force` are messages whose coordinates were the telescope's since.

**`QuickSelect`.** A step is one comparison of the inner loops or what is between
two of them, so that an index outside the part, or a loop that never ends, would
be seen.

**`DatFile`.** A text is a sequence of words, spaces and ends of lines; `nextline`,
`get_hdrval` (which counts words, not pieces: `Begins`) and `read_double` (`IsNumber`, `Value`, `Behind`) are functions of a
place in it; `begin` is the code's `buf`, by the name it has in `read_double`;
`Skip`, `Take` and `Break` are the passes of `dat_read_next_line`'s loop. A row holds
the places of its numbers.

## 3. Runs

| run | bounds | shows |
|---|---|---|
| `can_ring` | ring of 3, two servers, one client, 4 frames, one death | the ring implements `FrameLog` (`ImplementsLog`); frames are whole and new but in the one case `IntactUnlessLapped` names; the ring holds all but one of its slots (`HoldsAllButOne`); every call returns (`GetReturns`) |
| `can_io` | two servers, one client, 3 segments, 4 starts | one process reads the device (`OneServer`), it serves (`SoleServerServes`), clients reach it (`KeyLeadsToServer`), nobody is refused unless another serves at that moment (`RefusedOnlyIfServed`) |
| `can_io_restart` | same | **violated**: `RestartedServerServes` (finding 1) |
| `can_meteo` | silence at once, retry after 1 unit, one other converter, times up to 4 | a T2 that says out of range is not given out (`OnlySensorT2`); no flag is left behind (`ExitLeavesNoFlag`); none outlives the last frame by more than the two time-outs (`SilenceClearsInTime`); T2 comes back, or a lost command keeps it away (`T2ComesBack`) |
| `precip_alarm` | clock 0 .. 18 | **violated**: `AlarmOncePerMinute` (finding 2) |
| `modbus` | one sensor and one register without a flag, silence after 1 unit, one killed child | a value is stored under its own register (`RightRegister`); a station that stops answering loses its flags (`SilenceClearsFlags`) |
| `modbus_stop` | same | **violated**: `StopClearsFlags` (finding 3) |
| `net_bridge` | queue of 2 for `mcmd`, 1 for the others, two packets each way, two blocks, one lost membership | `StopOvertakes`, `ImageSound` |
| `net_image` | one command in `mcmd` and one in `ucmd`, one packet each way, two blocks, one lost membership, joined again after three silent passes | the image catches up (`ImageCatchesUp`); users are served when the operator is quiet (`UserServed`) |
| `net_pace_ten` | times 5, 6, 17, 1 | **violated**: `TenPerSecond` (finding 4) |
| `programs` | next table | `TypesOK` and one to three properties of each program |
| `bridge_refused` | two bridges, one reader | **violated**: `RefusedOnlyIfRunning` (finding 5) |

What `programs` checks of each program:

| program | bounds | properties |
|---|---|---|
| `MirTemp` | silence 3, poll 2, retry 1, reply 1 units; one lost socket, two signals or hands | a temperature that is to be trusted is no older than one `Lapse`, and one more for each child that died since and left the flag, unless one has hung (`NoStaleTemperature`); the guard stopped, the flag goes (`StopClears`) |
| `HeaderFile` | two records, pause up to 3, four mishaps | who finds a header finds a whole one, but between another instance's truncation and removal, or after a failed write (`WholeHeader`); it comes back whatever died (`HdrComesBack`) |
| `Rotator` | a turn of 4 steps, shortest period 1, speed after more than 1 unit, times up to 6, an angle of 3 first | cables are not wound up and the counters are right (`NoWindUp`); an angle at rest is reached (`CatchesUp`) |
| `MoveP2` | circle of 8, zone 0 .. 3 | `ArrivedAtExit` |
| `JsonServer` | buffer of 6, names of one and two letters, twelve pieces, two children | `AskedIsAnswered`, `NoZombieForgotten` |
| `Stellarium` | two coordinates, three messages, two looks, queue of 1 | `OkMeansObeyed` |
| `Precip` | clock 0 .. 18 | rain that goes on is news (`ToldWhileItRains`) |
| `NetPace` | times 2, 3, 5, 1 for 0.1, 0.11, 0.333, 0.011 s, two packets waiting | `GapBounded`, `TwoAtATime` |
| `ShmBlock` | two bridges, one reader, two segments, two commands | `ReadersSeeBridge`, `NoOldCommands` |
| `SingleInstance` | 3 ids, 3 starts | `OneInstance`, `PidfileNamesIt`, `RefusedForCause` |
| `QuickSelect` | up to 5 data of 3 values | `StaysInside`; the median, equal to a count over the data, is returned (`SelectReturnsMedian`) |
| `DatFile` | two headers, one with a name of two pieces, files of up to five pieces behind them, three files of a header alone | each line is a row (`LinesAreRows`) |

Why the bounds are enough. A ring of three slots has an empty one, one being
read and one being written at the same time, and four frames lap it. Two
servers are the least that can disagree, and three segments let a crash leave one
behind, a second be destroyed and a third be created. In `SingleInstance` three
starts put three processes into `/proc` at once, or let one begin with the id of
one that was killed while another looks; `MaxStarts` of 4 and 6 was checked too, on
the module alone. Four starts in `can_io` let one of two servers
be killed and start again beside the other and a client, with the PID of a dead one or
its own. One packet each way in the bridge lets every fate befall it between any two
steps of either side; two in `net_bridge` let one be behind another, and its queue of
two has a command ahead of a `StopTel`. A `Tout` of 2 in `net_image` lets an answer
that is damaged put off joining the group again, as often as it comes. In `net_image`
`ocmd` is left out: it is polled as `mcmd` is, and `net_bridge` has all three. In
`can_meteo` times count to 4, one more than the two time-outs take together. `modbus`
has one register with a flag and one without, which is enough for an answer to have
a wrong name; the theorem is about any registers. For `Rotator` a pause in tracking
may be so long (6) that the period calculated from it, 2 for one step to go, is
longer than the time to the next calculation (`Second`, 1). Two bridges and two segments let one crash,
its segment be found and made right by the other, or be removed and made anew
while a reader holds the old one. A turn of four steps has a step to each side of
the opposite point and a way of exactly half a turn; a circle of eight has angles
in, before and behind the zone and both directions of the shorter way. A buffer of
six holds two names with their delimiters and leaves room for the rest of an
older request. Five data take `quick_select` through both kinds of smaller part,
and three values through all kinds of equal ones. The texts have two lines of up to
three numbers, with every piece at every place. Times are the smallest numbers
with the code's order; `net_pace_ten` uses finer ones, since a count within a
second depends on their ratio.

`CHECK_DEADLOCK FALSE` is set where everything really may stop (bounded starts,
a daemon that was stopped, a program that has ended, a clock at its bound), not in
`can_ring`.

### Findings

1. `can_io.c:448`: a CAN I/O process that stops stores `can_pid = 0` two seconds
   after the signal without looking whose PID it is. One started in between loses
   its words and waits for ever, reading no frame.
2. `bta_meteo_can.c:282`: the comment promises an alarm no more than once a
   minute, a flickering sensor sounds one every 30 s.
3. `BTA_modbusmeteo/main.c:82`: the guard's `childpid` is declared twice; a
   guard that is stopped does not clear the flags as line 52 intends.
4. `bta_control_net.c:533`: "max 10 cmd-packs per second" are nearly twenty, for
   the time stored is the one before the sleep.
5. `bta_control_net.c:239`: "already running!" is said of any process that has the
   PID that the control system's server has on its own machine.

Seen while reading, and only noted, for no text of the repository says otherwise
or no run was made of it: `clear_flags` of the mirror
temperature daemon, in the branch for `NET_T3` and below a comment that it clears the
"net" flag, clears `NET_HMD`, another daemon's (`bta_mirtemp/main.c:29`);
`stop_motor`, "Disable stepper motor", writes to the enabling pin the level opposite to
the one with which `setup_pins` is to "disable all @ start" (`stepper.c:143`, `:122`);
of "the shortest way" of the P1 rotator only angles
above 180 degrees are reduced, not those below -180 (`stepper.c:223`); the P2
client compares a relative target with the zone without reducing it to a circle, which is why
`ArrivedAtExit` speaks of the zone for absolute ones only; `rm_outliers` removes all data
when their median is not positive, and no datum of fewer than ten is three deviations
from the mean (`fits_headers/main.c:124`), after which `quick_select` is called with no
data and reads the first of them (`:245`); a start command lost for converter 1 alone
keeps T2 away as long as other converters run (`bta_meteo_can.c:153`), which is the
exception in `T2ComesBack`; a child of the mirror temperature daemon that replaces one
that was killed takes an old temperature for new (`bta_mirtemp/main.c:153`), so that
`NoStaleTemperature` allows it a silence more; a value is stored under an older
register when the Modbus daemon did not read the request from its beginning
(`bta_meteo_modbus.c:155`), which `RightRegister` leaves out; a block whose size field
alone is damaged is copied (`bta_control_net.c:391`); a frame stamped more than a second
before the last one is passed over (`can_io.c:350`) and counts as taken in
`ImplementsLog`; the last number of a table is lost if
no end of line follows it, and a line shorter than the skipped columns is read as
one with the next (`readdat.c:56`), which is what `WellFormed` in `DatFile`
excludes.

### Fairness

* `CanRing`: a process that runs goes on (weak fairness of each), and `flock`
  serves those that wait in turn (strong fairness of the client's lock).
* `MeteoCan`: the daemon runs, the clock goes on, the loop over frames ends again
  and again because converters give a code every half second at most, a start command
  that is sent over and over to one converter is delivered to it at last (strong
  fairness for each), and a converter that works gives codes in range.
* `ModbusMeteo`: guard and child run (`fork` succeeds), and time passes. Nothing
  is assumed about the line.
* `NetBridge`: the client runs, reads a packet that waits again and again, and
  the network does not lose everything: of the packets to the server, of the blocks
  sent to everyone while the kernel has the client in the group, and of the answers
  in mode `"remote"`, some get through whole (strong fairness of each). In mode
  `"mcast"` no answer need be sent, for a packet may always find that a block is due to
  everyone; but when answers are sent without end not all of them are damaged. That the
  server sends its block again and again is what `NetPace` shows.
* `FairPrograms`: for `MirTemp` the kernel delivers the death signal and nothing
  else; for `HeaderFile` child and master run, and mishaps are bounded; for `Rotator` the loop,
  which does not block, makes the step that is due, and the time goes on; for
  `QuickSelect` the function is executed. Each is a weak fairness of
  actions that nobody else can disable for good.
* `CanIoLife` and the other programs have safety properties only.

## 4. Proofs

The theorems hold for every value of the constants that the modules' assumptions
allow: any size of the ring, any sets of processes, any bounds, any times in the
order that the code has them. A proofs module gives a component in this order: the
inductive invariant, lemmas about its operators, the proof that every action keeps the
invariant, the theorems. Each invariant was one of a TLC run before it was proved.

| theorem | property | holds for |
|---|---|---|
| `CanRingProofs` | | |
| `Invariance`, `TypeCorrect` | the inductive invariant, `TypeOK` | any ring, any processes, crashes |
| `CapacityHolds` | `HoldsAllButOne` | the same |
| `FramesIntact` | `IntactUnlessLapped` | the same |
| `LockIsGivenBack` | `NoOrphanLock` | the same |
| `RingImplementsLog` | `ImplementsLog` | the same; a refinement |
| `CanIoLifeProofs` | | |
| `OneServerReads` | `OneServer` | any processes and segments, crashes, PIDs used again; no other mishap |
| `KeyNamesServer` | `KeyLeadsToServer` | the same |
| `LoneServerServes` | `SoleServerServes` | the same, and devices that fail |
| `RefusedByTheServing` | `RefusedOnlyIfServed` | the same; a super-user (`Root`); any mishap but an overlap and a PID used again |
| `MeteoCanProofs` | | |
| `MeteoCanTypes` | `TypeOK` of `MeteoCan` | any `T2`, any time-outs |
| `ClampedT2Kept` | `OnlySensorT2` | the same |
| `FlagGoesAtExit` | `ExitLeavesNoFlag` | the same |
| `FlagGoesInTime` | `SilenceClearsInTime` | the same |
| `ModbusMeteoProofs` | | |
| `ValuesUnderTheirRegisters` | `RightRegister` | any registers; requests read from their beginning, any other loss or damage |
| `NetBridgeProofs` | | |
| `StopIsSoon` | `StopOvertakes` | queues of any room, any losses |
| `ImageNeverAgesBack` | `ImageSound` | any number of blocks, any loss or damage |
| `ServersProofs` | | |
| `WholeNamesAnswered` | `AskedIsAnswered` | any requests and buffer |
| `EveryChildReaped` | `NoZombieForgotten` | any number of children |
| `ZeroMeansObeyed` | `OkMeansObeyed` | any messages, any room in the queue |
| `GapIsBounded` | `GapBounded` | any times as assumed, any socket buffer |
| `PacketsPaced` | `TwoAtATime` | the same |
| `RightBlockIsLive` | `ReadersSeeBridge` | any bridges and readers, crashes |
| `OldCommandsDropped` | `NoOldCommands` | the same, any queue |
| `RainIsTold` | `ToldWhileItRains` | any times as assumed |
| `TrustedIsRecent` | `NoStaleTemperature` | any times as assumed, any number of dead children |
| `FitsProofs` | | |
| `HeaderIsWhole` | `WholeHeader` | any number of records, deaths and other instances |
| `LoopsStayInside` | `StaysInside` | any number of any integers |
| `MedianReturned` | `MedianAtEnd`, safety half of `SelectReturnsMedian` | the same |
| `SelectEndsInTime` | `EndsInTime`, a measure for its other half | the same |
| `EachLineIsRow` | `LinesAreRows` | any texts, any columns ahead |
| `TableEndsInTime` | `ReaderAdvances` | the same |
| `ProgramsProofs` | | |
| `MotorExclusive` | `OneInstance` | any set of process ids |
| `PidfileRight` | `PidfileNamesIt` | the same |
| `RefusalJustified` | `RefusedForCause` | the same |
| `CablesSafe` | `NoWindUp` | any turn and delay, any angles |
| `ZeroMeansThere` | `ArrivedAtExit` | any circle and zone, any target |
| `ProgramsTogether` | each program's own specification | all of the twelve together |
| `TypesAlways` | `TypesOK` | the same |
| `ProgramsSafe` | all safety properties of the run `programs` | the same |

### Why they hold

**`CanRingProofs`.** `TypeOK` alone says nothing of contents; the argument needs
four more parts: `LockInv` (who is between the two `flock` calls owns the lock),
`PosInv` (how a client's index relates to the frames it has still to read: it is
right unless the client was lapped, and the test made before the lock stays true,
for only the client itself can make it false), `ContentInv` (each slot holds the
frame its place calls for, but the one being written or left half written by the
dead) and `GotInv` (what a client has copied so far is what the slot still holds).
In `RingImplementsLog` every step of the ring is a step of the log or none. The
arithmetic of `% CAN_RX_SIZE` is in the first lemmas, `NextSlotIs`, `FrameAtOrder`
and `FrameAtAdvance`. `LockInv` does not say that there is somebody behind a lock;
`NoOrphanLock` does, for it is given back on every way out, and by the kernel.

**`CanIoLifeProofs`.** `PlaceInv` holds whatever happens: where a process is
decides which segment it holds. `CalmInv` holds as long as there was no mishap that can
be avoided: one process at a time starts or leaves (`BusyInv`), so that all hold the
segment under the key and who has just created it, or removes it, is alone with it
(`SegmentInv`), so that the two words belong to the server in its loop, and nobody
writes them while there is one (`WordsInv`). Whose PID a dead one's was given to makes
no difference to that: it can only cause a refusal. A device or a lock file that cannot
be opened breaks it: who could not open it removes the segment under the feet of the
others, who go on with one that has no key. What is left then is `OrderlyInv`: who
creates a segment is alone with it (`AloneInv`), and each server in its loop has its own
words (`ServesInv`).

A refusal says that `can_pid` names a living process and that `can_open` is set; it is
right only if that process is in its loop, on the same segment. `ClaimInv` says so: a
segment names a process that is there only if it has claimed it and, from its SIGTERM
on, `can_open` is no more. Two things it needs: one process at a time starts
(`StartsInv`), or two that both found the words free would claim them by turns; and no
new process has a PID that a segment still names, or `can_pid` would be its by accident.
No other calm is needed.

**`MeteoCanProofs`.** Between clearing the flag and storing `val_T2` the flag is off
or was put back by another program (`PublishInv`). When the flag has been cleared for
good and the last commands are sent, only a store whose load came before can put it
back (`LateInv`, with `before`): one that is loaded later is loaded clear. A daemon in
the middle of reading frames that is to stop got its signal there. `StandInv` bounds the
time that the flag stands without frames by the clock of the time-out that runs, and
says that no pass leaves it standing when that has run out.

**`ModbusMeteoProofs`.** An answer does not say what it answers. All that is claimed is
for exchanges whose request was the first thing in the buffer, in which no tries
have run out in the middle of a packet (`sure`): then an answer that shares the buffer
with a request is that request's (`BufferInv`), one that was heard is the last
thing on the line (`AnsweredInv`), and a register that `lastpar` remembers is either that
of the exchange or will be overwritten by a request that waits in the buffer
(`AskedInv`). What earlier exchanges left in `lastpar`, and pauses nobody noticed, are
part of the cases of this invariant.

**`NetBridgeProofs`.** A packet sent ahead of a waiting `StopTel` ends its pass, and
the next pass begins with the poll that finds it (`AheadInv`); `QueueInv` and
`PassInv` say where a pass begins. Whole blocks under way are in order, none older
than `newest` and none newer than the server's own (`BlocksInv`); blocks with a wrong
size come between them, get into the image and do not count.

**`ServersProofs`.** `JsonServer`: the children's handler takes all that ended, so that
a signal that merges with another is no loss. A connection's buffer may hold anything
of older requests behind the bytes received, but no `GET` (`NoOldGet`), since what is
received begins with one: `strtok` then stops where the request does, or finds names
that were not asked. `Stellarium`: a message whose coordinates the telescope has is
noted (`InputInv`), and a status of 0 that waits to be sent is about such a message or
about none (`StatusInv`).

`NetPace`: `GapInv` relates the time since the block was sent to what is left of the
time-out (in `select`) or of the sleep; it needs `ClocksInv`, for the code looks at
`last_send` and `last_recv`, which are set to a time before the sleep. `PaceInv` does
the same for the time since the packet before the last one. `ShmBlock`: the UDP port
keeps two bridges apart (`OnePort`), and with that, unless one was stopped while
another began, all that have a block have the one under the key, and no other is
marked right (`SameSegment`, `OnlyKeyIsRight`). A bridge that has emptied its queue
knows every command in it, since it was started before (`StaleInv`).

`Precip`: `TimesInv` ties the histories (`streak`, `since_precip`) to the times that
the code compares. `MirTemp`: the age is bounded through `quiet`. `tlast` is set a
pause later than the temperature came, the silence is looked at once a round, and each
state of the loop adds its own delay (`AgeInv`); `FlagsInv` says that the child has the
segment by the time it looks, and that the flag is never there without `NET_T3`,
without which `clear_flags` would leave it.

**`FitsProofs`.** A header to be renamed has all its records or a write failed
(`RenameInv`); only the first step of another instance makes the file under the name
empty, and its second removes it, whatever it has become (`WholeHeader` is inductive
with that). The selection's loops need no test for the ends because the median of
three leaves at `low + 1` and `high` what stops them, and exchanges happen between
them (`SentinelInv`; `PartInv` bounds the indices). That it returns the median
needs no induction over its rounds: the array is always a permutation of the data
(`Rearranged`), what is before, in and behind the part is in order (`Apart`), each
loop has on its side of the pivot what it passed (`PivotInv`), and the middle is in
the part or placed (`Sorting`). Then the data less than the result are at most
half, counted by an injection into the places before the middle (`FewBelow`), and
those not greater are more (`ManyUpto`). That it returns at all: `StepsLeft` counts what
is left, first by the size of the part, then by how far the loops are apart, and each
step leaves less of it (`EndsInTime`); at first it is `12 n^2 + 6 n`, a bound for the
steps of the whole call.

For tables, `DatIInv` says that at each word the row so far is the coefficients that
the line has ahead of that word; the next coefficient, the one with the next `Rank`, is
found as a least element (`WFMin`, since the library's theorem about least naturals
takes an operator). `ReadsLeft` is the text ahead of the reader, counted twice since a
row can end where the next number does not begin: no call reads the same again
(`ReaderAdvances`), on which the loop of `wfs_read/main.c:97` depends for its end.

**`ProgramsProofs`.** The core of `check4running` is `SeenInv`: of two live processes at
most one has gone past the other in `/proc`, since a process is there to be seen
before it looks. `InsideInv` says that a process beyond the scan has gone past all
others, so that two of them are impossible; the PID file then has a single writer.
For the rotator, `PlaceInv` ties the place to the counters through the phases,
`PinInv` says that the driver was told the direction that is counted and is enabled, and `StepsInv`
that the count never passes a target, and no target is a turn away. For the P2
table, what was turned and what is left make up the way, on one side of zero
(`TurningInv`), and the client leaves its loop only when `is_running` is down, which
"Stop" takes down when nothing is left (`StoppedInv`).

The run `programs` checks a specification that is none of the modules' own.
`ProgramsTogether` closes that gap: its initial state is one of every program, and a
step of it is a step of one and a stuttering step of the eleven others (`OwnSteps`), so
that it implies every `...Spec`. `TypesAlways` and `ProgramsSafe` then follow from what
was proved of each, for all values of all constants together.

### Only model-checked

All liveness properties: `GetReturns`, `T2ComesBack`,
`SilenceClearsFlags`, `ImageCatchesUp`, `UserServed`, `StopClears`, `HdrComesBack`,
`CatchesUp` and `SelectReturnsMedian`. Fairness and `ENABLED` are out of the prover's
reach. Of two the safety part is proved: the lock that `GetReturns` waits for is
always in a live process's hands (`LockIsGivenBack`), and for `SelectReturnsMedian`
only that the function is executed is missing, the result and the number of steps are
theorems (`MedianReturned`, `SelectEndsInTime`). Every invariant and every action
property of a passing run is stated by a theorem.

No module has a `RECURSIVE` operator.

## 5. What is taken for granted

* A new process may be given the PID that a dead CAN server left in `can_pid`
  (`can_io.c:277`). `CanIoLife` models it, and `RefusedOnlyIfServed` leaves it out: the
  next server is then refused although nobody serves.
* Of a PID file, one that is missing and one that is empty are the same.
* In `SingleInstance` an id belongs to a process of the program's name or to
  none: one that another program gets does not match the name, like a free one.
* The copy of the block into a packet and out of it is one step: a block torn by
  the control system's own writes is not distinguished.
* Of a block that is not right only two kinds are told apart, a wrong size (copied
  as it is) and everything else (thrown away).
* A `GET` is at the beginning of what `recv` returns (`JsonServer`): a request that is
  split before it, or one that another follows in the same bytes, is left out.
* `mcast_tout` grows tenfold in the code each time the group is joined again, up
  to 1000 s; it is fixed here (`Tout`), since what `ImageCatchesUp` says is that the
  group is joined again at all.
* The station does not answer a request after the display has gone on to the next
  one (`ModbusMeteo`: `bus` holds one request).
* A message to Stellarium is read as a whole: a `read` that is shorter, or begins in
  the middle of one, is left out, and so is that `InpAlpha` and `InpDelta` are two words
  read one after the other (a coordinate is one value here).
* `quick_select` is given at least one datum; `rm_outliers` may leave none, see
  the findings.
* `M_time` does not step back in `Precip`. Other files take it modulo a day, so that it
  may count on or begin anew at midnight; if it does the latter, a `Precip_time` of
  the last minute of a day is never replaced (`bta_meteo_can.c:281`).
* Operators have entered no value by hand, but where a model says so
  (`accepted` in `ModbusMeteo`, `INPUT_T2` in `MeteoCan`, `ByHand` in `MirTemp`).
* A process id is not used again within the life of a guard (`MirTemp`,
  `HeaderFile`, `Stellarium`).
* A `read` of the mirror temperature's server returns within `Reply`, or never.
* The rotator makes every step it is told to while its pin is at the level that
  `setup_pins` gives it; `gotozero` finds the switch, or gives up.
* The P2 drive turns by what it was told and then says "Stop", which may not be
  read as such.
* The byte behind the end of a mapped file is zero, or not there, so that a
  number that ends with the file has no space behind it (`DatFile`).
* Numbers are abstracted to what the properties tell apart (in range or not).

## 6. Not modelled, and what could come next

Not modelled, and why:

* The CAN network gateway: its state is that of the threads of an external
  library (`sl_sock`), and what it does after a client left depends on memory that
  was given back.
* Macros of `bta_shdata.h` that name fields of the block, in ten copies of about a
  thousand lines, further copies of `bta_shdata.c`, `usefull_macros.c` and
  `parseargs.c`, constant tables and the vendored `can4linux` header: more than a
  third of all lines, and none that changes state. The map therefore covers
  less than a tenth of the lines, those that do.
* Formatting (`bta_print.c`, the JSON and HTML of the servers), reading of options,
  log files.
* Calculation with real numbers (`angle_functions.c`, Zernike polynomials,
  `rm_outliers`), which TLC and TLAPS do not do.
* Access keys and passwords of commands; `can_send_frame` beyond the echo in the
  ring; what the bridge server's queues do with a command once it is in.
* The control system itself, except as the environment of each model.

What the next steps would be, in this order:

1. What `NetPace` shows of one end and `NetBridge` of the other, as one statement:
   how old an image may be when no packet is lost.
2. Composition of `ShmBlock` with `NetBridge`: a bridge that is started anew
   between two commands.
3. A common abstract specification of the guards ("a child that died is replaced,
   one at a time") that `MirTemp`, `HeaderFile`, `ModbusMeteo` and `Stellarium`
   implement.
4. Wrap-around of angles in integers (seconds of arc) for
   `Stellarium_control/angle_functions.c`.
