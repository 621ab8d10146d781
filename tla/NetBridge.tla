------------------------------ MODULE NetBridge ------------------------------
(***************************************************************************)
(* The UDP bridge to the telescope's control system (bta_control_net.c).   *)
(* The program runs on both sides.  On the control system's machine it     *)
(* sends the block of shared memory to everyone ("mcast") or to whom it    *)
(* gets a packet from ("remote").  On another machine, started with the    *)
(* control system's name, it keeps an image of the block and passes on the *)
(* commands of three message queues.                                       *)
(*                                                                         *)
(* One pass of the client's loop is ClientRecv or ClientTimeout, then Poll *)
(* after Poll until one finds a command, or Cleanup.  A pass of the        *)
(* server's loop is ServerRecv or ServerTimeout.                           *)
(***************************************************************************)
EXTENDS SequencesExt

CONSTANTS
  Room,     \* bound: how many commands each queue holds, 0 if not used
  NMax,     \* bound: packets under way in each direction
  MaxData,  \* bound: the control system writes its block this often
  NSync,    \* passes without data before a sync packet is sent
  Tout,     \* so many before the multicast group is joined again
  MaxFlaps  \* bound: times the membership gets lost

Queues == {"mcmd", "ocmd", "ucmd"}
Commands == {"StopTel", "other"}

(* What is told apart by the program in each of them.                      *)
Types(q) == IF q = "ucmd" THEN {"other"} ELSE Commands

ASSUME BoundsAssumption ==
  /\ Room \in [Queues -> Nat]
  /\ {NMax, MaxData} \subseteq Nat \ {0} /\ NSync \in Nat /\ NSync >= 2
  /\ {Tout, MaxFlaps} \subseteq Nat

Garbage == MaxData + 1   \* a damaged block
Misfit == MaxData + 2    \* one with a size field that is damaged

VARIABLES
  mode,      \* the server's argument: "mcast" or "remote"
  sync,      \* whether the client has the argument "sync"
  queue,     \* the client's message queues
  image,     \* its shared memory: a block of the server, 0 at first
  newest,    \* history: the newest block of the server it has been
  pc,        \* where it is
  turn,      \* which of the Polls is next
  syncnt,    \* passes without data, modulo NSync
  mcast_t,   \* passes without any packet
  member,    \* the kernel has it in the multicast group
  flaps,     \* how often the kernel has lost it
  up,        \* number of packets under way to the server
  down,      \* packets under way to the client
  data,      \* the server's shared memory, numbered
  ahead      \* history: packets sent ahead of a StopTel in mcmd

client == <<image, newest, pc, turn, syncnt>>
group == <<mcast_t, member, flaps>>
network == <<up, down>>
vars == <<mode, sync, queue, client, group, network, data, ahead>>

Init ==
  /\ mode \in {"mcast", "remote"} /\ sync \in BOOLEAN
  /\ queue = [q \in Queues |-> <<>>]
  /\ image = 0 /\ newest = 0 /\ pc = "select" /\ turn = 1 /\ syncnt = 0
  /\ mcast_t = 0 /\ member = TRUE /\ flaps = 0
  /\ up = 0 /\ down = <<>> /\ data = 1 /\ ahead = 0

-----------------------------------------------------------------------------
(* The client.                                                             *)

(* Its key, version and sum are checked, in this order.  When its size is  *)
(* not the expected one the sum is not looked at, and it is taken.         *)
Suspicious(block) == block = Garbage
Newer(block) == IF block = Misfit THEN newest ELSE block

(* Mutant: the block is copied whether its sum is right or not.            *)
ClientRecvUnchecked ==
  /\ pc = "select" /\ down # <<>>
  /\ down' = Tail(down)
  /\ image' = Head(down) /\ newest' = Newer(Head(down))
  /\ pc' = IF Suspicious(Head(down)) THEN "cleanup" ELSE "poll"
  /\ syncnt' = IF sync /\ pc' = "poll" THEN 1 ELSE syncnt
  /\ mcast_t' = 0
  /\ UNCHANGED <<mode, sync, queue, turn, member, flaps, up, data, ahead>>

(* A block arrives, and is copied or not.                                  *)
ClientRecv ==
  /\ pc = "select" /\ down # <<>>
  /\ down' = Tail(down)
  /\ IF Suspicious(Head(down))
     THEN pc' = "cleanup" /\ UNCHANGED <<image, newest, syncnt>>
     ELSE /\ pc' = "poll"
          /\ image' = Head(down) /\ newest' = Newer(Head(down))
          /\ syncnt' = IF sync THEN 1 ELSE syncnt
  /\ mcast_t' = 0
  /\ UNCHANGED <<mode, sync, queue, turn, member, flaps, up, data, ahead>>

(* Mutant: the time since the last packet is not looked at.                *)
ClientTimeoutStaysOut ==
  /\ pc = "select" /\ pc' = "poll"
  /\ syncnt' = IF sync THEN (syncnt + 1) % NSync ELSE syncnt
  /\ UNCHANGED <<mode, sync, queue, image, newest, turn, group, network, data,
                 ahead>>

(* Nothing arrives for a while.  "2.4.x kernel iface down/up problem?":    *)
(* the multicast group is left and joined again, after 10 s, then 100 s,   *)
(* then 1000 s; here always after Tout.                                    *)
ClientTimeout ==
  LET rejoin == mcast_t + 1 > Tout
  IN
  /\ pc = "select" /\ pc' = "poll"
  /\ mcast_t' = IF rejoin THEN 0 ELSE mcast_t + 1
  /\ member' = (member \/ rejoin)
  /\ syncnt' = IF sync THEN (syncnt + 1) % NSync ELSE syncnt
  /\ UNCHANGED <<mode, sync, queue, image, newest, turn, flaps, network, data,
                 ahead>>

(* Mutants: the operators' queues are swapped; user interfaces can only    *)
(* stop the telescope.                                                     *)
PollsSwapped == << <<"ocmd", {"StopTel"}>>, <<"ocmd", Commands>>,
                   <<"mcmd", {"StopTel"}>>, <<"mcmd", Commands>>,
                   <<"ucmd", Commands>> >>
PollsNoUser == << <<"mcmd", {"StopTel"}>>, <<"mcmd", Commands>>,
                  <<"ocmd", {"StopTel"}>>, <<"ocmd", Commands>>,
                  <<"ucmd", {"StopTel"}>> >>

(* The order in which the queues are read, and for what.                   *)
Polls == << <<"mcmd", {"StopTel"}>>, <<"mcmd", Commands>>,
            <<"ocmd", {"StopTel"}>>, <<"ocmd", Commands>>,
            <<"ucmd", Commands>> >>

(* msgrcv takes the first command of the types asked for.                  *)
Matches(q, types) == {i \in DOMAIN queue[q] : queue[q][i] \in types}
StopWaits(s) == Contains(s, "StopTel")

(* A packet gets through or not.                                           *)
Transmit(through) == up' = IF through THEN up + 1 ELSE up

DonePolling == pc = "poll" /\ pc' = "select" /\ turn' = 1

(* A poll finds a command, which is sent.                                  *)
SendCommand(through) ==
  /\ DonePolling
  /\ through => up < NMax
  /\ LET q == Polls[turn][1]
         found == Matches(q, Polls[turn][2])
     IN \E i \in found :
          /\ \A j \in found : i <= j
          /\ queue' = [queue EXCEPT ![q] = RemoveAt(@, i)]
          /\ ahead' = IF /\ StopWaits(queue["mcmd"])
                         /\ q = "mcmd" => queue[q][i] # "StopTel"
                      THEN ahead + 1 ELSE 0
  /\ Transmit(through)
  /\ UNCHANGED <<mode, sync, image, newest, syncnt, group, down, data>>

NoCommand == Matches(Polls[turn][1], Polls[turn][2]) = {}

PollNext ==
  /\ pc = "poll" /\ NoCommand /\ turn < Len(Polls)
  /\ turn' = turn + 1
  /\ UNCHANGED <<mode, sync, queue, image, newest, pc, syncnt, group, network,
                 data, ahead>>

NoCommands == DonePolling /\ NoCommand /\ turn = Len(Polls)

(* No commands at all: now and then a sync packet, to be sent data.        *)
SendSync(through) ==
  /\ NoCommands /\ sync /\ syncnt = 0
  /\ through => up < NMax
  /\ Transmit(through)
  /\ UNCHANGED <<mode, sync, queue, image, newest, syncnt, group, down, data,
                 ahead>>

NothingToSend ==
  /\ NoCommands /\ ~(sync /\ syncnt = 0)
  /\ UNCHANGED <<mode, sync, queue, image, newest, syncnt, group, network,
                 data, ahead>>

(* "Suspicious server! Cmd-queues Cleanup...": one of each is dropped,     *)
(* be it a StopTel.                                                        *)
Cleanup ==
  /\ pc = "cleanup" /\ pc' = "select"
  /\ queue' = [q \in Queues |->
                 IF queue[q] = <<>> THEN <<>> ELSE Tail(queue[q])]
  /\ ahead' = IF StopWaits(queue'["mcmd"]) THEN ahead ELSE 0
  /\ UNCHANGED <<mode, sync, image, newest, turn, syncnt, group, network,
                 data>>

-----------------------------------------------------------------------------
(* The server.  A block it sends gets lost, damaged in its size or         *)
(* elsewhere, or through.                                                  *)
Fates == {"lost", "damaged", "resized", "whole"}

Block(fate) ==
  /\ fate # "lost" => Len(down) < NMax
  /\ down' = CASE fate = "lost" -> down
               [] fate = "damaged" -> Append(down, Garbage)
               [] fate = "resized" -> Append(down, Misfit)
               [] fate = "whole" -> Append(down, data)

(* A command or sync packet is answered with the block.                    *)
ServerReply(fate) ==
  /\ up > 0 /\ up' = up - 1
  /\ Block(fate)
  /\ UNCHANGED <<mode, sync, queue, client, group, data, ahead>>

(* The block is sent to everyone: a time-out, or a packet when it is time. *)
ServerBroadcast(fate) ==
  /\ mode = "mcast"
  /\ up' \in {up} \cup {n \in 0 .. NMax : n + 1 = up}
  /\ Block(IF member THEN fate ELSE "lost")
  /\ UNCHANGED <<mode, sync, queue, client, group, data, ahead>>

(* The control system writes its block.                                    *)
WriteData ==
  /\ data < MaxData /\ data' = data + 1
  /\ UNCHANGED <<mode, sync, queue, client, group, network, ahead>>

(* The client's interface goes down and up again.                          *)
LoseMembership ==
  /\ mode = "mcast" /\ member /\ member' = FALSE
  /\ flaps < MaxFlaps /\ flaps' = flaps + 1
  /\ UNCHANGED <<mode, sync, queue, client, mcast_t, network, data, ahead>>

(* Operators and users give commands.                                      *)
Give(q, c) ==
  /\ Len(queue[q]) < Room[q]
  /\ queue' = [queue EXCEPT ![q] = Append(@, c)]
  /\ UNCHANGED <<mode, sync, client, group, network, data, ahead>>

-----------------------------------------------------------------------------
Send(through) == SendCommand(through) \/ SendSync(through)

ClientStep ==
  \/ ClientRecv \/ ClientTimeout \/ PollNext \/ NothingToSend \/ Cleanup
  \/ \E through \in BOOLEAN : Send(through)

Next ==
  \/ ClientStep
  \/ \E fate \in Fates : ServerReply(fate) \/ ServerBroadcast(fate)
  \/ WriteData \/ LoseMembership
  \/ \E q \in Queues : \E c \in Types(q) : Give(q, c)

Spec == Init /\ [][Next]_vars

(* The client runs, and reads what has arrived; the network does not lose  *)
(* everything of a kind: commands, blocks sent to everyone while the       *)
(* client is in the group, blocks sent to it alone; the server sends its   *)
(* block again and again (NetPace), and in mode "remote" answers.  In mode *)
(* "mcast" it need not: a packet may always come when a block is due to    *)
(* everyone.                                                               *)
Fairness ==
  /\ WF_vars(ClientStep) /\ SF_vars(ClientRecv)
  /\ SF_vars(Send(TRUE))
  /\ SF_vars(member /\ ServerBroadcast("whole"))
  /\ SF_vars(mode = "remote" /\ ServerReply("whole"))
  /\ \/ <>[][\A fate \in Fates : ~ServerReply(fate)]_vars
     \/ []<><<ServerReply("whole")>>_vars

FairSpec == Spec /\ Fairness

-----------------------------------------------------------------------------
(* Properties.                                                             *)

TypeOK ==
  /\ mode \in {"mcast", "remote"} /\ sync \in BOOLEAN
  /\ \A q \in Queues :
       queue[q] \in Seq(Types(q)) /\ Len(queue[q]) <= Room[q]
  /\ image \in 0 .. Misfit /\ newest \in 0 .. MaxData
  /\ pc \in {"select", "poll", "cleanup"}
  /\ turn \in DOMAIN Polls /\ syncnt \in 0 .. NSync - 1
  /\ up \in 0 .. NMax /\ down \in Seq(1 .. Misfit) /\ Len(down) <= NMax
  /\ mcast_t \in 0 .. Tout
  /\ member \in BOOLEAN /\ flaps \in 0 .. MaxFlaps
  /\ data \in 1 .. MaxData /\ ahead \in Nat

(* The main operator's StopTel waits for one other command at most, the    *)
(* one of a pass that had already looked for it ("first of all STOP",      *)
(* bta_control_net.c:405), however busy the queues are.                    *)
StopOvertakes == ahead <= 1

(* What gets into the image is a block of the server that is whole and not *)
(* older than any that was in it before, or one with a wrong size, of      *)
(* which no sum is checked: damage of any other kind never gets there.     *)
ImageSound ==
  [][image' # image => image' \in newest .. data \/ image' = Misfit]_vars

(* A block that stays as it is arrives in the end, and again after every   *)
(* one with a wrong size, and no other comes: in mode "mcast" even if the  *)
(* membership gets lost and damaged answers put off joining again, in mode *)
(* "remote" thanks to sync packets.                                        *)
ImageCatchesUp ==
  mode = "mcast" \/ sync =>
    \A v \in 1 .. MaxData :
      <>[](data = v) => []<>(image = v) /\ <>[](image \in {v, Misfit})

(* A user's command is taken when the operators give no more.              *)
UserServed ==
  <>[](queue["mcmd"] = <<>> /\ queue["ocmd"] = <<>>)
    => []<>(queue["ucmd"] = <<>>)
=============================================================================
