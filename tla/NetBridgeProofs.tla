-------------------------- MODULE NetBridgeProofs ---------------------------
(***************************************************************************)
(* Proofs about the commands and the blocks of the UDP bridge, for queues  *)
(* of any room and any number of blocks and packets under way.             *)
(***************************************************************************)
EXTENDS NetBridge, SequenceTheorems, TLAPS

-----------------------------------------------------------------------------
(* The inductive invariants.                                               *)

(* For StopOvertakes: a packet sent ahead of a StopTel ends a pass; the    *)
(* first poll of the next one, in "mcmd", finds that StopTel, which is     *)
(* still there.                                                            *)
QueueInv == queue \in [Queues -> Seq(Commands)]
PassInv == turn \in DOMAIN Polls /\ (pc # "poll" => turn = 1)
AheadInv ==
  /\ ahead \in {0, 1}
  /\ ahead = 1 => turn = 1 /\ StopWaits(queue["mcmd"])
IInv == QueueInv /\ PassInv /\ AheadInv

(* For ImageSound: the whole blocks under way were sent in order, each of  *)
(* them no older than any that was in the image and no newer than the      *)
(* server's own.                                                           *)
Whole(i) == down[i] \notin {Garbage, Misfit}
BlocksInv ==
  /\ data \in 1 .. MaxData /\ newest \in 0 .. data /\ down \in Seq(Nat)
  /\ \A i \in 1 .. Len(down) : Whole(i) => down[i] \in newest .. data
  /\ \A i, j \in 1 .. Len(down) :
       i <= j /\ Whole(i) /\ Whole(j) => down[i] <= down[j]

SoundStep == image' # image => image' \in newest .. data \/ image' = Misfit

(* A StopTel stays in a queue to which a command is appended.              *)
LEMMA AppendKeeps ==
  ASSUME NEW s \in Seq(Commands), NEW c \in Commands, StopWaits(s)
  PROVE  StopWaits(Append(s, c))
<1>1. PICK i \in 1 .. Len(s) : s[i] = "StopTel"
  BY DEF StopWaits, Contains
<1>2. /\ Len(Append(s, c)) = Len(s) + 1
      /\ Append(s, c)[i] = s[i]
  BY <1>1, AppendProperties
<1>3. i \in 1 .. Len(Append(s, c))
  BY <1>2
<1> QED  BY <1>1, <1>2, <1>3 DEF StopWaits, Contains

(* What RemoveAt (SequencesExt) gives: the queue without one command.      *)
LEMMA Removed ==
  ASSUME NEW s \in Seq(Commands), NEW i \in 1 .. Len(s)
  PROVE  /\ RemoveAt(s, i) \in Seq(Commands)
         /\ Len(RemoveAt(s, i)) = Len(s) - 1
         /\ \A j \in 1 .. Len(s) - 1 :
              RemoveAt(s, i)[j] = IF j < i THEN s[j] ELSE s[j + 1]
<1> DEFINE a == SubSeq(s, 1, i - 1)
           b == SubSeq(s, i + 1, Len(s))
<1>1. Len(s) \in Nat /\ i \in Nat /\ i >= 1 /\ i <= Len(s)
  OBVIOUS
<1>2. /\ a \in Seq(Commands) /\ Len(a) = i - 1
      /\ \A j \in 1 .. i - 1 : a[j] = s[j]
  BY <1>1
<1>3. /\ b \in Seq(Commands) /\ Len(b) = Len(s) - i
      /\ \A j \in 1 .. Len(s) - i : b[j] = s[i + j]
  BY <1>1
<1>4. RemoveAt(s, i) = a \o b
  BY DEF RemoveAt
<1> HIDE DEF a, b
<1>5. /\ a \o b \in Seq(Commands) /\ Len(a \o b) = Len(s) - 1
      /\ \A j \in 1 .. Len(s) - 1 :
           (a \o b)[j] = IF j <= i - 1 THEN a[j] ELSE b[j - (i - 1)]
  <2>1. Len(a) + Len(b) = Len(s) - 1 /\ Len(a) = i - 1
    BY <1>1, <1>2, <1>3
  <2>2. /\ a \o b \in Seq(Commands) /\ Len(a \o b) = Len(a) + Len(b)
        /\ \A j \in 1 .. Len(a) + Len(b) :
             (a \o b)[j] = IF j <= Len(a) THEN a[j] ELSE b[j - Len(a)]
    BY <1>2, <1>3, ConcatProperties
  <2> QED  BY ONLY <2>1, <2>2
<1>6. ASSUME NEW j \in 1 .. Len(s) - 1
      PROVE  (a \o b)[j] = IF j < i THEN s[j] ELSE s[j + 1]
  <2>0. j \in Nat /\ (j < i \/ j >= i)
    BY <1>1
  <2>1. CASE j < i
    <3>1. j \in 1 .. i - 1
      BY <1>1, <2>1
    <3>2. (a \o b)[j] = a[j]
      BY <1>1, <1>5, <2>1
    <3> QED  BY <1>2, <2>1, <3>1, <3>2
  <2>2. CASE j >= i
    <3>1. j - (i - 1) \in 1 .. Len(s) - i /\ i + (j - (i - 1)) = j + 1
      BY <1>1, <2>2
    <3>2. (a \o b)[j] = b[j - (i - 1)]
      BY <1>1, <1>5, <2>2
    <3>3. b[j - (i - 1)] = s[i + (j - (i - 1))]
      BY <1>3, <3>1
    <3> QED  BY <1>1, <2>2, <3>1, <3>2, <3>3
  <2> QED  BY <2>0, <2>1, <2>2
<1> QED  BY <1>4, <1>5, <1>6

(* A StopTel stays when another command is taken.                          *)
LEMMA RemoveKeeps ==
  ASSUME NEW s \in Seq(Commands), NEW i \in 1 .. Len(s), s[i] # "StopTel",
         StopWaits(s)
  PROVE  StopWaits(RemoveAt(s, i))
<1>1. PICK k \in 1 .. Len(s) : s[k] = "StopTel"
  BY DEF StopWaits, Contains
<1>2. CASE k < i
  <2>1. k \in 1 .. Len(s) - 1
    BY <1>2
  <2> QED  BY <1>1, <1>2, <2>1, Removed DEF StopWaits, Contains
<1>3. CASE k > i
  <2>1. k - 1 \in 1 .. Len(s) - 1 /\ ~(k - 1 < i) /\ (k - 1) + 1 = k
    BY <1>3
  <2>2. RemoveAt(s, i)[k - 1] = s[k]
    BY <2>1, Removed
  <2> QED  BY <1>1, <2>1, <2>2, Removed DEF StopWaits, Contains
<1> QED  BY <1>1, <1>2, <1>3

-----------------------------------------------------------------------------
LEMMA Initially == Init => IInv
<1> SUFFICES ASSUME Init PROVE IInv
  OBVIOUS
<1>1. QueueInv
  BY EmptySeq DEF Init, QueueInv
<1>2. PassInv /\ AheadInv
  BY DEF Init, PassInv, AheadInv, Polls
<1> QED  BY <1>1, <1>2 DEF IInv

(* A command is sent.  It is ahead of a StopTel only if this is not the    *)
(* first poll, and then no packet was ahead of it before.                  *)
LEMMA Sending ==
  ASSUME IInv, NEW through \in BOOLEAN, SendCommand(through)
  PROVE  IInv'
<1> DEFINE q == Polls[turn][1]
           found == Matches(q, Polls[turn][2])
<1>1. PICK i \in found :
        /\ queue' = [queue EXCEPT ![q] = RemoveAt(@, i)]
        /\ ahead' = IF /\ StopWaits(queue["mcmd"])
                       /\ q = "mcmd" => queue[q][i] # "StopTel"
                    THEN ahead + 1 ELSE 0
  BY DEF SendCommand
<1>2. /\ queue \in [Queues -> Seq(Commands)] /\ turn \in 1 .. 5
      /\ ahead \in {0, 1}
      /\ ahead = 1 => turn = 1 /\ StopWaits(queue["mcmd"])
  BY DEF IInv, QueueInv, PassInv, AheadInv, Polls
<1>3. q \in Queues /\ (turn = 1 => q = "mcmd")
  BY <1>2 DEF Polls, Queues
<1>4. i \in 1 .. Len(queue[q]) /\ (turn = 1 => queue[q][i] = "StopTel")
  <2>1. queue[q] \in Seq(Commands)
    BY <1>2, <1>3
  <2>2. i \in DOMAIN queue[q] /\ queue[q][i] \in Polls[turn][2]
    BY DEF Matches
  <2>3. turn = 1 => Polls[turn][2] = {"StopTel"}
    BY DEF Polls
  <2> QED  BY <2>1, <2>2, <2>3
<1> HIDE DEF q, found
<1>5. queue' \in [Queues -> Seq(Commands)]
  BY <1>1, <1>2, <1>3, <1>4, Removed
<1>6. turn' = 1 /\ pc' = "select"
  BY DEF SendCommand, DonePolling
<1>7. AheadInv'
  <2>1. CASE ~ StopWaits(queue["mcmd"])
    BY <1>1, <2>1 DEF AheadInv
  <2>2. CASE q = "mcmd" /\ queue[q][i] = "StopTel"
    BY <1>1, <2>2 DEF AheadInv
  <2>3. CASE StopWaits(queue["mcmd"]) /\ q = "mcmd"
             /\ queue[q][i] # "StopTel"
    <3>1. ahead = 0 /\ ahead' = 1
      BY <1>1, <1>2, <1>4, <2>3
    <3>2. queue'["mcmd"] = RemoveAt(queue["mcmd"], i)
      BY <1>1, <1>2, <1>3, <2>3
    <3>3. queue["mcmd"] \in Seq(Commands)
      BY <1>2, <1>3, <2>3
    <3>4. StopWaits(RemoveAt(queue["mcmd"], i))
      BY <1>4, <2>3, <3>3, RemoveKeeps
    <3>5. StopWaits(queue["mcmd"])'
      BY <3>2, <3>4
    <3> QED  BY <1>6, <3>1, <3>5 DEF AheadInv
  <2>4. CASE StopWaits(queue["mcmd"]) /\ q # "mcmd"
    <3>1. ahead = 0 /\ ahead' = 1
      BY <1>1, <1>2, <1>3, <2>4
    <3>2. queue'["mcmd"] = queue["mcmd"]
      BY <1>1, <1>2, <2>4 DEF Queues
    <3> QED  BY <1>6, <2>4, <3>1, <3>2 DEF AheadInv
  <2> QED  BY <2>1, <2>2, <2>3, <2>4
<1> QED  BY <1>5, <1>6, <1>7 DEF IInv, QueueInv, PassInv, Polls

(* Each of the queues loses its first command, or is empty.  A StopTel     *)
(* that was not the first one waits on.                                    *)
LEMMA Dropping ==
  ASSUME IInv, Cleanup
  PROVE  IInv'
<1>1. QueueInv'
  <2>1. ASSUME NEW q \in Queues
        PROVE  (IF queue[q] = <<>> THEN <<>> ELSE Tail(queue[q]))
                 \in Seq(Commands)
    <3>1. queue[q] \in Seq(Commands)
      BY DEF IInv, QueueInv
    <3> QED  BY <3>1, EmptySeq, HeadTailProperties
  <2> QED  BY <2>1 DEF Cleanup, QueueInv
<1>2. turn = 1 /\ UNCHANGED turn /\ pc' = "select" /\ ahead \in {0, 1}
  BY DEF Cleanup, IInv, PassInv, AheadInv
<1>3. ahead' = IF StopWaits(queue["mcmd"])' THEN ahead ELSE 0
  BY DEF Cleanup, StopWaits
<1>4. AheadInv' /\ PassInv'
  BY <1>2, <1>3 DEF AheadInv, PassInv, Polls
<1> QED  BY <1>1, <1>4 DEF IInv

(* A command is given: the StopTel that waits still does.                  *)
LEMMA Giving ==
  ASSUME IInv, NEW q \in Queues, NEW c \in Types(q), Give(q, c)
  PROVE  IInv'
<1>1. c \in Commands
  BY DEF Types, Commands
<1>2. /\ queue \in [Queues -> Seq(Commands)]
      /\ queue' = [queue EXCEPT ![q] = Append(@, c)]
      /\ UNCHANGED <<turn, pc, ahead>>
  BY DEF IInv, QueueInv, Give, client
<1>3. queue' \in [Queues -> Seq(Commands)]
  BY <1>1, <1>2, AppendProperties
<1>4. ASSUME StopWaits(queue["mcmd"]) PROVE StopWaits(queue["mcmd"])'
  <2>1. CASE q = "mcmd"
    <3>1. queue["mcmd"] \in Seq(Commands)
      BY <1>2, <2>1
    <3>2. queue'["mcmd"] = Append(queue["mcmd"], c)
      BY <1>2, <2>1
    <3> QED  BY <1>1, <1>4, <3>1, <3>2, AppendKeeps
  <2>2. CASE q # "mcmd"
    BY <1>2, <1>4, <2>2 DEF Queues
  <2> QED  BY <2>1, <2>2
<1> QED  BY <1>2, <1>3, <1>4 DEF IInv, QueueInv, PassInv, AheadInv

(* The first poll that finds nothing tells that no StopTel waits.          *)
LEMMA Polling == IInv /\ PollNext => IInv'
<1> SUFFICES ASSUME IInv, PollNext PROVE IInv'
  OBVIOUS
<1>1. ASSUME ahead = 1 PROVE FALSE
  <2>1. turn = 1 /\ StopWaits(queue["mcmd"])
    BY <1>1 DEF IInv, AheadInv
  <2>2. PICK i \in 1 .. Len(queue["mcmd"]) : queue["mcmd"][i] = "StopTel"
    BY <2>1 DEF StopWaits, Contains
  <2>3. queue["mcmd"] \in Seq(Commands)
    BY DEF IInv, QueueInv, Queues
  <2>4. i \in Matches("mcmd", {"StopTel"})
    BY <2>2, <2>3 DEF Matches
  <2> QED  BY <2>1, <2>4 DEF PollNext, NoCommand, Polls
<1>2. turn' \in DOMAIN Polls
  BY DEF IInv, PassInv, PollNext, Polls
<1> QED  BY <1>1, <1>2 DEF IInv, QueueInv, PassInv, AheadInv, PollNext

(* All that leaves the queues alone and does not go on polling.            *)
LEMMA Others ==
  ASSUME IInv, UNCHANGED <<queue, ahead>>,
         UNCHANGED turn \/ turn' = 1,
         UNCHANGED <<pc, turn>> \/ turn' = 1
  PROVE  IInv'
BY DEF IInv, QueueInv, PassInv, AheadInv, Polls

LEMMA Inductive == IInv /\ [Next]_vars => IInv'
<1> SUFFICES ASSUME IInv, [Next]_vars PROVE IInv'
  OBVIOUS
<1>0. turn = 1 \/ pc = "poll"
  BY DEF IInv, PassInv
<1>1. CASE ClientRecv
  BY <1>0, <1>1, Others DEF ClientRecv
<1>2. CASE ClientTimeout
  BY <1>0, <1>2, Others DEF ClientTimeout
<1>3. CASE PollNext
  BY <1>3, Polling
<1>4. CASE NothingToSend
  BY <1>4, Others DEF NothingToSend, NoCommands, DonePolling
<1>5. CASE Cleanup
  BY <1>5, Dropping
<1>6. ASSUME NEW through \in BOOLEAN, Send(through) PROVE IInv'
  <2>1. CASE SendCommand(through)
    BY <2>1, Sending
  <2>2. CASE SendSync(through)
    BY <2>2, Others DEF SendSync, NoCommands, DonePolling
  <2> QED  BY <1>6, <2>1, <2>2 DEF Send
<1>7. ASSUME NEW fate \in Fates,
             ServerReply(fate) \/ ServerBroadcast(fate)
      PROVE  IInv'
  BY <1>7, Others DEF ServerReply, ServerBroadcast, client
<1>8. CASE WriteData \/ LoseMembership
  BY <1>8, Others DEF WriteData, LoseMembership, client
<1>9. ASSUME NEW q \in Queues, NEW c \in Types(q), Give(q, c) PROVE IInv'
  BY <1>9, Giving
<1>10. CASE UNCHANGED vars
  BY <1>10, Others DEF vars, client
<1> QED
  BY <1>1, <1>2, <1>3, <1>4, <1>5, <1>6, <1>7, <1>8, <1>9, <1>10
  DEF Next, ClientStep

(* The main operator's StopTel never waits for more than one other packet, *)
(* for queues of any room (bta_control_net.c:405).                         *)
THEOREM StopIsSoon == Spec => []StopOvertakes
<1>1. IInv => StopOvertakes
  BY DEF IInv, AheadInv, StopOvertakes
<1> QED  BY <1>1, Initially, Inductive, PTL DEF Spec

-----------------------------------------------------------------------------
(* The image.                                                              *)

LEMMA BlocksAtFirst == Init => BlocksInv
<1> SUFFICES ASSUME Init PROVE BlocksInv
  OBVIOUS
<1>1. down = <<>> /\ newest = 0 /\ data = 1
  BY DEF Init
<1>2. down \in Seq(Nat) /\ Len(down) = 0
  BY <1>1, EmptySeq
<1> QED  BY <1>1, <1>2, BoundsAssumption DEF BlocksInv

(* The client takes the block that was sent first.                         *)
LEMMA Receiving ==
  ASSUME BlocksInv, ClientRecv
  PROVE  BlocksInv' /\ SoundStep
<1>1. /\ down \in Seq(Nat) /\ down # <<>> /\ down' = Tail(down)
      /\ UNCHANGED data
  BY DEF BlocksInv, ClientRecv
<1>2. /\ Tail(down) \in Seq(Nat) /\ Len(Tail(down)) = Len(down) - 1
      /\ \A i \in 1 .. Len(Tail(down)) : Tail(down)[i] = down[i + 1]
      /\ Head(down) = down[1] /\ Len(down) \in Nat \ {0}
  BY <1>1, HeadTailProperties, EmptySeq
<1>3. data \in Nat /\ newest \in 0 .. data /\ 1 \in 1 .. Len(down)
  BY <1>2, BoundsAssumption DEF BlocksInv
<1>4. \/ Head(down) = Garbage /\ newest' = newest /\ image' = image
      \/ Head(down) = Misfit /\ newest' = newest /\ image' = Misfit
      \/ Whole(1) /\ newest' = down[1] /\ image' = down[1]
  BY <1>2 DEF ClientRecv, Suspicious, Newer, Whole
<1>5. newest' \in newest .. data /\ SoundStep
  BY <1>3, <1>4 DEF BlocksInv, SoundStep
<1>6. ASSUME NEW i \in 1 .. Len(down'), Whole(i)'
      PROVE  down'[i] \in newest' .. data'
  <2>1. i + 1 \in 1 .. Len(down) /\ 1 <= i + 1
    BY <1>1, <1>2
  <2>2. down'[i] = down[i + 1] /\ Whole(i + 1)
    BY <1>1, <1>2, <1>6 DEF Whole, Garbage, Misfit
  <2>3. down[i + 1] \in newest .. data
    BY <2>1, <2>2 DEF BlocksInv
  <2>4. CASE newest' = newest
    BY <1>1, <2>2, <2>3, <2>4
  <2>5. CASE Whole(1) /\ newest' = down[1]
    <3>1. down[1] <= down[i + 1]
      BY <1>3, <2>1, <2>2, <2>5 DEF BlocksInv
    <3> QED  BY <1>1, <1>3, <1>5, <2>2, <2>3, <2>5, <3>1
  <2> QED  BY <1>4, <2>4, <2>5
<1>7. ASSUME NEW i \in 1 .. Len(down'), NEW j \in 1 .. Len(down'),
             i <= j, Whole(i)', Whole(j)'
      PROVE  down'[i] <= down'[j]
  <2>1. /\ i + 1 \in 1 .. Len(down) /\ j + 1 \in 1 .. Len(down)
        /\ i + 1 <= j + 1
    BY <1>1, <1>2, <1>7
  <2>2. /\ down'[i] = down[i + 1] /\ Whole(i + 1)
        /\ down'[j] = down[j + 1] /\ Whole(j + 1)
    BY <1>1, <1>2, <1>7 DEF Whole, Garbage, Misfit
  <2> QED  BY <2>1, <2>2 DEF BlocksInv
<1>8. data' \in 1 .. MaxData /\ newest' \in 0 .. data' /\ down' \in Seq(Nat)
  BY <1>1, <1>2, <1>3, <1>5 DEF BlocksInv
<1> QED  BY <1>5, <1>6, <1>7, <1>8 DEF BlocksInv

(* The server sends its block as it is, or it gets damaged or lost.        *)
LEMMA Serving ==
  ASSUME BlocksInv, NEW fate \in Fates, Block(fate),
         UNCHANGED <<image, newest, data>>
  PROVE  BlocksInv'
<1>0. /\ down \in Seq(Nat) /\ data \in Nat /\ newest \in 0 .. data
      /\ data \notin {Garbage, Misfit} /\ {Garbage, Misfit} \subseteq Nat
  BY BoundsAssumption DEF BlocksInv, Garbage, Misfit
<1>1. CASE fate = "lost"
  BY <1>1 DEF Block, BlocksInv, Whole, Garbage, Misfit
<1>2. CASE fate \in {"damaged", "resized", "whole"}
  <2>1. PICK b \in {Garbage, Misfit, data} : down' = Append(down, b)
    BY <1>2 DEF Block
  <2>2. /\ down' \in Seq(Nat) /\ Len(down') = Len(down) + 1
        /\ \A i \in 1 .. Len(down) : down'[i] = down[i]
        /\ down'[Len(down) + 1] = b /\ Len(down) \in Nat
    BY <1>0, <2>1, AppendProperties
  <2>3. ASSUME NEW i \in 1 .. Len(down'), Whole(i)'
        PROVE  down'[i] \in newest .. data
    <3>1. CASE i \in 1 .. Len(down)
      BY <2>2, <2>3, <3>1 DEF BlocksInv, Whole, Garbage, Misfit
    <3>2. CASE i = Len(down) + 1
      BY <1>0, <2>1, <2>2, <2>3, <3>2 DEF Whole, Garbage, Misfit
    <3> QED  BY <2>2, <3>1, <3>2
  <2>4. ASSUME NEW i \in 1 .. Len(down'), NEW j \in 1 .. Len(down'),
               i <= j, Whole(i)', Whole(j)'
        PROVE  down'[i] <= down'[j]
    <3>1. CASE j \in 1 .. Len(down)
      <4>1. i \in 1 .. Len(down)
        BY <2>2, <2>4, <3>1
      <4>2. down'[i] = down[i] /\ down'[j] = down[j]
        BY <2>2, <3>1, <4>1
      <4>3. Whole(i) /\ Whole(j)
        BY <2>4, <4>2 DEF Whole, Garbage, Misfit
      <4> QED  BY <2>4, <3>1, <4>1, <4>2, <4>3 DEF BlocksInv
    <3>2. CASE j = Len(down) + 1
      <4>1. down'[j] = data
        BY <2>1, <2>2, <2>4, <3>2 DEF Whole, Garbage, Misfit
      <4> QED  BY <1>0, <2>3, <2>4, <4>1
    <3> QED  BY <2>2, <3>1, <3>2
  <2> QED  BY <2>2, <2>3, <2>4 DEF BlocksInv
<1> QED  BY <1>1, <1>2 DEF Fates

LEMMA BlocksInductive ==
  BlocksInv /\ [Next]_vars => BlocksInv' /\ SoundStep
<1> SUFFICES ASSUME BlocksInv, [Next]_vars
             PROVE  BlocksInv' /\ SoundStep
  OBVIOUS
<1>0. data \in Nat /\ newest \in 0 .. data
  BY BoundsAssumption DEF BlocksInv
<1>1. CASE ClientRecv
  BY <1>1, Receiving
<1>2. ASSUME NEW fate \in Fates,
             ServerReply(fate) \/ ServerBroadcast(fate)
      PROVE  BlocksInv' /\ SoundStep
  <2>1. /\ Block(fate) \/ Block("lost")
        /\ UNCHANGED <<image, newest, data>>
    BY <1>2 DEF ServerReply, ServerBroadcast, client
  <2> QED  BY <1>0, <2>1, Serving DEF Fates, SoundStep
<1>3. CASE WriteData
  <2>1. /\ data' = data + 1 /\ data < MaxData
        /\ UNCHANGED <<image, newest, down>>
    BY <1>3 DEF WriteData, client, network
  <2> QED
    BY <1>0, <2>1, BoundsAssumption
       DEF BlocksInv, Whole, Garbage, Misfit, SoundStep
<1>4. CASE UNCHANGED <<image, newest, down, data>>
  BY <1>0, <1>4 DEF BlocksInv, Whole, Garbage, Misfit, SoundStep
<1>5. CASE ClientTimeout \/ PollNext \/ NothingToSend \/ Cleanup
  BY <1>4, <1>5 DEF ClientTimeout, PollNext, NothingToSend, Cleanup, network
<1>6. ASSUME NEW through \in BOOLEAN, Send(through)
      PROVE  UNCHANGED <<image, newest, down, data>>
  BY <1>6 DEF Send, SendCommand, SendSync
<1>7. ASSUME NEW q \in Queues, NEW c \in Types(q), Give(q, c)
      PROVE  UNCHANGED <<image, newest, down, data>>
  BY <1>7 DEF Give, client, network
<1>8. CASE LoseMembership \/ UNCHANGED vars
  BY <1>4, <1>8 DEF LoseMembership, client, network, vars
<1> QED
  BY <1>1, <1>2, <1>3, <1>4, <1>5, <1>6, <1>7, <1>8 DEF Next, ClientStep

(* What gets into the image is a whole block of the server, not older than *)
(* any before, or one with a wrong size, whatever gets lost or damaged     *)
(* (bta_control_net.c:341-392).                                            *)
THEOREM ImageNeverAgesBack == Spec => ImageSound
<1>1. BlocksInv /\ [Next]_vars => [SoundStep]_vars
  BY BlocksInductive
<1> QED
  BY <1>1, BlocksAtFirst, BlocksInductive, PTL
     DEF Spec, ImageSound, SoundStep
=============================================================================
