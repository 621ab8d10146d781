----------------------------- MODULE Stellarium -----------------------------
(***************************************************************************)
(* The server that lets the planetarium program Stellarium point the       *)
(* telescope (Stellarium_control/main.c).  A child of the program serves   *)
(* one client at a time: it sends position and status about once a second, *)
(* reads messages, gives the control system the command for the            *)
(* coordinates in one, and polls the segment for a second for them to be   *)
(* the telescope's input.  The status in what it sends next is 0 if they   *)
(* were seen there.                                                        *)
(***************************************************************************)
EXTENDS Integers, Sequences

CONSTANTS
  Coords,   \* coordinates that messages ask for
  Other,    \* coordinates that someone else gives the control system
  Polls,    \* looks at the segment for coordinates                 (10)
  MaxSent,  \* bound: messages of a client
  Room      \* bound: the command queue

ASSUME StellariumAssumption ==
  /\ Other \notin Coords /\ Coords # {}
  /\ Polls \in Nat \ {0} /\ MaxSent \in Nat \ {0} /\ Room \in Nat \ {0}

VARIABLES
  keeper,   \* the parent: "up" or "dead"
  server,   \* "none", "accept", "send", "wait" in select,
            \* "obey", "judge"
  client,   \* "none", "there", or "gone" and the server has not seen it
  asks,     \* coordinates of the client's messages so far
  unread,   \* how many of them have not been read
  want,     \* the message that setCoords is at
  looks,    \* looks at the segment that are left
  dout,     \* dout.status
  told,     \* the last status that the client got, or None
  about,    \* history: the message it is about, or 0
  queue,    \* commands that the control system has not taken
  Inp,      \* InpAlpha and InpDelta
  in_force  \* history: messages whose coordinates were Inp since sent

link == <<client, asks, unread, told, about, in_force>>
system == <<queue, Inp>>
stell_vars == <<keeper, server, want, looks, dout, link, system>>

None == 1

StellInit ==
  /\ keeper = "up" /\ server = "none" /\ client = "none"
  /\ asks = <<>> /\ unread = 0 /\ want = 0 /\ looks = 0
  /\ dout = 0 /\ told = None /\ about = 0
  /\ queue = <<>> /\ Inp = Other /\ in_force = {}

-----------------------------------------------------------------------------
(* The parent forks a child, and another as soon as that one has died.     *)
ForkServer ==
  /\ keeper = "up" /\ server = "none" /\ server' = "accept"
  /\ want' = 0 /\ looks' = 0 /\ dout' = 0
  /\ UNCHANGED <<keeper, link, system>>

(* accept, for an address that may connect.                                *)
AcceptClient ==
  /\ server = "accept" /\ client # "none" /\ server' = "send" /\ dout' = 0
  /\ UNCHANGED <<keeper, want, looks, link, system>>

(* Position and status are sent; a client that has gone is seen here, or   *)
(* when there is nothing to read.                                          *)
Send ==
  /\ server = "send"
  /\ \/ /\ client = "there" /\ server' = "wait"
        /\ told' = dout /\ about' = want
        /\ UNCHANGED <<client, asks, unread, in_force>>
     \/ /\ client = "gone" /\ server' = "wait" /\ UNCHANGED link
     \/ /\ client = "gone" /\ server' = "accept" /\ client' = "none"
        /\ asks' = <<>> /\ unread' = 0 /\ in_force' = {}
        /\ told' = None /\ about' = 0
  /\ want' = IF client' = "none" THEN 0 ELSE want
  /\ UNCHANGED <<keeper, looks, dout, system>>

(* select: nothing in a second, and nothing to read any more.              *)
Quiet ==
  /\ server = "wait" /\ unread = 0 /\ client = "there" /\ server' = "send"
  /\ UNCHANGED <<keeper, want, looks, dout, link, system>>
Disconnect ==
  /\ server = "wait" /\ unread = 0 /\ client = "gone"
  /\ server' = "accept" /\ client' = "none" /\ want' = 0
  /\ asks' = <<>> /\ in_force' = {} /\ told' = None /\ about' = 0
  /\ UNCHANGED <<keeper, looks, dout, unread, system>>

(* Mutant: the status stays as it was.                                     *)
ReadTooMuchSilent ==
  /\ server = "wait" /\ unread > 1
  /\ unread' = 0 /\ want' = Len(asks) /\ server' = "send"
  /\ UNCHANGED <<keeper, looks, dout, client, asks, told, about, in_force,
                 system>>

(* Messages are read: several at once are too long to be one, and all of   *)
(* them are lost.                                                          *)
ReadTooMuch ==
  /\ server = "wait" /\ unread > 1
  /\ unread' = 0 /\ want' = Len(asks) /\ dout' = -1 /\ server' = "send"
  /\ UNCHANGED <<keeper, looks, client, asks, told, about, in_force, system>>

(* One message: the command is sent, or dropped by a full queue.           *)
ReadMessage ==
  /\ server = "wait" /\ unread = 1
  /\ unread' = 0 /\ want' = Len(asks) /\ server' = "obey" /\ looks' = Polls
  /\ queue' = IF Len(queue) < Room THEN Append(queue, asks[Len(asks)])
              ELSE queue
  /\ UNCHANGED <<keeper, dout, client, asks, told, about, in_force, Inp>>

(* Up to ten looks at the segment, until the coordinates are there.        *)
PollSegment ==
  /\ server = "obey" /\ want > 0
  /\ \/ looks > 0 /\ Inp # asks[want] /\ looks' = looks - 1 /\ UNCHANGED server
     \/ (looks = 0 \/ Inp = asks[want]) /\ server' = "judge" /\ UNCHANGED looks
  /\ UNCHANGED <<keeper, want, dout, link, system>>

(* The look that decides: what was seen may have gone again.               *)
JudgeSegment ==
  /\ server = "judge" /\ want > 0 /\ server' = "send"
  /\ dout' = IF Inp = asks[want] THEN 0 ELSE -1
  /\ UNCHANGED <<keeper, want, looks, link, system>>

(* A signal ends the child, a second later; or the parent, and the child   *)
(* with it.                                                                *)
SignalServer ==
  /\ server # "none" /\ server' = "none"
  /\ keeper' \in {keeper, "dead"}
  /\ client' = "none" /\ asks' = <<>> /\ unread' = 0 /\ in_force' = {}
  /\ told' = None /\ about' = 0 /\ want' = 0 /\ looks' = 0 /\ dout' = 0
  /\ UNCHANGED system

-----------------------------------------------------------------------------
(* A client: it connects, asks, and goes.                                  *)
Connect ==
  /\ client = "none" /\ server # "none" /\ client' = "there"
  /\ UNCHANGED <<keeper, server, want, looks, dout, asks, unread, told, about,
                 in_force, system>>
Ask ==
  /\ client = "there" /\ Len(asks) < MaxSent
  /\ \E c \in Coords :
       /\ asks' = Append(asks, c) /\ unread' = unread + 1
       /\ in_force' = IF c = Inp THEN in_force \cup {Len(asks) + 1}
                      ELSE in_force
  /\ UNCHANGED <<keeper, server, want, looks, dout, client, told, about,
                 system>>
ClientGoes ==
  /\ client = "there" /\ client' = "gone"
  /\ UNCHANGED <<keeper, server, want, looks, dout, asks, unread, told, about,
                 in_force, system>>

(* The control system's input changes: by the next command in the queue,   *)
(* which it may refuse, or by someone else.                                *)
Seen(c) == in_force \cup {n \in DOMAIN asks : asks[n] = c}
Obey ==
  /\ queue # <<>> /\ queue' = Tail(queue)
  /\ \/ Inp' = Head(queue) /\ in_force' = Seen(Head(queue))
     \/ UNCHANGED <<Inp, in_force>>
  /\ UNCHANGED <<keeper, server, want, looks, dout, client, asks, unread, told,
                 about>>
SomeoneElse ==
  /\ Inp' = Other
  /\ UNCHANGED <<keeper, server, want, looks, dout, link, queue>>

StellNext ==
  \/ ForkServer \/ AcceptClient \/ Send \/ Quiet \/ Disconnect
  \/ ReadTooMuch \/ ReadMessage \/ PollSegment \/ JudgeSegment
  \/ SignalServer \/ Connect \/ Ask \/ ClientGoes \/ Obey \/ SomeoneElse

StellSpec == StellInit /\ [][StellNext]_stell_vars

-----------------------------------------------------------------------------
(* Properties.                                                             *)

StellTypeOK ==
  /\ keeper \in {"up", "dead"}
  /\ server \in {"none", "accept", "send", "wait", "obey", "judge"}
  /\ client \in {"none", "there", "gone"}
  /\ Len(asks) <= MaxSent /\ unread \in 0 .. Len(asks)
  /\ want \in 0 .. Len(asks) /\ about \in 0 .. Len(asks)
  /\ looks \in 0 .. Polls /\ dout \in {0, -1} /\ told \in {0, -1, None}
  /\ Len(queue) <= Room /\ Inp \in Coords \cup {Other}
  /\ in_force \subseteq DOMAIN asks

(* A client that is told 0 about a message ("status=0 means ok",           *)
(* main.c:132) knows that its coordinates were the telescope's input at a  *)
(* time since it sent them, whoever else gives commands and whatever was   *)
(* lost.                                                                   *)
OkMeansObeyed == told = 0 /\ about > 0 => about \in in_force
=============================================================================
