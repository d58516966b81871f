------------------------------- MODULE Server -------------------------------
(***************************************************************************)
(* Server of penkNetwork.cpp, over the RakPeer it owns.                    *)
(*                                                                         *)
(* The peer is external (RakNet, of which the repository has the headers   *)
(* only): its network thread accepts clients and puts a packet into its    *)
(* queue for every arrival, loss and message; the game's single thread     *)
(* takes packets out with Receive, one call per frame.  Clients send on    *)
(* one reliable ordered channel, and so does the server when it relays.    *)
(***************************************************************************)
EXTENDS Naturals, Sequences, FiniteSets

CONSTANTS
  Clients,
  MaxConnections,  \* clients the peer accepts at a time (5)
  MaxPackets       \* bound on the packets that reach the peer

ASSUME ServerAssumption == MaxConnections \in Nat /\ MaxPackets \in Nat

VARIABLES
  peer,        \* the server pointer: "null", "idle" (Startup failed), "active",
               \* "destroyed"
  connected,   \* clients of the active peer
  queue,       \* packets waiting for Receive
  arrived,     \* packets that have reached the peer; the last one's number
  relayed,     \* relayed[c]: the packets sent on to client c, in order
  clientID,    \* the client whose connection was announced last, or "none"
  allocated    \* packets Receive has handed out and not been given back

peerVars   == <<connected, queue, arrived>>
serverVars == <<peer, peerVars, relayed, clientID, allocated>>

\* What the first byte of a packet says; "message" is any other value.
Kinds  == {"connect", "disconnect", "lost", "ping", "incompatible", "message"}
Packet == [kind : Kinds, from : Clients, number : 1 .. MaxPackets]

ServerInit ==
  /\ peer = "null" /\ connected = {} /\ queue = << >> /\ arrived = 0
  /\ relayed = [c \in Clients |-> << >>]
  /\ clientID = "none" /\ allocated = 0

-----------------------------------------------------------------------------
(***************************************************************************)
(* The peer and its clients.                                               *)
(***************************************************************************)
Arrive(kind, c) ==
  /\ peer = "active" /\ arrived < MaxPackets
  /\ arrived' = arrived + 1
  /\ queue' = Append(queue, [kind |-> kind, from |-> c, number |-> arrived + 1])
  /\ UNCHANGED <<peer, relayed, clientID, allocated>>

Connect(c) ==
  /\ c \notin connected /\ Cardinality(connected) < MaxConnections
  /\ connected' = connected \union {c}
  /\ Arrive("connect", c)

\* The client leaves, or has not been heard of for timeoutTime.
Leave(c) ==
  /\ c \in connected
  /\ connected' = connected \ {c}
  /\ \E kind \in {"disconnect", "lost"} : Arrive(kind, c)

Say(c) ==
  /\ c \in connected
  /\ Arrive("message", c)
  /\ UNCHANGED connected

\* From a host that need not be connected.
Probe(c) ==
  /\ \E kind \in {"ping", "incompatible"} : Arrive(kind, c)
  /\ UNCHANGED connected

Network == \E c \in Clients : Connect(c) \/ Leave(c) \/ Say(c) \/ Probe(c)

-----------------------------------------------------------------------------
(***************************************************************************)
(* Server.                                                                 *)
(***************************************************************************)

\* The result of Startup is kept in "fail" and returned.
ServerStart ==
  /\ peer' \in {"active", "idle"}
  /\ UNCHANGED <<peerVars, relayed, clientID, allocated>>

\* Mutant of Relay: the message goes to the last announced client alone.
RelayToLatest(packet) ==
  relayed' = [c \in Clients |-> IF c \in connected \ {packet.from} /\ c = clientID
                                  THEN Append(relayed[c], packet)
                                  ELSE relayed[c]]
\* Send to every connected client but the sender.
Relay(packet) ==
  relayed' = [c \in Clients |-> IF c \in connected \ {packet.from}
                                  THEN Append(relayed[c], packet)
                                  ELSE relayed[c]]

Handle(packet) ==
  /\ IF packet.kind = "message" THEN Relay(packet) ELSE UNCHANGED relayed
  /\ clientID' = IF packet.kind = "connect" THEN packet.from ELSE clientID

\* Mutant of ReceivePacket: the newest packet is taken first.
ReceiveNewest ==
  /\ peer = "active" /\ queue # << >>
  /\ queue' = SubSeq(queue, 1, Len(queue) - 1)
  /\ Handle(queue[Len(queue)])
  /\ allocated' = allocated + 1
  /\ UNCHANGED <<peer, connected, arrived>>
\* The body of the loop returns: one packet a call, and DeallocatePacket in the
\* loop's last clause is never reached.
ReceivePacket ==
  /\ peer = "active" /\ queue # << >>
  /\ queue' = Tail(queue)
  /\ Handle(Head(queue))
  /\ allocated' = allocated + 1
  /\ UNCHANGED <<peer, connected, arrived>>

\* Nothing to receive: the text is "NULL".
ReceiveNothing ==
  /\ peer # "active" \/ queue = << >>
  /\ UNCHANGED serverVars

\* Shutdown drops the connections and the packets not yet received.
ServerDestroy ==
  /\ peer' = "destroyed"
  /\ connected' = {} /\ queue' = << >>
  /\ UNCHANGED <<arrived, relayed, clientID, allocated>>

-----------------------------------------------------------------------------
ServerTypeOK ==
  /\ peer \in {"null", "idle", "active", "destroyed"}
  /\ connected \subseteq Clients
  /\ queue \in Seq(Packet)
  /\ arrived \in 0 .. MaxPackets
  /\ relayed \in [Clients -> Seq(Packet)]
  /\ clientID \in Clients \union {"none"}
  /\ allocated \in 0 .. MaxPackets

\* Relays keep the order in which the peer received the messages, so that any
\* two clients see the messages they both get in the same order.
RelayedInOrder ==
  \A c \in Clients : \A i, j \in 1 .. Len(relayed[c]) :
    i < j => relayed[c][i].number < relayed[c][j].number

\* No client gets its own message back, also not after it has left and returned.
NoEcho == \A c \in Clients : \A i \in 1 .. Len(relayed[c]) : relayed[c][i].from # c
=============================================================================
