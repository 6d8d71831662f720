-------------------------------- MODULE Hub ---------------------------------
(***************************************************************************)
(* The WebSocket hub: the engine's ticker broadcasts each snapshot to the  *)
(* buffered channel of every client, and each client has two goroutines,   *)
(* readPump, which notices that the peer is gone and removes the client,   *)
(* and writePump, which moves snapshots from the channel to the socket.    *)
(*                                                                         *)
(* A send on a closed channel panics and takes the server down: what       *)
(* prevents it is that Broadcast holds the hub's lock for reading over its *)
(* whole loop, and add and remove take it for writing.  Snapshots are      *)
(* numbered; the socket is the network's, and does what gorilla/websocket  *)
(* documents: a closed one fails every read and write.                     *)
(***************************************************************************)
EXTENDS Naturals, Sequences

CONSTANTS
  Clients,   \* connections: each ServeWS makes a client of its own
  Buffer,    \* capacity of a client's channel (32 in the code)
  MaxTicks   \* bound on the number of broadcasts

ASSUME BoundsAssumption == Buffer \in Nat /\ MaxTicks \in Nat

VARIABLES
  sent,     \* broadcasts so far; also the number of the latest snapshot
  todo,     \* clients the running Broadcast has still to serve: while there
            \* are any, the lock is held for reading
  members,  \* Hub.clients
  send,     \* each client's channel
  closed,   \* clients whose channel is closed
  conn,     \* the socket: "none", "open", "gone" (the peer), "closed"
  reader,   \* where readPump is
  writer,   \* where writePump is
  held,     \* the snapshot writePump has received and is writing
  seen      \* the last snapshot that reached the dashboard

vars == <<sent, todo, members, send, closed, conn, reader, writer, held, seen>>

Unlocked == todo = {}

-----------------------------------------------------------------------------
\* Broadcast, from the single goroutine of Engine.Run.

Broadcast ==
  /\ Unlocked
  /\ sent < MaxTicks
  /\ sent' = sent + 1
  /\ todo' = members
  /\ UNCHANGED <<members, send, closed, conn, reader, writer, held, seen>>

\* A bug to find: the send blocks while the channel is full.
SendBug(c) ==
  /\ c \in todo
  /\ Len(send[c]) < Buffer
  /\ todo' = todo \ {c}
  /\ send' = [send EXCEPT ![c] = Append(@, sent)]
  /\ UNCHANGED <<sent, members, closed, conn, reader, writer, held, seen>>

\* A full channel drops the snapshot.
Send(c) ==
  /\ c \in todo
  /\ todo' = todo \ {c}
  /\ send' = [send EXCEPT ![c] = IF Len(@) < Buffer THEN Append(@, sent) ELSE @]
  /\ UNCHANGED <<sent, members, closed, conn, reader, writer, held, seen>>

-----------------------------------------------------------------------------
\* ServeWS: upgrade, add, then the two pumps start.
ServeWS(c) ==
  /\ conn[c] = "none"
  /\ Unlocked
  /\ members' = members \cup {c}
  /\ conn' = [conn EXCEPT ![c] = "open"]
  /\ reader' = [reader EXCEPT ![c] = "read"]
  /\ writer' = [writer EXCEPT ![c] = "select"]
  /\ seen' = [seen EXCEPT ![c] = sent]
  /\ UNCHANGED <<sent, todo, send, closed, held>>

\* The dashboard is closed, or the network to it fails.
PeerGone(c) ==
  /\ conn[c] = "open"
  /\ conn' = [conn EXCEPT ![c] = "gone"]
  /\ UNCHANGED <<sent, todo, members, send, closed, reader, writer, held, seen>>

-----------------------------------------------------------------------------
\* readPump.

\* A bug to find: readPump closes the socket without leaving the hub.
ReadFailsBug(c) ==
  /\ reader[c] = "read"
  /\ conn[c] # "open"
  /\ reader' = [reader EXCEPT ![c] = "close"]
  /\ UNCHANGED <<sent, todo, members, send, closed, conn, writer, held, seen>>

\* ReadMessage fails: an error, or no pong before the read deadline.
ReadFails(c) ==
  /\ reader[c] = "read"
  /\ conn[c] # "open"
  /\ reader' = [reader EXCEPT ![c] = "remove"]
  /\ UNCHANGED <<sent, todo, members, send, closed, conn, writer, held, seen>>

\* A bug to find: the channel is closed without the lock.
RemoveBug(c) ==
  /\ reader[c] = "remove"
  /\ members' = members \ {c}
  /\ closed' = IF c \in members THEN closed \cup {c} ELSE closed
  /\ reader' = [reader EXCEPT ![c] = "close"]
  /\ UNCHANGED <<sent, todo, send, conn, writer, held, seen>>

Remove(c) ==
  /\ reader[c] = "remove"
  /\ Unlocked
  /\ members' = members \ {c}
  /\ closed' = IF c \in members THEN closed \cup {c} ELSE closed
  /\ reader' = [reader EXCEPT ![c] = "close"]
  /\ UNCHANGED <<sent, todo, send, conn, writer, held, seen>>

ReaderCloses(c) ==
  /\ reader[c] = "close"
  /\ conn' = [conn EXCEPT ![c] = "closed"]
  /\ reader' = [reader EXCEPT ![c] = "done"]
  /\ UNCHANGED <<sent, todo, members, send, closed, writer, held, seen>>

-----------------------------------------------------------------------------
\* writePump.

\* A bug to find: the newest snapshot goes first, the older ones after it.
ReceiveBug(c) ==
  LET n == Len(send[c]) IN
  /\ writer[c] = "select"
  /\ n > 0
  /\ held' = [held EXCEPT ![c] = send[c][n]]
  /\ send' = [send EXCEPT ![c] = SubSeq(@, 1, n - 1)]
  /\ writer' = [writer EXCEPT ![c] = "write"]
  /\ UNCHANGED <<sent, todo, members, closed, conn, reader, seen>>

\* A channel that is closed is drained before it reports so.
Receive(c) ==
  /\ writer[c] = "select"
  /\ send[c] # <<>>
  /\ held' = [held EXCEPT ![c] = Head(send[c])]
  /\ send' = [send EXCEPT ![c] = Tail(@)]
  /\ writer' = [writer EXCEPT ![c] = "write"]
  /\ UNCHANGED <<sent, todo, members, closed, conn, reader, seen>>

\* What is written after the peer is gone reaches nobody.
WriteSucceeds(c) ==
  /\ writer[c] = "write"
  /\ conn[c] # "closed"
  /\ seen' = [seen EXCEPT ![c] = IF conn[c] = "open" THEN held[c] ELSE @]
  /\ writer' = [writer EXCEPT ![c] = "select"]
  /\ UNCHANGED <<sent, todo, members, send, closed, conn, reader, held>>

\* An error, or a dashboard so slow that the write deadline passes.
WriteFails(c) ==
  /\ writer[c] = "write"
  /\ writer' = [writer EXCEPT ![c] = "close"]
  /\ UNCHANGED <<sent, todo, members, send, closed, conn, reader, held, seen>>

\* The ping fails, or the channel is closed and a close message goes out.
PingFails(c) ==
  /\ writer[c] = "select"
  /\ writer' = [writer EXCEPT ![c] = "close"]
  /\ UNCHANGED <<sent, todo, members, send, closed, conn, reader, held, seen>>

ChannelClosed(c) ==
  /\ c \in closed /\ send[c] = <<>>
  /\ writer[c] = "select"
  /\ writer' = [writer EXCEPT ![c] = "close"]
  /\ UNCHANGED <<sent, todo, members, send, closed, conn, reader, held, seen>>

\* A bug to find: writePump is taken for the socket.
WriterClosesBug(c) ==
  /\ writer[c] = "close"
  /\ writer' = [writer EXCEPT ![c] = "closed"]
  /\ UNCHANGED <<sent, todo, members, send, closed, conn, reader, held, seen>>

WriterCloses(c) ==
  /\ writer[c] = "close"
  /\ conn' = [conn EXCEPT ![c] = "closed"]
  /\ writer' = [writer EXCEPT ![c] = "done"]
  /\ UNCHANGED <<sent, todo, members, send, closed, reader, held, seen>>

-----------------------------------------------------------------------------
Init ==
  /\ sent = 0
  /\ todo = {}
  /\ members = {}
  /\ send = [c \in Clients |-> <<>>]
  /\ closed = {}
  /\ conn = [c \in Clients |-> "none"]
  /\ reader = [c \in Clients |-> "off"]
  /\ writer = [c \in Clients |-> "off"]
  /\ held = [c \in Clients |-> 0]
  /\ seen = [c \in Clients |-> 0]

ReadPump(c) == ReadFails(c) \/ Remove(c) \/ ReaderCloses(c)
WritePump(c) == \/ Receive(c) \/ WriteSucceeds(c) \/ WriteFails(c)
                \/ PingFails(c) \/ ChannelClosed(c) \/ WriterCloses(c)

Next ==
  \/ Broadcast
  \/ \E c \in Clients :
       Send(c) \/ ServeWS(c) \/ PeerGone(c) \/ ReadPump(c) \/ WritePump(c)

Spec == Init /\ [][Next]_vars

\* Goroutines that can run do; a write ends, one way or the other, by its
\* deadline; a remove waiting for the lock keeps later broadcasts out.  Peers
\* need not connect or leave, pings need not fail, and the ticker may stop.
Fairness ==
  \A c \in Clients :
    /\ WF_vars(Send(c))
    /\ WF_vars(ReadFails(c)) /\ SF_vars(Remove(c)) /\ WF_vars(ReaderCloses(c))
    /\ WF_vars(Receive(c)) /\ WF_vars(ChannelClosed(c)) /\ WF_vars(WriterCloses(c))
    /\ WF_vars(WriteSucceeds(c) \/ WriteFails(c))

FairSpec == Spec /\ Fairness

-----------------------------------------------------------------------------
TypeOK ==
  /\ sent \in Nat
  /\ todo \subseteq Clients
  /\ members \subseteq Clients
  /\ send \in [Clients -> Seq(Nat)]
  /\ closed \subseteq Clients
  /\ conn \in [Clients -> {"none", "open", "gone", "closed"}]
  /\ reader \in [Clients -> {"off", "read", "remove", "close", "done"}]
  /\ writer \in [Clients -> {"off", "select", "write", "close", "done"}]
  /\ held \in [Clients -> Nat]
  /\ seen \in [Clients -> Nat]

\* Broadcast never sends on a closed channel, which would panic and end the
\* server, although clients are removed by goroutines of their own.
NoSendOnClosed == todo \cap closed = {}

\* The hub is the lossy, ordered fan-out of module Fanout.
F == INSTANCE Fanout WITH
       published <- sent,
       joined <- {c \in Clients : conn[c] # "none"}
ImplementsFanout == F!FanoutSpec

\* A broadcast ends whatever the clients do: a dashboard that reads slowly,
\* or not at all, never holds up the telemetry engine.
BroadcastEnds == todo # {} ~> todo = {}

\* When the connection is lost, from whichever side, the hub forgets the
\* client and both of its goroutines end: nothing leaks.
ClientReleased ==
  \A c \in Clients : conn[c] \in {"gone", "closed"}
    ~> c \notin members /\ reader[c] = "done" /\ writer[c] = "done"
=============================================================================
