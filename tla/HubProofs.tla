----------------------------- MODULE HubProofs ------------------------------
(***************************************************************************)
(* The hub, for any number of clients, any channel capacity and any number *)
(* of broadcasts: it never sends on a closed channel, and it implements    *)
(* the lossy, ordered fan-out.                                             *)
(***************************************************************************)
EXTENDS Hub, TLAPS

\* A client's life: nothing of it exists before ServeWS; a broadcast is owed
\* only to members, and members have open channels.
Fresh ==
  \A c \in Clients : conn[c] = "none" =>
    /\ c \notin members \cup closed
    /\ reader[c] = "off" /\ writer[c] = "off" /\ send[c] = <<>>
Registered == todo \subseteq members /\ members \cap closed = {}
Life == TypeOK /\ Fresh /\ Registered

LEMMA InitTyped == Init => TypeOK
BY DEF Init, TypeOK

LEMMA StepTyped == TypeOK /\ [Next]_vars => TypeOK'
<1> SUFFICES ASSUME TypeOK, [Next]_vars PROVE TypeOK'
  OBVIOUS
<1>1. CASE Broadcast
  BY <1>1 DEF Broadcast, TypeOK
<1>2. ASSUME NEW c \in Clients, Send(c)
      PROVE  TypeOK'
  <2>1. send[c] \in Seq(Nat) /\ Append(send[c], sent) \in Seq(Nat)
    BY DEF TypeOK
  <2>2. send' \in [Clients -> Seq(Nat)]
    BY <1>2, <2>1 DEF Send, TypeOK
  <2> QED BY <1>2, <2>2 DEF Send, TypeOK
<1>3. ASSUME NEW c \in Clients, ServeWS(c) \/ PeerGone(c)
      PROVE  TypeOK'
  <2>1. CASE ServeWS(c)
    BY <2>1 DEF ServeWS, TypeOK
  <2>2. CASE PeerGone(c)
    BY <2>2 DEF PeerGone, TypeOK
  <2> QED BY <1>3, <2>1, <2>2
<1>4. ASSUME NEW c \in Clients, ReadPump(c)
      PROVE  TypeOK'
  BY <1>4 DEF ReadPump, ReadFails, Remove, ReaderCloses, TypeOK
<1>5. ASSUME NEW c \in Clients, Receive(c)
      PROVE  TypeOK'
  <2>1. send[c] \in Seq(Nat) /\ send[c] # <<>>
    BY <1>5 DEF Receive, TypeOK
  <2>2. Head(send[c]) \in Nat /\ Tail(send[c]) \in Seq(Nat)
    BY <2>1
  <2>3. send' \in [Clients -> Seq(Nat)] /\ held' \in [Clients -> Nat]
    BY <1>5, <2>2 DEF Receive, TypeOK
  <2> QED BY <1>5, <2>3 DEF Receive, TypeOK
<1>6. ASSUME NEW c \in Clients,
             \/ WriteSucceeds(c) \/ WriteFails(c) \/ PingFails(c)
             \/ ChannelClosed(c) \/ WriterCloses(c)
      PROVE  TypeOK'
  <2>1. CASE WriteSucceeds(c)
    BY <2>1 DEF WriteSucceeds, TypeOK
  <2>2. CASE WriteFails(c) \/ PingFails(c) \/ ChannelClosed(c)
    BY <2>2 DEF WriteFails, PingFails, ChannelClosed, TypeOK
  <2>3. CASE WriterCloses(c)
    BY <2>3 DEF WriterCloses, TypeOK
  <2> QED BY <1>6, <2>1, <2>2, <2>3
<1>7. CASE UNCHANGED vars
  BY <1>7 DEF vars, TypeOK
<1> QED BY <1>1, <1>2, <1>3, <1>4, <1>5, <1>6, <1>7 DEF Next, WritePump

\* Every variable of the hub keeps its type.
THEOREM HubTyped == Spec => []TypeOK
<1> QED BY InitTyped, StepTyped, PTL DEF Spec

-----------------------------------------------------------------------------
LEMMA StepLife == Life /\ [Next]_vars => Life'
<1> SUFFICES ASSUME Life, [Next]_vars PROVE Life'
  OBVIOUS
<1>0. TypeOK'
  BY StepTyped DEF Life
<1> SUFFICES Fresh' /\ Registered'
  BY <1>0 DEF Life
<1> USE DEF Life, Unlocked
<1>1. CASE Broadcast
  BY <1>1 DEF Broadcast, Fresh, Registered
<1>2. ASSUME NEW c \in Clients, Send(c)
      PROVE  Fresh' /\ Registered'
  <2>1. conn[c] # "none"
    BY <1>2 DEF Send, Fresh, Registered
  <2>2. \A d \in Clients \ {c} : send'[d] = send[d]
    BY <1>2 DEF Send, TypeOK
  <2> QED BY <1>2, <2>1, <2>2 DEF Send, Fresh, Registered
<1>3. ASSUME NEW c \in Clients, ServeWS(c) \/ PeerGone(c)
      PROVE  Fresh' /\ Registered'
  BY <1>3 DEF ServeWS, PeerGone, Fresh, Registered, TypeOK
<1>4. ASSUME NEW c \in Clients, ReadPump(c)
      PROVE  Fresh' /\ Registered'
  BY <1>4 DEF ReadPump, ReadFails, Remove, ReaderCloses, Fresh, Registered, TypeOK
<1>5. ASSUME NEW c \in Clients, WritePump(c)
      PROVE  Fresh' /\ Registered'
  BY <1>5 DEF WritePump, Receive, WriteSucceeds, WriteFails, PingFails,
              ChannelClosed, WriterCloses, Fresh, Registered, TypeOK
<1>6. CASE UNCHANGED vars
  BY <1>6 DEF vars, Fresh, Registered
<1> QED BY <1>1, <1>2, <1>3, <1>4, <1>5, <1>6 DEF Next

\* No broadcast sends on a closed channel: the server does not panic.
THEOREM NeverPanics == Spec => []NoSendOnClosed
<1>1. Init => Life
  BY InitTyped DEF Init, Life, Fresh, Registered
<1>2. Life /\ [Next]_vars => Life'
  BY StepLife
<1>3. Life => NoSendOnClosed
  BY DEF Life, Registered, NoSendOnClosed
<1> QED BY <1>1, <1>2, <1>3, PTL DEF Spec

-----------------------------------------------------------------------------
\* The refinement.  What is on its way to a dashboard, in its channel or in
\* the hands of its writePump, is newer than what it has seen and in order;
\* a client that a broadcast has still to serve has not had its snapshot.
InOrder(c) ==
  /\ seen[c] <= sent
  /\ \A i \in 1..Len(send[c]) : seen[c] < send[c][i] /\ send[c][i] <= sent
  /\ \A i, j \in 1..Len(send[c]) : i < j => send[c][i] < send[c][j]
OnItsWay(c) ==
  writer[c] = "write" =>
    /\ seen[c] < held[c] /\ held[c] <= sent
    /\ \A i \in 1..Len(send[c]) : held[c] < send[c][i]
Due(c) ==
  c \in todo =>
    /\ seen[c] < sent
    /\ \A i \in 1..Len(send[c]) : send[c][i] < sent
    /\ writer[c] = "write" => held[c] < sent
Orderly == \A c \in Clients : InOrder(c) /\ OnItsWay(c) /\ Due(c)

\* Nothing InOrder, OnItsWay and Due speak of changes for a client.
LEMMA Undisturbed ==
  ASSUME NEW c \in Clients, InOrder(c), OnItsWay(c), Due(c),
         sent' = sent, seen'[c] = seen[c], send'[c] = send[c], held'[c] = held[c],
         writer'[c] = "write" => writer[c] = "write",
         c \in todo' => c \in todo
  PROVE  InOrder(c)' /\ OnItsWay(c)' /\ Due(c)'
BY DEF InOrder, OnItsWay, Due

LEMMA StepOrderly == Life /\ Orderly /\ [Next]_vars => Orderly'
<1> SUFFICES ASSUME Life, Orderly, [Next]_vars,
                    NEW d \in Clients
             PROVE  InOrder(d)' /\ OnItsWay(d)' /\ Due(d)'
  BY DEF Orderly
<1>a. InOrder(d) /\ OnItsWay(d) /\ Due(d)
  BY DEF Orderly
<1>b. /\ sent \in Nat /\ seen[d] \in Nat /\ held[d] \in Nat /\ send[d] \in Seq(Nat)
      /\ Len(send[d]) \in Nat /\ \A i \in 1..Len(send[d]) : send[d][i] \in Nat
  BY DEF Life, TypeOK
<1>1. CASE Broadcast
  <2>1. /\ sent' = sent + 1 /\ todo = {}
        /\ UNCHANGED <<send, writer, held, seen>>
    BY <1>1 DEF Broadcast, Unlocked
  <2>2. InOrder(d)'
    BY <1>a, <1>b, <2>1 DEF InOrder
  <2>3. OnItsWay(d)'
    BY <1>a, <1>b, <2>1 DEF OnItsWay
  <2>4. Due(d)'
    BY <1>a, <1>b, <2>1 DEF Due, InOrder, OnItsWay
  <2> QED BY <2>2, <2>3, <2>4
<1>2. ASSUME NEW c \in Clients, Send(c)
      PROVE  InOrder(d)' /\ OnItsWay(d)' /\ Due(d)'
  <2>1. /\ c \in todo /\ todo' = todo \ {c}
        /\ UNCHANGED <<sent, writer, held, seen>>
    BY <1>2 DEF Send
  <2>2. CASE send'[d] = send[d]
    BY <1>a, <2>1, <2>2, Undisturbed
  <2>3. CASE c = d /\ send'[d] = Append(send[d], sent)
    <3>1. /\ Len(send'[d]) = Len(send[d]) + 1
          /\ send'[d][Len(send[d]) + 1] = sent
          /\ \A i \in 1..Len(send[d]) : send'[d][i] = send[d][i]
      BY <1>b, <2>3
    <3>2. \A i \in 1..Len(send'[d]) : i \in 1..Len(send[d]) \/ i = Len(send[d]) + 1
      BY <1>b, <3>1
    <3>3. InOrder(d)'
      BY <1>a, <1>b, <2>1, <2>3, <3>1, <3>2 DEF InOrder, Due
    <3>4. OnItsWay(d)'
      BY <1>a, <1>b, <2>1, <2>3, <3>1, <3>2 DEF OnItsWay, Due
    <3>5. d \notin todo'
      BY <2>1, <2>3
    <3> QED BY <3>3, <3>4, <3>5 DEF Due
  <2>4. send'[d] = send[d] \/ (c = d /\ send'[d] = Append(send[d], sent))
    BY <1>2 DEF Send, Life, TypeOK
  <2> QED BY <2>2, <2>3, <2>4
<1>3. ASSUME NEW c \in Clients, ServeWS(c)
      PROVE  InOrder(d)' /\ OnItsWay(d)' /\ Due(d)'
  <2>1. /\ todo' = {} /\ UNCHANGED <<sent, send, held>>
    BY <1>3 DEF ServeWS, Unlocked
  <2>2. CASE c # d
    <3>1. seen'[d] = seen[d] /\ writer'[d] = writer[d]
      BY <1>3, <2>2 DEF ServeWS, Life, TypeOK
    <3> QED BY <1>a, <2>1, <3>1, Undisturbed
  <2>3. CASE c = d
    <3>1. /\ send'[d] = <<>> /\ seen'[d] = sent /\ writer'[d] = "select"
      BY <1>3, <2>1, <2>3 DEF ServeWS, Life, TypeOK, Fresh
    <3> QED BY <1>b, <2>1, <3>1 DEF InOrder, OnItsWay, Due
  <2> QED BY <2>2, <2>3
<1>4. ASSUME NEW c \in Clients, PeerGone(c) \/ ReadPump(c)
      PROVE  InOrder(d)' /\ OnItsWay(d)' /\ Due(d)'
  <2>1. UNCHANGED <<sent, todo, send, writer, held, seen>>
    BY <1>4 DEF PeerGone, ReadPump, ReadFails, Remove, ReaderCloses
  <2> QED BY <1>a, <2>1, Undisturbed
<1>5. ASSUME NEW c \in Clients, Receive(c)
      PROVE  InOrder(d)' /\ OnItsWay(d)' /\ Due(d)'
  <2>1. UNCHANGED <<sent, todo, seen>>
    BY <1>5 DEF Receive
  <2>2. CASE c # d
    <3>1. send'[d] = send[d] /\ held'[d] = held[d] /\ writer'[d] = writer[d]
      BY <1>5, <2>2 DEF Receive, Life, TypeOK
    <3> QED BY <1>a, <2>1, <3>1, Undisturbed
  <2>3. CASE c = d
    <3>1. /\ send[d] # <<>> /\ held'[d] = Head(send[d]) /\ send'[d] = Tail(send[d])
      BY <1>5, <2>3 DEF Receive, Life, TypeOK
    <3>2. /\ Len(send'[d]) = Len(send[d]) - 1 /\ 1 \in 1..Len(send[d])
          /\ held'[d] = send[d][1]
          /\ \A i \in 1..Len(send'[d]) : i + 1 \in 1..Len(send[d]) /\ send'[d][i] = send[d][i + 1]
      BY <1>b, <3>1
    <3>3. InOrder(d)'
      <4>1. seen'[d] <= sent'
        BY <1>a, <2>1 DEF InOrder
      <4>2. \A i \in 1..Len(send'[d]) : seen'[d] < send'[d][i] /\ send'[d][i] <= sent'
        BY <1>a, <2>1, <3>2 DEF InOrder
      <4>3. ASSUME NEW i \in 1..Len(send'[d]), NEW j \in 1..Len(send'[d]), i < j
            PROVE  send'[d][i] < send'[d][j]
        <5>1. i + 1 \in 1..Len(send[d]) /\ j + 1 \in 1..Len(send[d]) /\ i + 1 < j + 1
          BY <3>2, <4>3
        <5>2. send[d][i + 1] < send[d][j + 1]
          BY <1>a, <5>1 DEF InOrder
        <5> QED BY <3>2, <5>2
      <4> QED BY <4>1, <4>2, <4>3 DEF InOrder
    <3>4. OnItsWay(d)'
      <4>1. seen'[d] < held'[d] /\ held'[d] <= sent'
        BY <1>a, <2>1, <3>2 DEF InOrder
      <4>2. ASSUME NEW i \in 1..Len(send'[d])
            PROVE  held'[d] < send'[d][i]
        <5>1. i + 1 \in 1..Len(send[d]) /\ 1 < i + 1
          BY <3>2
        <5>2. send[d][1] < send[d][i + 1]
          BY <1>a, <3>2, <5>1 DEF InOrder
        <5> QED BY <3>2, <5>2
      <4> QED BY <4>1, <4>2 DEF OnItsWay
    <3>5. Due(d)'
      BY <1>a, <1>b, <2>1, <3>2 DEF Due
    <3> QED BY <3>3, <3>4, <3>5
  <2> QED BY <2>2, <2>3
<1>6. ASSUME NEW c \in Clients, WriteSucceeds(c)
      PROVE  InOrder(d)' /\ OnItsWay(d)' /\ Due(d)'
  <2>1. UNCHANGED <<sent, todo, send, held>>
    BY <1>6 DEF WriteSucceeds
  <2>2. CASE seen'[d] = seen[d] /\ (writer'[d] = "write" => writer[d] = "write")
    BY <1>a, <2>1, <2>2, Undisturbed
  <2>3. CASE c = d /\ seen'[d] = held[d] /\ writer'[d] = "select"
    <3>1. writer[d] = "write"
      BY <1>6, <2>3 DEF WriteSucceeds
    <3> QED BY <1>a, <1>b, <2>1, <2>3, <3>1 DEF InOrder, OnItsWay, Due
  <2>4. \/ seen'[d] = seen[d] /\ (writer'[d] = "write" => writer[d] = "write")
        \/ c = d /\ seen'[d] = held[d] /\ writer'[d] = "select"
    BY <1>6 DEF WriteSucceeds, Life, TypeOK
  <2> QED BY <2>2, <2>3, <2>4
<1>7. ASSUME NEW c \in Clients,
             WriteFails(c) \/ PingFails(c) \/ ChannelClosed(c) \/ WriterCloses(c)
      PROVE  InOrder(d)' /\ OnItsWay(d)' /\ Due(d)'
  <2>1. /\ UNCHANGED <<sent, todo, send, held, seen>>
        /\ writer'[d] = "write" => writer[d] = "write"
    BY <1>7 DEF WriteFails, PingFails, ChannelClosed, WriterCloses, Life, TypeOK
  <2> QED BY <1>a, <2>1, Undisturbed
<1>8. CASE UNCHANGED vars
  <2>1. UNCHANGED <<sent, todo, send, writer, held, seen>>
    BY <1>8 DEF vars
  <2> QED BY <1>a, <2>1, Undisturbed
<1> QED BY <1>1, <1>2, <1>3, <1>4, <1>5, <1>6, <1>7, <1>8 DEF Next, WritePump

\* Every step of the hub is a step of the fan-out or changes nothing of it.
LEMMA StepRefines == Life /\ Orderly /\ [Next]_vars => [F!FanoutNext]_(F!fvars)
<1> SUFFICES ASSUME Life, Orderly, [Next]_vars
             PROVE  F!FanoutNext \/ UNCHANGED F!fvars
  OBVIOUS
<1> DEFINE joined == {c \in Clients : conn[c] # "none"}
<1>0. (\A c \in Clients : (conn'[c] = "none") <=> (conn[c] = "none")) => joined' = joined
  OBVIOUS
<1>1. CASE Broadcast
  <2>1. sent' = sent + 1 /\ UNCHANGED <<conn, seen>>
    BY <1>1 DEF Broadcast
  <2>2. F!Publish
    BY <2>1 DEF F!Publish
  <2> QED BY <2>2 DEF F!FanoutNext
<1>2. ASSUME NEW c \in Clients, ServeWS(c)
      PROVE  F!FanoutNext
  <2>1. /\ conn[c] = "none" /\ conn' = [conn EXCEPT ![c] = "open"]
        /\ seen' = [seen EXCEPT ![c] = sent] /\ sent' = sent
    BY <1>2 DEF ServeWS
  <2>2. c \notin joined /\ joined' = joined \cup {c}
    BY <2>1 DEF Life, TypeOK
  <2>3. F!Connect(c)
    BY <2>1, <2>2 DEF F!Connect
  <2> QED BY <2>3 DEF F!FanoutNext
<1>3. ASSUME NEW c \in Clients, WriteSucceeds(c)
      PROVE  F!FanoutNext \/ UNCHANGED F!fvars
  <2>1. sent' = sent /\ conn' = conn /\ writer[c] = "write"
    BY <1>3 DEF WriteSucceeds
  <2>2. CASE conn[c] = "open"
    <3>1. seen' = [seen EXCEPT ![c] = held[c]]
      BY <1>3, <2>2 DEF WriteSucceeds
    <3>2. seen[c] \in Nat /\ held[c] \in Nat /\ sent \in Nat /\ seen[c] < held[c] /\ held[c] <= sent
      BY <2>1 DEF Orderly, OnItsWay, Life, TypeOK
    <3>3. held[c] \in (seen[c] + 1)..sent
      BY <3>2
    <3>4. F!Deliver(c)
      BY <2>1, <2>2, <3>1, <3>3 DEF F!Deliver
    <3> QED BY <3>4 DEF F!FanoutNext
  <2>3. CASE conn[c] # "open"
    <3>1. seen' = seen
      BY <1>3, <2>3 DEF WriteSucceeds, Life, TypeOK
    <3> QED BY <2>1, <3>1 DEF F!fvars
  <2> QED BY <2>2, <2>3
<1>4. ASSUME NEW c \in Clients,
             \/ Send(c) \/ PeerGone(c) \/ ReadPump(c)
             \/ Receive(c) \/ WriteFails(c) \/ PingFails(c)
             \/ ChannelClosed(c) \/ WriterCloses(c)
      PROVE  UNCHANGED F!fvars
  <2>1. sent' = sent /\ seen' = seen
    BY <1>4 DEF Send, PeerGone, ReadPump, ReadFails, Remove, ReaderCloses,
                Receive, WriteFails, PingFails, ChannelClosed, WriterCloses
  <2>2. \A d \in Clients : (conn'[d] = "none") <=> (conn[d] = "none")
    <3>1. CASE Send(c) \/ Receive(c) \/ WriteFails(c) \/ PingFails(c) \/ ChannelClosed(c)
      BY <3>1 DEF Send, Receive, WriteFails, PingFails, ChannelClosed
    <3>2. CASE PeerGone(c) \/ ReadPump(c)
      BY <3>2 DEF PeerGone, ReadPump, ReadFails, Remove, ReaderCloses, Life, TypeOK, Fresh
    <3>3. CASE WriterCloses(c)
      BY <3>3 DEF WriterCloses, Life, TypeOK, Fresh
    <3> QED BY <1>4, <3>1, <3>2, <3>3
  <2> QED BY <1>0, <2>1, <2>2 DEF F!fvars
<1>5. CASE UNCHANGED vars
  BY <1>5 DEF vars, F!fvars
<1> QED BY <1>1, <1>2, <1>3, <1>4, <1>5 DEF Next, WritePump

\* The hub implements the lossy, ordered fan-out: a dashboard is shown
\* snapshots published after it connected, each at most once and in order.
THEOREM HubImplementsFanout == Spec => ImplementsFanout
<1>1. Init => Life /\ Orderly
  <2>1. Init => Life
    BY InitTyped DEF Init, Life, Fresh, Registered
  <2>2. ASSUME Init, NEW c \in Clients
        PROVE  InOrder(c) /\ OnItsWay(c) /\ Due(c)
    <3>1. seen[c] = 0 /\ sent = 0 /\ writer[c] = "off" /\ c \notin todo /\ Len(send[c]) = 0
      BY <2>2 DEF Init
    <3> QED BY <3>1 DEF InOrder, OnItsWay, Due
  <2> QED BY <2>1, <2>2 DEF Orderly
<1>2. Life /\ Orderly /\ [Next]_vars => (Life /\ Orderly)'
  BY StepLife, StepOrderly
<1>3. Init => F!FanoutInit
  BY DEF Init, F!FanoutInit
<1>4. Life /\ Orderly /\ [Next]_vars => [F!FanoutNext]_(F!fvars)
  BY StepRefines
<1> QED BY <1>1, <1>2, <1>3, <1>4, PTL DEF Spec, ImplementsFanout, F!FanoutSpec
=============================================================================
