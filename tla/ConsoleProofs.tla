---------------------------- MODULE ConsoleProofs ----------------------------
(***************************************************************************)
(* For any number of hooks, requests and writes: Fetch implements Latest;  *)
(* the pages with Fetch's hooks implement the pages with Latest's; none    *)
(* goes back to an older state of what it shows.                           *)
(* On each of the seventeen pages, for any number of writes, a form saves  *)
(* to what its fields were filled from, and once.                          *)
(***************************************************************************)
EXTENDS Pages, TLAPS, FiniteSetTheorems

\* Of a hook's effects only the last may be alive.
LastAlive == \A h \in Hooks : alive[h] \subseteq {runs[h]}

\* Every message is of a run that was, and is the only one of its run.
OneMessage ==
  /\ \A m \in wire : m.run <= runs[m.hook]
  /\ \A m, n \in wire : m.hook = n.hook /\ m.run = n.run => m = n

\* A message that counts is the newest request's, as it was asked or as the
\* server has been since.
Counts(m) ==
  /\ asked[m.hook] # None
  /\ m.key = asked[m.hook].key
  /\ m.got.ok => asked[m.hook].rev <= m.got.rev /\ m.got.rev <= rev[m.hook]

LiveCounts == \A m \in wire : m.run \in alive[m.hook] => Counts(m)

\* What a page shows is no newer than the newest request, or the server.
InOrder ==
  \A h \in Hooks :
    /\ asked[h] # None => asked[h].rev <= rev[h]
    /\ state[h].data # None =>
         /\ state[h].data.rev <= rev[h]
         /\ asked[h] # None => state[h].data.rev <= asked[h].rev

IInv == TypeOK /\ LastAlive /\ OneMessage /\ LiveCounts /\ InOrder

-----------------------------------------------------------------------------
LEMMA NoneIsNothing == None \notin Asks
BY NoneAssumption DEF Asks

LEMMA StateTypes ==
  ASSUME NEW k \in Keys, NEW r \in Nat, NEW s \in States
  PROVE  /\ L!Holding(k, r) \in States
         /\ L!Failed \in States
         /\ L!Fresh \in States
         /\ L!Off \in States
         /\ L!Waiting(s) \in States
         /\ L!Holding(k, r).data = [key |-> k, rev |-> r]
         /\ L!Failed.data = None
         /\ L!Fresh.data = None
         /\ L!Off.data = None
         /\ L!Waiting(s).data = s.data
BY DEF L!Holding, L!Failed, L!Fresh, L!Off, L!Waiting, States, Asks

LEMMA Init_IInv == Init => IInv
<1> SUFFICES ASSUME Init PROVE IInv
  OBVIOUS
<1>1. PICK H \in SUBSET Hooks : L!InitOn(H)
  BY DEF Init, L!Init
<1>2. L!Fresh \in States /\ L!Off \in States /\ L!Fresh.data = None /\ L!Off.data = None
  BY DEF L!Fresh, L!Off, States, Asks
<1>3. TypeOK
  BY <1>1, <1>2 DEF Init, NetInit, L!InitOn, TypeOK
<1>4. LastAlive /\ OneMessage /\ LiveCounts
  BY DEF Init, NetInit, LastAlive, OneMessage, LiveCounts
<1>5. InOrder
  BY <1>1, <1>2 DEF L!InitOn, InOrder
<1> QED
  BY <1>3, <1>4, <1>5 DEF IInv
-----------------------------------------------------------------------------
\* A new run kills the one before it, and asks for what the hook wants now.
LEMMA RunEffect_IInv ==
  ASSUME IInv, NEW h \in Hooks, RunEffect(h)
  PROVE  IInv'
<1> DEFINE new == Request(h, runs'[h], key[h])
<1>1. /\ TypeOK /\ LastAlive /\ OneMessage /\ LiveCounts /\ InOrder
  BY DEF IInv
<1>2. /\ runs' = [runs EXCEPT ![h] = @ + 1]
      /\ alive' = [alive EXCEPT ![h] = {runs'[h]}]
      /\ wire' = wire \cup {new}
      /\ due' = [due EXCEPT ![h] = FALSE]
      /\ asked' = [asked EXCEPT ![h] = [key |-> key[h], rev |-> rev[h]]]
      /\ state' = [state EXCEPT ![h] = L!Waiting(@)]
      /\ rev' = rev /\ key' = key
  BY DEF RunEffect
<1>3. /\ runs[h] \in Nat /\ runs'[h] = runs[h] + 1 /\ alive'[h] = {runs'[h]}
      /\ key[h] \in Keys /\ rev[h] \in Nat /\ state[h] \in States
      /\ asked'[h] = [key |-> key[h], rev |-> rev[h]]
      /\ asked'[h] \in Asks
      /\ state'[h] = L!Waiting(state[h])
  BY <1>1, <1>2 DEF TypeOK, Asks
<1>4. \A g \in Hooks \ {h} :
         /\ runs'[g] = runs[g] /\ alive'[g] = alive[g]
         /\ asked'[g] = asked[g] /\ state'[g] = state[g]
  BY <1>1, <1>2 DEF TypeOK
<1>5. L!Waiting(state[h]) \in States /\ L!Waiting(state[h]).data = state[h].data
  BY <1>3, StateTypes
<1>6. new = [hook |-> h, run |-> runs'[h], key |-> key[h], got |-> Pending] /\ new \in Messages
  BY <1>3 DEF Request, Messages, Answers, Pending
<1>7. TypeOK'
  <2>1. asked' \in [Hooks -> Asks \cup {None}] /\ state' \in [Hooks -> States]
    BY <1>1, <1>2, <1>3, <1>5 DEF TypeOK
  <2>2. runs' \in [Hooks -> Nat] /\ alive' \in [Hooks -> SUBSET Nat]
    BY <1>1, <1>2, <1>3 DEF TypeOK
  <2>3. wire' \subseteq Messages
    BY <1>1, <1>2, <1>6 DEF TypeOK
  <2>4. rev' \in [Hooks -> Nat] /\ key' \in [Hooks -> Keys] /\ due' \in [Hooks -> BOOLEAN]
    BY <1>1, <1>2 DEF TypeOK
  <2> QED
    BY <2>1, <2>2, <2>3, <2>4 DEF TypeOK
<1>8. LastAlive'
  BY <1>1, <1>3, <1>4 DEF LastAlive
<1>9. \A m \in wire : m.hook \in Hooks /\ m.run \in Nat /\ m.run <= runs[m.hook]
  BY <1>1 DEF TypeOK, Messages, OneMessage
<1>10. OneMessage'
  <2>1. \A m \in wire : m.run <= runs'[m.hook] /\ ~(m.hook = h /\ m.run = runs'[h])
    <3> SUFFICES ASSUME NEW m \in wire
                 PROVE  m.run <= runs'[m.hook] /\ ~(m.hook = h /\ m.run = runs'[h])
      OBVIOUS
    <3>1. CASE m.hook = h
      BY <3>1, <1>3, <1>9
    <3>2. CASE m.hook # h
      BY <3>2, <1>4, <1>9
    <3> QED
      BY <3>1, <3>2
  <2>2. new.run <= runs'[new.hook]
    BY <1>3, <1>6
  <2>3. \A m \in wire : ~(m.hook = new.hook /\ m.run = new.run)
    BY <2>1, <1>6
  <2>4. \A m, n \in wire : m.hook = n.hook /\ m.run = n.run => m = n
    BY <1>1 DEF OneMessage
  <2>5. \A m, n \in wire' : m.hook = n.hook /\ m.run = n.run => m = n
    BY <2>3, <2>4, <1>2
  <2>6. \A m \in wire' : m.run <= runs'[m.hook]
    BY <2>1, <2>2, <1>2
  <2> QED
    BY <2>5, <2>6 DEF OneMessage
<1>11. LiveCounts'
  <2> SUFFICES ASSUME NEW m \in wire', m.run \in alive'[m.hook]
               PROVE  Counts(m)'
    BY DEF LiveCounts
  <2>1. CASE m = new
    <3>1. m.hook = h /\ m.key = key[h] /\ ~m.got.ok
      BY <2>1, <1>6 DEF Pending
    <3>2. asked'[h] # None /\ asked'[h].key = key[h]
      BY <1>3, NoneIsNothing
    <3> QED
      BY <3>1, <3>2 DEF Counts
  <2>2. CASE m # new
    <3>1. m \in wire
      BY <2>2, <1>2
    <3>2. m.hook # h
      BY <3>1, <1>3, <1>9
    <3>3. m.hook \in Hooks \ {h}
      BY <3>1, <3>2, <1>9
    <3>4. Counts(m)
      BY <3>1, <3>3, <1>1, <1>4 DEF LiveCounts
    <3> QED
      BY <3>3, <3>4, <1>2, <1>4 DEF Counts
  <2> QED
    BY <2>1, <2>2
<1>12. InOrder'
  <2> SUFFICES ASSUME NEW g \in Hooks
               PROVE  /\ asked'[g] # None => asked'[g].rev <= rev[g]
                      /\ state'[g].data # None =>
                           /\ state'[g].data.rev <= rev[g]
                           /\ asked'[g] # None => state'[g].data.rev <= asked'[g].rev
    BY <1>2 DEF InOrder
  <2>1. CASE g = h
    BY <2>1, <1>1, <1>3, <1>5 DEF InOrder
  <2>2. CASE g # h
    BY <2>2, <1>1, <1>4 DEF InOrder
  <2> QED
    BY <2>1, <2>2
<1> QED
  BY <1>7, <1>8, <1>10, <1>11, <1>12 DEF IInv

\* The server's answer is as new as the server is.
LEMMA Serve_IInv ==
  ASSUME IInv, NEW m \in wire, Serve(m)
  PROVE  IInv'
<1>1. /\ TypeOK /\ LastAlive /\ OneMessage /\ LiveCounts /\ InOrder
  BY DEF IInv
<1>2. PICK got \in {Rows(rev[m.hook]), Refused} :
        wire' = (wire \ {m}) \cup {[m EXCEPT !.got = got]}
  BY DEF Serve
<1>3. /\ rev' = rev /\ key' = key /\ due' = due /\ asked' = asked
      /\ state' = state /\ runs' = runs /\ alive' = alive
  BY DEF Serve
<1>4. m \in Messages
  BY <1>1 DEF TypeOK
<1>5. m.hook \in Hooks /\ m.run \in Nat /\ m.key \in Keys /\ rev[m.hook] \in Nat
  BY <1>1, <1>4 DEF Messages, TypeOK
<1>6. got \in Answers /\ (got.ok => got.rev = rev[m.hook])
  <2>1. CASE got = [ok |-> TRUE, rev |-> rev[m.hook]]
    BY <2>1, <1>5 DEF Answers
  <2>2. CASE got = [ok |-> FALSE, rev |-> 1]
    BY <2>2 DEF Answers
  <2> QED
    BY <2>1, <2>2, <1>2 DEF Rows, Refused
<1> DEFINE rec == [hook |-> m.hook, run |-> m.run, key |-> m.key, got |-> got]
<1>7. PICK ans \in Messages :
        /\ wire' = (wire \ {m}) \cup {ans}
        /\ ans.hook = m.hook /\ ans.run = m.run /\ ans.key = m.key /\ ans.got = got
  <2>1. [m EXCEPT !.got = got] = rec
    BY <1>4 DEF Messages
  <2>2. wire' = (wire \ {m}) \cup {rec}
    BY <1>2, <2>1
  <2>3. rec \in Messages
    BY <1>5, <1>6 DEF Messages
  <2> HIDE DEF rec
  <2>4. rec.hook = m.hook /\ rec.run = m.run /\ rec.key = m.key /\ rec.got = got
    BY DEF rec
  <2> QED
    BY <2>2, <2>3, <2>4
<1>8. TypeOK'
  <2>1. wire' \subseteq Messages
    BY <1>1, <1>7 DEF TypeOK
  <2> QED
    BY <1>1, <1>3, <2>1 DEF TypeOK
<1>9. LastAlive' /\ InOrder'
  BY <1>1, <1>3 DEF LastAlive, InOrder
<1>10. OneMessage'
  <2>1. \A n \in wire' : n.run <= runs[n.hook]
    BY <1>1, <1>7 DEF OneMessage
  <2>2. \A n \in wire \ {m} : ~(n.hook = m.hook /\ n.run = m.run)
    BY <1>1 DEF OneMessage
  <2>3. \A n, o \in wire \ {m} : n.hook = o.hook /\ n.run = o.run => n = o
    BY <1>1 DEF OneMessage
  <2>4. \A n, o \in wire' : n.hook = o.hook /\ n.run = o.run => n = o
    BY <2>2, <2>3, <1>7
  <2> QED
    BY <2>1, <2>4, <1>3 DEF OneMessage
<1>11. LiveCounts'
  <2> SUFFICES ASSUME NEW n \in wire', n.run \in alive[n.hook]
               PROVE  Counts(n)
    BY <1>3 DEF LiveCounts, Counts
  <2>1. CASE n \in wire
    BY <2>1, <1>1 DEF LiveCounts
  <2>2. CASE n = ans
    <3>1. Counts(m)
      BY <2>2, <1>7, <1>1 DEF LiveCounts
    <3>2. asked[m.hook] # None => asked[m.hook].rev <= rev[m.hook]
      BY <1>1, <1>5 DEF InOrder
    <3> QED
      BY <3>1, <3>2, <2>2, <1>5, <1>6, <1>7 DEF Counts
  <2> QED
    BY <2>1, <2>2, <1>7
<1> QED
  BY <1>8, <1>9, <1>10, <1>11 DEF IInv

\* What a delivery that counts does to its hook, and one that does not.
LEMMA Delivered ==
  ASSUME IInv, NEW m \in wire, Deliver(m)
  PROVE  /\ m \in Messages /\ m.hook \in Hooks /\ m.key \in Keys
         /\ wire' = wire \ {m}
         /\ rev' = rev /\ key' = key /\ due' = due /\ runs' = runs /\ alive' = alive
         /\ \/ /\ m.run \notin alive[m.hook]
               /\ state' = state /\ asked' = asked
            \/ /\ m.run \in alive[m.hook]
               /\ Counts(m)
               /\ asked' = [asked EXCEPT ![m.hook] = None]
               /\ m.got.ok
               /\ m.got.rev \in Nat
               /\ state' = [state EXCEPT ![m.hook] = L!Holding(m.key, m.got.rev)]
            \/ /\ m.run \in alive[m.hook]
               /\ Counts(m)
               /\ asked' = [asked EXCEPT ![m.hook] = None]
               /\ state' = [state EXCEPT ![m.hook] = L!Failed]
<1>1. m \in Messages
  BY DEF IInv, TypeOK
<1>2. m.hook \in Hooks /\ m.key \in Keys /\ m.got.rev \in Nat
  BY <1>1 DEF Messages, Answers
<1>3. m.run \in alive[m.hook] => Counts(m)
  BY DEF IInv, LiveCounts
<1>4. /\ wire' = wire \ {m}
      /\ rev' = rev /\ key' = key /\ due' = due /\ runs' = runs /\ alive' = alive
  BY DEF Deliver
<1>5. CASE m.run \notin alive[m.hook]
  BY <1>1, <1>2, <1>4, <1>5 DEF Deliver
<1>6. CASE m.run \in alive[m.hook] /\ m.got.ok
  BY <1>1, <1>2, <1>3, <1>4, <1>6 DEF Deliver
<1>7. CASE m.run \in alive[m.hook] /\ ~m.got.ok
  BY <1>1, <1>2, <1>3, <1>4, <1>7 DEF Deliver
<1> QED
  BY <1>5, <1>6, <1>7

LEMMA Deliver_IInv ==
  ASSUME IInv, NEW m \in wire, Deliver(m)
  PROVE  IInv'
<1>1. /\ TypeOK /\ LastAlive /\ OneMessage /\ LiveCounts /\ InOrder
  BY DEF IInv
<1> DEFINE h == m.hook
<1>2. /\ m \in Messages /\ h \in Hooks /\ m.key \in Keys /\ wire' = wire \ {m}
      /\ rev' = rev /\ key' = key /\ due' = due /\ runs' = runs /\ alive' = alive
  BY Delivered
<1>3. LastAlive' /\ OneMessage'
  BY <1>1, <1>2 DEF LastAlive, OneMessage
<1>4. CASE m.run \notin alive[h]
  <2>1. state' = state /\ asked' = asked
    BY <1>4, Delivered
  <2>2. TypeOK'
    BY <2>1, <1>1, <1>2 DEF TypeOK
  <2>3. LiveCounts' /\ InOrder'
    BY <2>1, <1>1, <1>2 DEF LiveCounts, InOrder, Counts
  <2> QED
    BY <2>2, <2>3, <1>3 DEF IInv
<1>5. CASE m.run \in alive[h]
  <2>1. asked' = [asked EXCEPT ![h] = None] /\ Counts(m)
    BY <1>5, Delivered
  <2>2. PICK s \in States :
          /\ state' = [state EXCEPT ![h] = s]
          /\ s.data # None => s.data.rev <= rev[h]
    <3>1. CASE state' = [state EXCEPT ![h] = L!Failed]
      <4>1. L!Failed \in States /\ L!Failed.data = None
        BY DEF L!Failed, States
      <4> QED
        BY <3>1, <4>1
    <3>2. CASE /\ m.got.ok /\ m.got.rev \in Nat
               /\ state' = [state EXCEPT ![h] = L!Holding(m.key, m.got.rev)]
      <4>1. L!Holding(m.key, m.got.rev) \in States
        BY <1>2, <3>2 DEF L!Holding, States, Asks
      <4>2. L!Holding(m.key, m.got.rev).data.rev <= rev[h]
        BY <2>1, <3>2 DEF Counts, L!Holding
      <4> QED
        BY <3>2, <4>1, <4>2
    <3> QED
      BY <3>1, <3>2, <1>5, Delivered
  <2>3. asked'[h] = None /\ state'[h] = s
    BY <1>1, <1>2, <2>1, <2>2 DEF TypeOK
  <2>4. \A g \in Hooks \ {h} : asked'[g] = asked[g] /\ state'[g] = state[g]
    BY <1>1, <2>1, <2>2 DEF TypeOK
  <2>5. TypeOK'
    <3>1. asked' \in [Hooks -> Asks \cup {None}] /\ state' \in [Hooks -> States]
      BY <1>1, <2>1, <2>2 DEF TypeOK
    <3> QED
      BY <3>1, <1>1, <1>2 DEF TypeOK
  <2>6. LiveCounts'
    <3> SUFFICES ASSUME NEW n \in wire', n.run \in alive[n.hook]
                 PROVE  Counts(n)'
      BY <1>2 DEF LiveCounts
    <3>1. n \in wire /\ n # m /\ n \in Messages
      BY <1>1, <1>2 DEF TypeOK
    <3>2. n.hook \in Hooks
      BY <3>1 DEF Messages
    <3>3. n.hook # h
      <4> SUFFICES ASSUME n.hook = h PROVE FALSE
        OBVIOUS
      <4>1. n.run = runs[h] /\ m.run = runs[h]
        BY <1>1, <1>2, <1>5 DEF LastAlive
      <4> QED
        BY <4>1, <3>1, <1>1 DEF OneMessage
    <3>4. Counts(n)
      BY <3>1, <1>1 DEF LiveCounts
    <3> QED
      BY <3>2, <3>3, <3>4, <2>4, <1>2 DEF Counts
  <2>7. InOrder'
    <3> SUFFICES ASSUME NEW g \in Hooks
                 PROVE  /\ asked'[g] # None => asked'[g].rev <= rev[g]
                        /\ state'[g].data # None =>
                             /\ state'[g].data.rev <= rev[g]
                             /\ asked'[g] # None => state'[g].data.rev <= asked'[g].rev
      BY <1>2 DEF InOrder
    <3>1. CASE g = h
      BY <3>1, <2>2, <2>3
    <3>2. CASE g # h
      BY <3>2, <2>4, <1>1 DEF InOrder
    <3> QED
      BY <3>1, <3>2
  <2> QED
    BY <2>5, <2>6, <2>7, <1>3 DEF IInv
<1> QED
  BY <1>4, <1>5

LEMMA Reload_IInv ==
  ASSUME IInv, NEW H \in SUBSET Hooks, Reload(H)
  PROVE  IInv'
<1>1. /\ due' = [h \in Hooks |-> h \in H \/ due[h]]
      /\ rev' = rev /\ key' = key /\ asked' = asked /\ state' = state
      /\ runs' = runs /\ alive' = alive /\ wire' = wire
  BY DEF Reload, L!Reload, net
<1>2. due' \in [Hooks -> BOOLEAN]
  BY <1>1 DEF IInv, TypeOK
<1> QED
  BY <1>1, <1>2 DEF IInv, TypeOK, LastAlive, OneMessage, LiveCounts, Counts, InOrder

LEMMA Navigate_IInv ==
  ASSUME IInv, NEW h \in Hooks, NEW k \in Keys, Navigate(h, k)
  PROVE  IInv'
<1>1. /\ key' = [key EXCEPT ![h] = k] /\ due' = [due EXCEPT ![h] = TRUE]
      /\ rev' = rev /\ asked' = asked /\ state' = state
      /\ runs' = runs /\ alive' = alive /\ wire' = wire
  BY DEF Navigate, L!Navigate, net
<1>2. due' \in [Hooks -> BOOLEAN] /\ key' \in [Hooks -> Keys]
  BY <1>1 DEF IInv, TypeOK
<1> QED
  BY <1>1, <1>2 DEF IInv, TypeOK, LastAlive, OneMessage, LiveCounts, Counts, InOrder

\* The server only grows newer than what was asked and shown.
LEMMA Write_IInv ==
  ASSUME IInv, NEW H \in SUBSET Hooks, Write(H)
  PROVE  IInv'
<1>1. /\ TypeOK /\ LastAlive /\ OneMessage /\ LiveCounts /\ InOrder
  BY DEF IInv
<1>2. /\ rev' = [h \in Hooks |-> IF h \in H THEN rev[h] + 1 ELSE rev[h]]
      /\ key' = key /\ due' = due /\ asked' = asked /\ state' = state
      /\ runs' = runs /\ alive' = alive /\ wire' = wire
  BY DEF Write, L!Write, net
<1>3. \A h \in Hooks : rev[h] \in Nat /\ rev'[h] \in Nat /\ rev[h] <= rev'[h]
  BY <1>1, <1>2 DEF TypeOK
<1>4. TypeOK'
  <2>1. rev' \in [Hooks -> Nat]
    BY <1>2, <1>3
  <2> QED
    BY <2>1, <1>1, <1>2 DEF TypeOK
<1>5. LastAlive' /\ OneMessage'
  BY <1>1, <1>2 DEF LastAlive, OneMessage
<1>6. LiveCounts'
  <2> SUFFICES ASSUME NEW m \in wire, m.run \in alive[m.hook]
               PROVE  Counts(m)'
    BY <1>2 DEF LiveCounts
  <2>1. Counts(m)
    BY <1>1 DEF LiveCounts
  <2>2. m.hook \in Hooks /\ m.got.rev \in Nat /\ m.got.ok \in BOOLEAN
    BY <1>1 DEF TypeOK, Messages, Answers
  <2>3. rev[m.hook] \in Nat /\ rev'[m.hook] \in Nat /\ rev[m.hook] <= rev'[m.hook]
    BY <2>2, <1>3
  <2>4. m.got.ok => m.got.rev <= rev'[m.hook]
    BY <2>1, <2>2, <2>3 DEF Counts
  <2> QED
    BY <2>1, <2>4, <1>2 DEF Counts
<1>7. InOrder'
  <2> SUFFICES ASSUME NEW h \in Hooks
               PROVE  /\ asked[h] # None => asked[h].rev <= rev'[h]
                      /\ state[h].data # None =>
                           /\ state[h].data.rev <= rev'[h]
                           /\ asked[h] # None => state[h].data.rev <= asked[h].rev
    BY <1>2 DEF InOrder
  <2>1. rev[h] \in Nat /\ rev'[h] \in Nat /\ rev[h] <= rev'[h]
    BY <1>3
  <2>2. asked[h] # None => asked[h].rev \in Nat /\ asked[h].rev <= rev[h]
    BY <1>1 DEF TypeOK, Asks, InOrder
  <2>3. state[h].data # None => state[h].data.rev \in Nat /\ state[h].data.rev <= rev[h]
    <3>1. state[h].data \in Asks \cup {None}
      BY <1>1 DEF TypeOK, States
    <3> QED
      BY <3>1, <1>1 DEF Asks, InOrder
  <2> QED
    BY <2>1, <2>2, <2>3, <1>1 DEF InOrder
<1> QED
  BY <1>4, <1>5, <1>6, <1>7 DEF IInv

\* A page that is left kills its runs, and leaves their messages behind.
LEMMA Unmount_IInv ==
  ASSUME IInv, NEW H \in SUBSET Hooks, Unmount(H)
  PROVE  IInv'
<1>1. /\ TypeOK /\ LastAlive /\ OneMessage /\ LiveCounts /\ InOrder
  BY DEF IInv
<1>2. /\ due' = [h \in Hooks |-> h \notin H /\ due[h]]
      /\ asked' = [h \in Hooks |-> IF h \in H THEN None ELSE asked[h]]
      /\ state' = [h \in Hooks |-> IF h \in H THEN L!Off ELSE state[h]]
      /\ alive' = [h \in Hooks |-> IF h \in H THEN {} ELSE alive[h]]
      /\ rev' = rev /\ key' = key /\ runs' = runs /\ wire' = wire
  BY DEF Unmount, L!Unmount
<1>3. L!Off \in States /\ L!Off.data = None
  BY DEF L!Off, States
<1>4. TypeOK'
  <2>1. due' \in [Hooks -> BOOLEAN] /\ asked' \in [Hooks -> Asks \cup {None}]
    BY <1>1, <1>2 DEF TypeOK
  <2>2. state' \in [Hooks -> States] /\ alive' \in [Hooks -> SUBSET Nat]
    BY <1>1, <1>2, <1>3 DEF TypeOK
  <2> QED
    BY <2>1, <2>2, <1>1, <1>2 DEF TypeOK
<1>5. LastAlive' /\ OneMessage'
  BY <1>1, <1>2 DEF LastAlive, OneMessage
<1>6. LiveCounts'
  <2> SUFFICES ASSUME NEW m \in wire, m.run \in alive'[m.hook]
               PROVE  Counts(m)'
    BY <1>2 DEF LiveCounts
  <2>1. m.hook \in Hooks
    BY <1>1 DEF TypeOK, Messages
  <2>2. m.hook \notin H /\ m.run \in alive[m.hook]
    BY <2>1, <1>2
  <2> QED
    BY <2>1, <2>2, <1>1, <1>2 DEF LiveCounts, Counts
<1>7. InOrder'
  BY <1>1, <1>2, <1>3 DEF InOrder
<1> QED
  BY <1>4, <1>5, <1>6, <1>7 DEF IInv

LEMMA Mount_IInv ==
  ASSUME IInv, NEW H \in SUBSET Hooks, NEW k \in Keys, Mount(H, k)
  PROVE  IInv'
<1>1. /\ TypeOK /\ LastAlive /\ OneMessage /\ LiveCounts /\ InOrder
  BY DEF IInv
<1>2. /\ key' = [h \in Hooks |-> IF h \in H THEN k ELSE key[h]]
      /\ due' = [h \in Hooks |-> h \in H \/ due[h]]
      /\ state' = [h \in Hooks |-> IF h \in H THEN L!Fresh ELSE state[h]]
      /\ rev' = rev /\ asked' = asked /\ runs' = runs /\ alive' = alive /\ wire' = wire
  BY DEF Mount, L!Mount, net
<1>3. L!Fresh \in States /\ L!Fresh.data = None
  BY DEF L!Fresh, States
<1>4. TypeOK'
  <2>1. key' \in [Hooks -> Keys] /\ due' \in [Hooks -> BOOLEAN]
    BY <1>1, <1>2 DEF TypeOK
  <2>2. state' \in [Hooks -> States]
    BY <1>1, <1>2, <1>3 DEF TypeOK
  <2> QED
    BY <2>1, <2>2, <1>1, <1>2 DEF TypeOK
<1>5. LastAlive' /\ OneMessage' /\ LiveCounts'
  BY <1>1, <1>2 DEF LastAlive, OneMessage, LiveCounts, Counts
<1>6. InOrder'
  BY <1>1, <1>2, <1>3 DEF InOrder
<1> QED
  BY <1>4, <1>5, <1>6 DEF IInv

LEMMA Step_IInv ==
  ASSUME IInv, NEW h \in Hooks, Step(h)
  PROVE  IInv'
<1>1. CASE RunEffect(h)
  BY <1>1, RunEffect_IInv
<1>2. CASE \E m \in wire : m.hook = h /\ (Serve(m) \/ Deliver(m))
  BY <1>2, Serve_IInv, Deliver_IInv
<1>3. CASE Reload({h})
  BY <1>3, Reload_IInv
<1>4. CASE Unmount({h})
  BY <1>4, Unmount_IInv
<1>5. CASE Write({h})
  BY <1>5, Write_IInv
<1>6. CASE \E k \in Keys : Navigate(h, k) \/ Mount({h}, k)
  BY <1>6, Navigate_IInv, Mount_IInv
<1> QED
  BY <1>1, <1>2, <1>3, <1>4, <1>5, <1>6 DEF Step

LEMMA Next_IInv == IInv /\ [Next]_vars => IInv'
<1>1. ASSUME IInv, Next PROVE IInv'
  BY <1>1, Step_IInv DEF Next
<1>2. ASSUME IInv, UNCHANGED vars PROVE IInv'
  BY <1>2 DEF vars, IInv, TypeOK, LastAlive, OneMessage, LiveCounts, Counts, InOrder
<1> QED
  BY <1>1, <1>2

-----------------------------------------------------------------------------
\* Every step of a hook's network is one that Latest takes, or none of its business.
LEMMA Step_Latest ==
  ASSUME IInv, NEW h \in Hooks, Step(h)
  PROVE  L!Next \/ UNCHANGED hooks
<1>1. CASE RunEffect(h)
  BY <1>1 DEF RunEffect, L!Ask, L!Next
<1>2. ASSUME NEW m \in wire, Serve(m) PROVE UNCHANGED hooks
  BY <1>2 DEF Serve, hooks
<1>3. ASSUME NEW m \in wire, Deliver(m) PROVE L!Next \/ UNCHANGED hooks
  <2>1. /\ m.hook \in Hooks /\ rev' = rev /\ key' = key /\ due' = due
    BY <1>3, Delivered
  <2>2. CASE state' = state /\ asked' = asked
    BY <2>1, <2>2 DEF hooks
  <2>3. CASE /\ Counts(m)
             /\ asked' = [asked EXCEPT ![m.hook] = None]
             /\ m.got.ok /\ m.got.rev \in Nat
             /\ state' = [state EXCEPT ![m.hook] = L!Holding(m.key, m.got.rev)]
    <3>1. asked[m.hook] # None /\ m.key = asked[m.hook].key
      BY <2>3 DEF Counts
    <3>2. m.got.rev \in asked[m.hook].rev .. rev[m.hook]
      <4>1. asked[m.hook].rev \in Nat /\ rev[m.hook] \in Nat
        BY <2>1, <3>1 DEF IInv, TypeOK, Asks
      <4> QED
        BY <4>1, <2>3 DEF Counts
    <3>3. L!Show(m.hook)
      BY <2>1, <2>3, <3>1, <3>2 DEF L!Show
    <3> QED
      BY <2>1, <3>3 DEF L!Next
  <2>4. CASE /\ Counts(m)
             /\ asked' = [asked EXCEPT ![m.hook] = None]
             /\ state' = [state EXCEPT ![m.hook] = L!Failed]
    <3>1. L!Fail(m.hook)
      BY <2>1, <2>4 DEF L!Fail, Counts
    <3> QED
      BY <2>1, <3>1 DEF L!Next
  <2> QED
    BY <2>2, <2>3, <2>4, <1>3, Delivered
<1>4. CASE Reload({h})
  BY <1>4 DEF Reload, L!Next
<1>5. CASE Unmount({h})
  BY <1>5 DEF Unmount, L!Next
<1>6. CASE Write({h})
  BY <1>6 DEF Write, L!Next
<1>7. ASSUME NEW k \in Keys, Navigate(h, k) \/ Mount({h}, k) PROVE L!Next
  BY <1>7 DEF Navigate, Mount, L!Next
<1> QED
  BY <1>1, <1>2, <1>3, <1>4, <1>5, <1>6, <1>7 DEF Step

\* What NeverOlder says of a step.
Older(h) ==
  LET was == state[h].data  is == state'[h].data IN
  was # None /\ is # None /\ was.key = is.key /\ ~(was.rev <= is.rev)

LEMMA Step_NeverOlder ==
  ASSUME IInv, NEW g \in Hooks, Step(g), NEW h \in Hooks
  PROVE  ~Older(h)
<1>1. /\ state \in [Hooks -> States] /\ state[h] \in States
      /\ state[h].data \in Asks \cup {None}
      /\ state[h].data # None => state[h].data.rev \in Nat /\ state[h].data.rev <= state[h].data.rev
  BY DEF IInv, TypeOK, States, Asks
<1>2. ASSUME state'[h].data = state[h].data PROVE ~Older(h)
  BY <1>1, <1>2 DEF Older
<1>3. ASSUME state'[h].data = None \/ state[h].data = None PROVE ~Older(h)
  BY <1>3 DEF Older
<1>4. CASE RunEffect(g)
  <2>1. state'[h] \in {state[h], L!Waiting(state[h])}
    BY <1>1, <1>4 DEF RunEffect
  <2>2. L!Waiting(state[h]).data = state[h].data
    BY <1>1 DEF L!Waiting, States
  <2> QED
    BY <2>1, <2>2, <1>2
<1>5. ASSUME NEW m \in wire, Serve(m) PROVE ~Older(h)
  BY <1>5, <1>2 DEF Serve
<1>6. ASSUME NEW m \in wire, Deliver(m) PROVE ~Older(h)
  <2>1. CASE state' = state
    BY <2>1, <1>2
  <2>2. CASE state' = [state EXCEPT ![m.hook] = L!Failed]
    <3>1. L!Failed.data = None
      BY DEF L!Failed
    <3>2. state'[h] \in {state[h], L!Failed}
      BY <2>2, <1>1
    <3> QED
      BY <3>1, <3>2, <1>2, <1>3
  <2>3. CASE /\ Counts(m) /\ m.got.ok /\ m.got.rev \in Nat
             /\ state' = [state EXCEPT ![m.hook] = L!Holding(m.key, m.got.rev)]
    <3>1. CASE m.hook # h
      BY <3>1, <2>3, <1>1, <1>2
    <3>2. CASE m.hook = h /\ state[h].data # None
      <4>1. state'[h].data.rev = m.got.rev
        BY <2>3, <3>2, <1>1 DEF L!Holding
      <4>2. asked[h] # None /\ asked[h].rev <= m.got.rev
        BY <2>3, <3>2 DEF Counts
      <4>3. asked[h].rev \in Nat
        BY <4>2 DEF IInv, TypeOK, Asks
      <4>4. state[h].data.rev <= asked[h].rev
        BY <3>2, <4>2 DEF IInv, InOrder
      <4>5. state[h].data.rev \in Nat
        BY <1>1, <3>2
      <4>6. state[h].data.rev <= state'[h].data.rev
        BY <4>1, <4>2, <4>3, <4>4, <4>5, <2>3
      <4> QED
        BY <4>6 DEF Older
    <3> QED
      BY <3>1, <3>2, <1>3
  <2> QED
    BY <2>1, <2>2, <2>3, <1>6, Delivered
<1>7. CASE Reload({g}) \/ Write({g}) \/ \E k \in Keys : Navigate(g, k)
  BY <1>7, <1>2 DEF Reload, L!Reload, Write, L!Write, Navigate, L!Navigate
<1>8. CASE Unmount({g})
  <2>1. L!Off.data = None
    BY DEF L!Off
  <2>2. state'[h] \in {state[h], L!Off}
    BY <1>8 DEF Unmount, L!Unmount
  <2> QED
    BY <2>1, <2>2, <1>2, <1>3
<1>9. ASSUME NEW k \in Keys, Mount({g}, k) PROVE ~Older(h)
  <2>1. L!Off.data = None
    BY DEF L!Off
  <2>2. g = h => state[h] = L!Off
    BY <1>9 DEF Mount, L!Mount, L!Mounted
  <2>3. g # h => state'[h] = state[h]
    BY <1>9 DEF Mount, L!Mount
  <2> QED
    BY <2>1, <2>2, <2>3, <1>2, <1>3
<1> QED
  BY <1>4, <1>5, <1>6, <1>7, <1>8, <1>9 DEF Step

-----------------------------------------------------------------------------
\* The invariant holds, and with it that every variable keeps its type
\* (useApi.ts:9-26).
THEOREM FetchTyped == Safety => []TypeOK
<1>1. IInv => TypeOK
  BY DEF IInv
<1> QED
  BY <1>1, Init_IInv, Next_IInv, PTL DEF Safety

\* For any number of hooks, requests on their way, reloads, changes of address
\* and writes: useResource shows what the server held between its newest
\* request and the answer, or that request's failure (useApi.ts:15-23).
THEOREM FetchImplementsLatest == Safety => ImplementsLatest
<1>1. Init => L!Init
  BY DEF Init
<1>2. IInv /\ [Next]_vars => [L!Next]_hooks
  <2>1. ASSUME IInv, Next PROVE L!Next \/ UNCHANGED hooks
    BY <2>1, Step_Latest DEF Next
  <2>2. ASSUME UNCHANGED vars PROVE UNCHANGED hooks
    BY <2>2 DEF vars, hooks
  <2> QED
    BY <2>1, <2>2
<1>3. hooks = L!hooks
  BY DEF hooks, L!hooks
<1>4. IInv /\ [Next]_vars => [L!Next]_(L!hooks)
  BY <1>2, <1>3 DEF hooks, L!hooks
<1> QED
  BY <1>1, <1>4, Init_IInv, Next_IInv, PTL DEF Safety, ImplementsLatest, L!Spec

\* A page never goes back to an older state of the thing it shows
\* (useApi.ts:16-21).
THEOREM FetchNeverOlder == Safety => NeverOlder
<1> DEFINE Newer == \A h \in Hooks :
       LET was == state[h].data  is == state'[h].data IN
       was # None /\ is # None /\ was.key = is.key => was.rev <= is.rev
<1>1. IInv /\ [Next]_vars => [Newer]_vars
  <2>1. ASSUME IInv, Next PROVE \A h \in Hooks : ~Older(h)
    BY <2>1, Step_NeverOlder DEF Next
  <2>2. (\A h \in Hooks : ~Older(h)) => Newer
    BY DEF Older
  <2> HIDE DEF Newer
  <2> QED
    BY <2>1, <2>2
<1> QED
  BY <1>1, Init_IInv, Next_IInv, PTL DEF Safety, NeverOlder

-----------------------------------------------------------------------------
\* A hook that loads is about to ask, or its newest run's message is on its way
\* (useApi.ts:15-23).
Awaits(h) == due[h] \/ \E m \in wire : m.hook = h /\ m.run \in alive[h]

LoadingAwaits == \A h \in Hooks : state[h].loading => Awaits(h)

LEMMA Step_Awaits ==
  ASSUME IInv, LoadingAwaits, NEW g \in Hooks, Step(g), NEW h \in Hooks, state'[h].loading
  PROVE  Awaits(h)'
<1>1. /\ TypeOK /\ state[h] \in States /\ (state[h].loading => Awaits(h))
      /\ \A m \in wire : m \in Messages
  BY DEF IInv, TypeOK, LoadingAwaits
<1>2. CASE RunEffect(g)
  <2>1. CASE g = h
    <3> DEFINE new == Request(h, runs'[h], key[h])
    <3>1. new \in wire' /\ new.hook = h /\ new.run = runs'[h] /\ alive'[h] = {runs'[h]}
      BY <1>1, <1>2, <2>1 DEF RunEffect, Request, TypeOK
    <3> HIDE DEF new
    <3> QED BY <3>1 DEF Awaits
  <2>2. CASE g # h
    <3>1. /\ state'[h] = state[h] /\ due'[h] = due[h] /\ alive'[h] = alive[h]
          /\ wire \subseteq wire'
      BY <1>1, <1>2, <2>2 DEF RunEffect, TypeOK
    <3> QED BY <1>1, <3>1 DEF Awaits
  <2> QED BY <2>1, <2>2
<1>3. ASSUME NEW n \in wire, Serve(n) PROVE Awaits(h)'
  <2>1. PICK got \in {Rows(rev[n.hook]), Refused} :
          wire' = (wire \ {n}) \cup {[n EXCEPT !.got = got]}
    BY <1>3 DEF Serve
  <2>2. [n EXCEPT !.got = got].hook = n.hook /\ [n EXCEPT !.got = got].run = n.run
    BY <1>1 DEF Messages
  <2>3. \A m \in wire : \E k \in wire' : k.hook = m.hook /\ k.run = m.run
    BY <2>1, <2>2
  <2>4. due' = due /\ alive' = alive /\ state' = state
    BY <1>3 DEF Serve
  <2> QED BY <1>1, <2>3, <2>4 DEF Awaits
<1>4. ASSUME NEW n \in wire, Deliver(n) PROVE Awaits(h)'
  <2>1. wire' = wire \ {n} /\ due' = due /\ alive' = alive
    BY <1>4 DEF Deliver
  <2>2. CASE n.hook = h /\ n.run \in alive[h]
    <3>1. state'[h] = L!Failed \/ \E r : state'[h] = L!Holding(n.key, r)
      BY <1>1, <1>4, <2>2 DEF Deliver, TypeOK
    <3>2. ~L!Failed.loading
      BY DEF L!Failed
    <3>3. \A r : ~L!Holding(n.key, r).loading
      BY DEF L!Holding
    <3> QED BY <3>1, <3>2, <3>3
  <2>3. CASE ~(n.hook = h /\ n.run \in alive[h])
    <3>1. state'[h] = state[h]
      BY <1>1, <1>4, <2>3 DEF Deliver, TypeOK
    <3> QED BY <1>1, <2>1, <2>3, <3>1 DEF Awaits
  <2> QED BY <2>2, <2>3
<1>5. ASSUME NEW H \in SUBSET Hooks, Reload(H) PROVE Awaits(h)'
  BY <1>1, <1>5 DEF Reload, L!Reload, net, Awaits
<1>6. ASSUME NEW H \in SUBSET Hooks, Unmount(H) PROVE Awaits(h)'
  <2>1. ~L!Off.loading
    BY DEF L!Off
  <2>2. h \notin H /\ state'[h] = state[h]
    BY <1>6, <2>1 DEF Unmount, L!Unmount
  <2> QED BY <1>1, <1>6, <2>2 DEF Unmount, L!Unmount, Awaits
<1>7. ASSUME NEW H \in SUBSET Hooks, Write(H) PROVE Awaits(h)'
  BY <1>1, <1>7 DEF Write, L!Write, net, Awaits
<1>8. ASSUME NEW k \in Keys, Navigate(g, k) PROVE Awaits(h)'
  BY <1>1, <1>8 DEF Navigate, L!Navigate, net, Awaits, TypeOK
<1>9. ASSUME NEW H \in SUBSET Hooks, NEW k \in Keys, Mount(H, k) PROVE Awaits(h)'
  BY <1>1, <1>9 DEF Mount, L!Mount, net, Awaits
<1> QED
  BY <1>2, <1>3, <1>4, <1>5, <1>6, <1>7, <1>8, <1>9 DEF Step

\* No reload, change of address, unmounting, late or failed answer leaves a hook
\* loading with nothing to wait for, which is what LoadingEnds rests on.
THEOREM FetchLoadingAwaits == Safety => []LoadingAwaits
<1>1. Init => LoadingAwaits
  <2>1. ~L!Off.loading
    BY DEF L!Off
  <2> QED BY <2>1 DEF Init, L!Init, L!InitOn, LoadingAwaits, Awaits
<1>2. IInv /\ LoadingAwaits /\ [Next]_vars => LoadingAwaits'
  <2>1. ASSUME IInv, LoadingAwaits, Next PROVE LoadingAwaits'
    BY <2>1, Step_Awaits DEF Next, LoadingAwaits
  <2>2. ASSUME LoadingAwaits, UNCHANGED vars PROVE LoadingAwaits'
    BY <2>2 DEF vars, LoadingAwaits, Awaits
  <2> QED BY <2>1, <2>2
<1> QED
  BY <1>1, <1>2, Init_IInv, Next_IInv, PTL DEF Safety

-----------------------------------------------------------------------------
\* The pages.  Their hooks stay typed and in order, and load what is asked.
HooksTyped ==
  /\ rev \in [Hooks -> Nat]
  /\ key \in [Hooks -> Keys]
  /\ due \in [Hooks -> BOOLEAN]
  /\ asked \in [Hooks -> Asks \cup {None}]
  /\ state \in [Hooks -> States]

Loads == \A h \in Hooks : asked[h] # None => state[h].loading

HooksOK == HooksTyped /\ InOrder /\ Loads

\* What a field, a form, a mounted form and a write may be.
Fields == Keys \cup {"blank"}
Forms == [op : AllOps, row : Keys \cup {None}]
Boxes == [from : Fields, busy : BOOLEAN, sent : SUBSET Jobs, calm : BOOLEAN]
Works == [pc : {"idle", "asked", "sent", "written", "refused", "done", "failed", "lost"},
          op : AllOps \cup {None}, form : BOOLEAN, calm : BOOLEAN,
          from : Fields \cup {None}, on : Fields \cup {None}, at : [Hooks -> Nat] \cup {None}]

FormOK(o) ==
  /\ o.op \in page.ops
  /\ o.op.via \in {"fill", "edit", "revise"}
  /\ o.op.via = "edit" => o.row \in Keys

PageTyped ==
  /\ page \in Pagebook /\ here \in BOOLEAN
  /\ open \in Forms \cup {None} /\ (open # None => FormOK(open))
  /\ box \in Boxes \cup {None}
  /\ jobs \in [Jobs -> Works]
  /\ dialog \in Jobs \cup {None}

\* A question is about a write that has not been sent.
Asking == dialog # None => jobs[dialog].pc = "asked"

\* A mounted form is open, on a page that shows its content.
Drawn == box # None => open # None /\ Content(state)

\* A calm form is about what its fields were filled from, and so is whatever its
\* page's data, and the request that is out, will be of.
SameThing ==
  box # None /\ box.calm =>
    /\ box.from = About(open, state)
    /\ page.gate = 1 => /\ state[1].data.key = key[1]
                        /\ asked[1] # None => asked[1].key = key[1]

\* Of what a mounted form has sent at most one write is under way; then the form
\* is busy and still open as what it sent; and it is busy only then.
Out(j) == jobs[j].pc \in {"sent", "written", "refused"}

SentOnce ==
  box # None =>
    /\ \A j \in box.sent :
         \/ Out(j) /\ box.busy /\ jobs[j].form /\ jobs[j].op = open.op
         \/ jobs[j].pc \in {"failed", "lost"}
    /\ \A i, j \in box.sent : Out(i) /\ Out(j) => i = j
    /\ box.busy => \E j \in box.sent : Out(j)

PageInv == HooksOK /\ PageTyped /\ Asking /\ Drawn /\ SameThing /\ SentOnce /\ OwnDraft

-----------------------------------------------------------------------------
\* Only a page that waits for its data has a form about it.
LEMMA PageFacts ==
  ASSUME NEW p \in Pagebook
  PROVE  /\ p.gate \in {0, 1}
         /\ \A op \in p.ops : op \in AllOps /\ (op.via = "revise" => p.gate = 1)
<1>1. p.gate = 1 \/ p = SettingsPage
  BY DEF Pagebook, Page, OverviewPage, TopologyPage, SitesPage, SiteDetailPage, TunnelsPage,
         TunnelDetailPage, GatewaysPage, CloudPage, UsersPage, UserDetailPage, SessionsPage,
         ResourcesPage, VaultPage, MonitoringPage, TeamPage, AnalyticsPage
<1>2. SettingsPage.gate = 0 /\ \A op \in SettingsPage.ops : op.via # "revise"
  BY DEF SettingsPage, MfaCard, WebhookCard, Op, Final
<1>3. \A op \in p.ops : op \in AllOps
  BY DEF AllOps
<1> QED BY <1>1, <1>2, <1>3

\* Whatever a page does to its hooks, Latest allows.
LEMMA PageStepHooks == [PageNext]_<<hooks, pvars>> => [L!Next]_hooks
<1> SUFFICES ASSUME PageNext PROVE L!Next \/ UNCHANGED hooks
  BY DEF hooks
<1>1. ASSUME NEW H \in SUBSET Hooks, L!Reload(H) \/ L!Unmount(H) \/ L!Write(H) PROVE L!Next
  BY <1>1 DEF L!Next
<1>2. \A H : L!Reload(H) => H \in SUBSET Hooks
  BY DEF L!Reload, L!Mounted
<1>3. PageHooks \in SUBSET Hooks
  BY DEF PageHooks
<1>4. ASSUME NEW h \in Hooks, HookAsks(h) \/ HookSettles(h) PROVE L!Next
  BY <1>4 DEF HookAsks, HookSettles, L!Next
<1>5. CASE Retry
  BY <1>1, <1>2, <1>5 DEF Retry
<1>6. CASE Leave
  BY <1>1, <1>3, <1>6 DEF Leave
<1>7. ASSUME NEW k \in Keys, GoTo(k) PROVE L!Next
  BY <1>7, HooksAssumption DEF GoTo, L!Next
<1>8. ASSUME NEW j \in Jobs, NEW op \in page.ops, Press(j, op) \/ Question(j, op)
      PROVE  UNCHANGED hooks
  BY <1>8 DEF Press, Question
<1>9. ASSUME NEW op \in page.ops, NEW row \in Keys \cup {None}, OpenForm(op, row)
      PROVE  UNCHANGED hooks
  BY <1>9 DEF OpenForm
<1>10. CASE Confirm \/ Cancel
  BY <1>10 DEF Confirm, Cancel
<1>11. ASSUME NEW row \in Keys, Reopen(row) PROVE UNCHANGED hooks
  BY <1>11 DEF Reopen
<1>12. ASSUME NEW j \in Jobs, Submit(j) \/ ServerRefuses(j) \/ Fault(j) PROVE UNCHANGED hooks
  BY <1>12 DEF Submit, ServerRefuses, Fault
<1>13. ASSUME NEW j \in Jobs, ServerWrites(j) PROVE L!Next
  BY <1>1, <1>13 DEF ServerWrites
<1>14. ASSUME NEW j \in Jobs, Succeed(j) PROVE L!Next
  BY <1>1, <1>2, <1>3, <1>14 DEF Succeed
<1> QED
  BY <1>4, <1>5, <1>6, <1>7, <1>8, <1>9, <1>10, <1>11, <1>12, <1>13, <1>14
  DEF PageNext, Act, Outcome

LEMMA WriteInOrder ==
  ASSUME HooksTyped, InOrder, NEW H \in SUBSET Hooks, L!Write(H)
  PROVE  InOrder'
<1> SUFFICES ASSUME NEW h \in Hooks
             PROVE  /\ asked[h] # None => asked[h].rev <= rev'[h]
                    /\ state[h].data # None =>
                         /\ state[h].data.rev <= rev'[h]
                         /\ asked[h] # None => state[h].data.rev <= asked[h].rev
  BY DEF L!Write, InOrder
<1>1. rev[h] \in Nat /\ rev'[h] \in Nat /\ rev[h] <= rev'[h]
  BY DEF L!Write, HooksTyped
<1>2. asked[h] # None => asked[h].rev \in Nat /\ asked[h].rev <= rev[h]
  BY DEF HooksTyped, Asks, InOrder
<1>3. state[h].data # None => state[h].data.rev \in Nat /\ state[h].data.rev <= rev[h]
  <2>1. state[h].data \in Asks \cup {None}
    BY DEF HooksTyped, States
  <2> QED BY <2>1 DEF Asks, InOrder
<1> QED BY <1>1, <1>2, <1>3 DEF InOrder

\* Latest by itself keeps its hooks typed, in order and loading.
LEMMA LatestStep ==
  ASSUME HooksOK, [L!Next]_hooks
  PROVE  HooksOK'
<1> USE DEF HooksOK, HooksTyped, InOrder, Loads
<1>0. CASE UNCHANGED hooks
  BY <1>0 DEF hooks
<1>1. ASSUME NEW h \in Hooks, L!Ask(h) PROVE HooksOK'
  <2>1. L!Waiting(state[h]) \in States /\ L!Waiting(state[h]).loading
        /\ L!Waiting(state[h]).data = state[h].data
    BY DEF L!Waiting, States
  <2>2. [key |-> key[h], rev |-> rev[h]] \in Asks
    BY DEF Asks
  <2> QED BY <1>1, <2>1, <2>2 DEF L!Ask
<1>2. ASSUME NEW h \in Hooks, L!Show(h) PROVE HooksOK'
  <2>1. asked[h] \in Asks
    BY <1>2 DEF L!Show
  <2>2. PICK r \in asked[h].rev .. rev[h] :
          state' = [state EXCEPT ![h] = L!Holding(asked[h].key, r)]
    BY <1>2 DEF L!Show
  <2>3. r \in Nat /\ asked[h].key \in Keys /\ r <= rev[h]
    BY <2>1 DEF Asks
  <2>4. /\ L!Holding(asked[h].key, r) \in States
        /\ L!Holding(asked[h].key, r).data = [key |-> asked[h].key, rev |-> r]
    BY <2>3 DEF L!Holding, States, Asks
  <2> QED BY <1>2, <2>2, <2>3, <2>4 DEF L!Show
<1>3. ASSUME NEW h \in Hooks, L!Fail(h) PROVE HooksOK'
  <2>1. L!Failed \in States /\ L!Failed.data = None
    BY DEF L!Failed, States
  <2> QED BY <1>3, <2>1 DEF L!Fail
<1>4. ASSUME NEW h \in Hooks, NEW k \in Keys, L!Navigate(h, k) PROVE HooksOK'
  BY <1>4 DEF L!Navigate
<1>5. ASSUME NEW H \in SUBSET Hooks, L!Reload(H) PROVE HooksOK'
  BY <1>5 DEF L!Reload
<1>6. ASSUME NEW H \in SUBSET Hooks, L!Unmount(H) PROVE HooksOK'
  <2>1. L!Off \in States /\ L!Off.data = None
    BY DEF L!Off, States
  <2> QED BY <1>6, <2>1 DEF L!Unmount
<1>7. ASSUME NEW H \in SUBSET Hooks, L!Write(H) PROVE HooksOK'
  <2> USE <1>7
  <2> HIDE DEF InOrder, HooksTyped, Loads
  <2>1. InOrder'
    BY WriteInOrder DEF HooksOK
  <2>2. HooksTyped' /\ Loads'
    BY DEF L!Write, HooksTyped, Loads
  <2> QED BY <2>1, <2>2
<1>8. ASSUME NEW H \in SUBSET Hooks, NEW k \in Keys, L!Mount(H, k) PROVE HooksOK'
  <2>1. L!Fresh \in States /\ L!Fresh.data = None /\ L!Fresh.loading
    BY DEF L!Fresh, States
  <2> QED BY <1>8, <2>1 DEF L!Mount
<1> QED
  BY <1>0, <1>1, <1>2, <1>3, <1>4, <1>5, <1>6, <1>7, <1>8 DEF L!Next

-----------------------------------------------------------------------------
\* What a render mounts.
LEMMA AboutField ==
  ASSUME PageTyped, NEW o \in Forms, FormOK(o), NEW s \in [Hooks -> States], Content(s)
  PROVE  About(o, s) \in Fields
<1>1. CASE o.op.via = "revise"
  <2>1. page.gate = 1
    BY <1>1, PageFacts DEF PageTyped, FormOK
  <2>2. s[1].data \in Asks
    BY <2>1, HooksAssumption DEF Content, States
  <2> QED BY <1>1, <2>2 DEF About, Asks, Fields
<1>2. CASE o.op.via # "revise"
  BY <1>2 DEF About, FormOK, Fields
<1> QED BY <1>1, <1>2

\* A mounted form stays as it is or is new; a new one is about what it shows, has
\* sent nothing, and is calm if the page has settled.
LEMMA DrawFacts ==
  ASSUME PageTyped, NEW o \in Forms \cup {None}, o # None => FormOK(o),
         NEW s \in [Hooks -> States], NEW k \in Keys,
         NEW b, b = Draw(box, o, s, k)
  PROVE  /\ b \in Boxes \cup {None}
         /\ b # None => o # None /\ o \in Forms /\ Content(s)
         /\ b # None /\ box # None => b = box
         /\ b # None /\ box = None =>
              /\ b.from = About(o, s) /\ b.sent = {} /\ ~b.busy
              /\ b.calm /\ page.gate = 1 => ~s[1].loading /\ s[1].data.key = k
<1>1. CASE o = None \/ ~Content(s)
  BY <1>1 DEF Draw
<1>2. CASE o # None /\ Content(s) /\ box # None
  BY <1>2 DEF Draw, PageTyped
<1>3. CASE o # None /\ Content(s) /\ box = None
  <2> DEFINE calm == page.gate = 1 => ~s[1].loading /\ s[1].data.key = k
  <2>1. b = [from |-> About(o, s), busy |-> FALSE, sent |-> {}, calm |-> calm]
    BY <1>3 DEF Draw, NewBox
  <2>2. About(o, s) \in Fields
    BY <1>3, AboutField
  <2>3. calm \in BOOLEAN
    OBVIOUS
  <2> HIDE DEF calm
  <2>4. b.calm = calm
    BY <2>1
  <2>5. b \in Boxes /\ b.from = About(o, s) /\ b.sent = {} /\ ~b.busy
    BY <2>1, <2>2, <2>3 DEF Boxes
  <2> QED BY <1>3, <2>4, <2>5 DEF calm
<1> QED BY <1>1, <1>2, <1>3

\* After a render the form is as the invariant has it, if it is the one that was
\* open, and the hooks show nothing but what was asked for.
LEMMA Redrawn ==
  ASSUME PageInv, HooksOK', page' = page, here' = here, key' = key, Redraw,
         open' \in Forms \cup {None}, open' # None => FormOK(open'),
         box # None /\ open' # None => open' = open,
         box # None /\ open' # None => \A j \in box.sent : jobs'[j] = jobs[j],
         asked'[1] # None => asked'[1] = asked[1],
         \/ state'[1].data = state[1].data
         \/ asked[1] # None /\ state'[1].data.key = asked[1].key
         \/ state'[1].data = None
  PROVE  box' \in Boxes \cup {None} /\ Drawn' /\ SameThing' /\ SentOnce'
<1>1. HooksOK /\ PageTyped /\ Drawn /\ SameThing /\ SentOnce
  BY DEF PageInv
<1>2. state' \in [Hooks -> States] /\ key[1] \in Keys /\ 1 \in Hooks
  BY <1>1, HooksAssumption DEF HooksOK, HooksTyped
<1>3. box' = Draw(box, open', state', key[1])
  BY DEF Redraw
<1>4. /\ box' \in Boxes \cup {None}
      /\ box' # None => open' # None /\ open' \in Forms /\ Content(state')
      /\ box' # None /\ box # None => box' = box
      /\ box' # None /\ box = None =>
           /\ box'.from = About(open', state') /\ box'.sent = {} /\ ~box'.busy
           /\ box'.calm /\ page.gate = 1 => ~state'[1].loading /\ state'[1].data.key = key[1]
  BY <1>1, <1>2, <1>3, DrawFacts
<1>5. Content(state)' = Content(state')
  BY DEF Content
<1>6. Drawn'
  BY <1>4, <1>5 DEF Drawn
<1>7. \A o : About(o, state)' = About(o, state')
  BY DEF About
<1>8. CASE box' = None
  BY <1>4, <1>6, <1>8 DEF SameThing, SentOnce
<1>9. CASE box' # None /\ box = None
  <2>1. SentOnce'
    BY <1>4, <1>9 DEF SentOnce
  <2>2. ~state'[1].loading => asked'[1] = None
    BY <1>2 DEF HooksOK, Loads
  <2>3. SameThing'
    BY <1>4, <1>9, <2>2 DEF SameThing, About
  <2> QED BY <1>4, <1>6, <2>1, <2>3
<1>10. CASE box' # None /\ box # None
  <2>1. box' = box /\ open' = open /\ open # None /\ Content(state')
    BY <1>4, <1>10
  <2>2. SentOnce'
    BY <1>1, <1>10, <2>1 DEF SentOnce, Out
  <2>3. ASSUME page.gate = 1, box.calm
        PROVE  state'[1].data.key = key[1] /\ (asked'[1] # None => asked'[1].key = key[1])
    BY <1>1, <1>10, <2>1, <2>3 DEF SameThing, Content
  <2>4. ASSUME box.calm PROVE box.from = About(open, state')
    <3>1. box.from = About(open, state)
      BY <1>1, <1>10, <2>4 DEF SameThing
    <3>2. CASE open.op.via = "revise"
      <4>1. page.gate = 1
        BY <1>1, <2>1, <3>2, PageFacts DEF PageTyped, FormOK
      <4>2. state'[1].data.key = key[1] /\ state[1].data.key = key[1]
        BY <1>1, <1>10, <2>3, <2>4, <4>1 DEF SameThing
      <4> QED BY <3>1, <3>2, <4>2 DEF About
    <3>3. CASE open.op.via # "revise"
      <4>1. open.op.via \in {"fill", "edit"}
        BY <1>1, <2>1, <3>3 DEF PageTyped, FormOK
      <4> QED BY <3>1, <4>1 DEF About
    <3> QED BY <3>2, <3>3
  <2>5. SameThing'
    BY <2>1, <2>3, <2>4 DEF SameThing, About
  <2> QED BY <1>4, <1>6, <2>2, <2>5
<1> QED BY <1>8, <1>9, <1>10

-----------------------------------------------------------------------------
\* Each step keeps the invariant.  What happens to the hooks:
LEMMA AskKeeps ==
  ASSUME PageInv, HooksOK', NEW h \in Hooks, HookAsks(h)
  PROVE  PageInv'
<1>1. /\ HooksOK /\ PageTyped /\ Asking /\ Drawn /\ SameThing /\ SentOnce /\ OwnDraft
  BY DEF PageInv
<1>2. UNCHANGED pvars /\ key' = key /\ L!Ask(h)
  BY DEF HookAsks, L!Ask
<1>3. \A g \in Hooks : state'[g].data = state[g].data
  BY <1>1, <1>2 DEF HooksOK, HooksTyped, L!Ask, L!Waiting, States
<1>4. \A g \in Hooks : asked'[g] = asked[g] \/ asked'[g].key = key[g]
  BY <1>1, <1>2 DEF HooksOK, HooksTyped, L!Ask
<1>5. PageTyped' /\ Asking' /\ SentOnce' /\ OwnDraft'
  BY <1>1, <1>2 DEF PageTyped, FormOK, Asking, SentOnce, Out, OwnDraft, pvars
<1>6. Drawn' /\ SameThing'
  BY <1>1, <1>2, <1>3, <1>4, HooksAssumption DEF Drawn, SameThing, Content, About, pvars
<1> QED BY <1>5, <1>6 DEF PageInv

LEMMA SettleKeeps ==
  ASSUME PageInv, HooksOK', NEW h \in Hooks, HookSettles(h)
  PROVE  PageInv'
<1>1. /\ HooksOK /\ PageTyped /\ Asking /\ OwnDraft
  BY DEF PageInv
<1>2. /\ UNCHANGED <<page, here, open, jobs, dialog, key>> /\ Redraw
      /\ L!Show(h) \/ L!Fail(h)
  BY DEF HookSettles, L!Show, L!Fail
<1>3. asked'[1] # None => asked'[1] = asked[1]
  BY <1>1, <1>2, HooksAssumption DEF HooksOK, HooksTyped, L!Show, L!Fail
<1>4. \/ state'[1].data = state[1].data
      \/ asked[1] # None /\ state'[1].data.key = asked[1].key
      \/ state'[1].data = None
  BY <1>1, <1>2, HooksAssumption
  DEF HooksOK, HooksTyped, L!Show, L!Fail, L!Holding, L!Failed
<1>5. box' \in Boxes \cup {None} /\ Drawn' /\ SameThing' /\ SentOnce'
  BY <1>1, <1>2, <1>3, <1>4, Redrawn DEF PageTyped, FormOK
<1>6. PageTyped' /\ Asking' /\ OwnDraft'
  BY <1>1, <1>2, <1>5 DEF PageTyped, FormOK, Asking, OwnDraft
<1> QED BY <1>5, <1>6 DEF PageInv

LEMMA RetryKeeps ==
  ASSUME PageInv, HooksOK', Retry
  PROVE  PageInv'
<1>1. UNCHANGED <<pvars, key, asked, state>>
  BY DEF Retry, L!Reload
<1> QED
  BY <1>1 DEF PageInv, PageTyped, FormOK, Asking, Drawn, SameThing, SentOnce, Out, OwnDraft,
              Content, About, pvars

LEMMA GoToKeeps ==
  ASSUME PageInv, HooksOK', NEW k \in Keys, GoTo(k)
  PROVE  PageInv'
<1>1. PageTyped /\ Asking /\ Drawn /\ SentOnce /\ OwnDraft
  BY DEF PageInv
<1>2. /\ UNCHANGED <<page, here, open, jobs, dialog, asked, state>>
      /\ box' = IF box = None THEN None ELSE [box EXCEPT !.calm = FALSE]
  BY DEF GoTo, L!Navigate
<1>3. CASE box = None
  BY <1>1, <1>2, <1>3
  DEF PageInv, PageTyped, FormOK, Asking, Drawn, SameThing, SentOnce, OwnDraft
<1>4. CASE box # None
  <2>1. box \in Boxes
    BY <1>1, <1>4 DEF PageTyped
  <2>2. box' \in Boxes /\ ~box'.calm /\ box'.busy = box.busy /\ box'.sent = box.sent
    BY <1>2, <1>4, <2>1 DEF Boxes
  <2> QED
    BY <1>1, <1>2, <1>4, <2>2
    DEF PageInv, PageTyped, FormOK, Asking, Drawn, SameThing, SentOnce, Out, OwnDraft, Content
<1> QED BY <1>3, <1>4

LEMMA LeaveKeeps ==
  ASSUME PageInv, HooksOK', Leave
  PROVE  PageInv'
BY DEF Leave, PageInv, PageTyped, FormOK, Asking, Drawn, SameThing, SentOnce, OwnDraft

\* What happens to the writes.  The one that changes is a write before and after,
\* from and on change together or the write is no form's, and to the mounted form
\* it means no more than it did.
LEMMA OneWrite ==
  ASSUME PageInv, HooksOK', NEW j \in Jobs, NEW job \in Works,
         jobs' = [jobs EXCEPT ![j] = job],
         UNCHANGED <<page, here, open, box, key, asked, state>>,
         dialog' \in Jobs \cup {None}, dialog' # None => jobs'[dialog'].pc = "asked",
         job.form /\ job.calm => job.from = job.on,
         box # None /\ j \in box.sent =>
           \/ /\ Out(j) /\ job.pc \in {"sent", "written", "refused"}
              /\ job.form = jobs[j].form /\ job.op = jobs[j].op
           \/ ~Out(j) /\ job.pc \in {"failed", "lost"}
  PROVE  PageInv'
<1>1. /\ HooksOK /\ PageTyped /\ Asking /\ Drawn /\ SameThing /\ SentOnce /\ OwnDraft
  BY DEF PageInv
<1>2. jobs'[j] = job /\ (\A i \in Jobs : i # j => jobs'[i] = jobs[i]) /\ jobs' \in [Jobs -> Works]
  BY <1>1 DEF PageTyped
<1>3. PageTyped' /\ Asking' /\ Drawn' /\ SameThing'
  BY <1>1, <1>2 DEF PageTyped, FormOK, Asking, Drawn, SameThing, Content, About
<1>4. OwnDraft'
  <2> SUFFICES ASSUME NEW i \in Jobs PROVE jobs'[i].form /\ jobs'[i].calm => jobs'[i].from = jobs'[i].on
    BY DEF OwnDraft
  <2>1. CASE i = j
    BY <1>2, <2>1
  <2>2. CASE i # j
    BY <1>1, <1>2, <2>2 DEF OwnDraft
  <2> QED BY <2>1, <2>2
<1>5. SentOnce'
  <2> SUFFICES ASSUME box # None PROVE SentOnce'
    BY DEF SentOnce
  <2>1. box' = box /\ open' = open /\ box.sent \subseteq Jobs
    BY <1>1 DEF PageTyped, Boxes
  <2>2. \A i \in box.sent : Out(i)' => Out(i)
    BY <1>2, <2>1 DEF Out
  <2>3. ASSUME NEW i \in box.sent
        PROVE  \/ Out(i)' /\ box.busy /\ jobs'[i].form /\ jobs'[i].op = open.op
               \/ jobs'[i].pc \in {"failed", "lost"}
    <3>1. CASE i = j
      BY <1>1, <1>2, <2>1, <3>1 DEF SentOnce, Out
    <3>2. CASE i # j
      BY <1>1, <1>2, <2>1, <3>2 DEF SentOnce, Out
    <3> QED BY <3>1, <3>2
  <2>4. \A i \in box.sent : Out(i) => Out(i)'
    BY <1>2, <2>1 DEF Out
  <2> QED BY <1>1, <2>1, <2>2, <2>3, <2>4 DEF SentOnce
<1> QED BY <1>3, <1>4, <1>5 DEF PageInv

LEMMA PressKeeps ==
  ASSUME PageInv, HooksOK', NEW j \in Jobs, NEW op \in page.ops, Press(j, op)
  PROVE  PageInv'
<1> DEFINE job == [Idle EXCEPT !.pc = "sent", !.op = op]
<1>1. PageTyped /\ Asking /\ SentOnce /\ op \in AllOps
  BY PageFacts DEF PageInv, PageTyped
<1>2. job \in Works /\ ~job.form /\ job.pc = "sent"
  BY <1>1 DEF Idle, Works
<1>3. /\ jobs' = [jobs EXCEPT ![j] = job] /\ jobs[j].pc = "idle"
      /\ UNCHANGED <<page, here, open, box, key, asked, state, dialog>>
  BY DEF Press, Begin, Next1, hooks
<1>4. box # None => j \notin box.sent
  BY <1>1, <1>3 DEF SentOnce, Out
<1>5. dialog # None => dialog # j
  BY <1>1, <1>3 DEF Asking
<1>6. dialog' \in Jobs \cup {None} /\ (dialog' # None => jobs'[dialog'].pc = "asked")
  BY <1>1, <1>3, <1>5 DEF PageTyped, Asking
<1> HIDE DEF job
<1> QED BY <1>2, <1>3, <1>4, <1>6, OneWrite

LEMMA QuestionKeeps ==
  ASSUME PageInv, HooksOK', NEW j \in Jobs, NEW op \in page.ops, Question(j, op)
  PROVE  PageInv'
<1> DEFINE job == [Idle EXCEPT !.pc = "asked", !.op = op]
<1>1. PageTyped /\ Asking /\ SentOnce /\ op \in AllOps
  BY PageFacts DEF PageInv, PageTyped
<1>2. job \in Works /\ ~job.form /\ job.pc = "asked"
  BY <1>1 DEF Idle, Works
<1>3. /\ jobs' = [jobs EXCEPT ![j] = job] /\ jobs[j].pc = "idle" /\ dialog' = j
      /\ UNCHANGED <<page, here, open, box, key, asked, state>>
  BY DEF Question, Begin, Next1, hooks
<1>4. box # None => j \notin box.sent
  BY <1>1, <1>3 DEF SentOnce, Out
<1>5. dialog' \in Jobs \cup {None} /\ jobs'[dialog'].pc = "asked"
  BY <1>1, <1>2, <1>3 DEF PageTyped
<1> HIDE DEF job
<1> QED BY <1>2, <1>3, <1>4, <1>5, OneWrite

LEMMA ConfirmKeeps ==
  ASSUME PageInv, HooksOK', Confirm
  PROVE  PageInv'
<1> DEFINE job == [jobs[dialog] EXCEPT !.pc = "sent"]
<1>1. PageTyped /\ Asking /\ SentOnce /\ OwnDraft
  BY DEF PageInv
<1>2. /\ dialog \in Jobs /\ jobs[dialog] \in Works /\ jobs[dialog].pc = "asked"
      /\ jobs' = [jobs EXCEPT ![dialog].pc = "sent"] /\ dialog' = None
      /\ UNCHANGED <<page, here, open, box, key, asked, state>>
  BY <1>1 DEF Confirm, Put, PageTyped, Asking, hooks
<1>3. /\ job \in Works /\ job.form = jobs[dialog].form /\ job.calm = jobs[dialog].calm
      /\ job.from = jobs[dialog].from /\ job.on = jobs[dialog].on
  BY <1>2 DEF Works
<1>4. jobs' = [jobs EXCEPT ![dialog] = job]
  BY <1>2
<1>5. box # None => dialog \notin box.sent
  BY <1>1, <1>2 DEF SentOnce, Out
<1>6. job.form /\ job.calm => job.from = job.on
  BY <1>1, <1>2, <1>3 DEF OwnDraft
<1> HIDE DEF job
<1> QED BY <1>2, <1>3, <1>4, <1>5, <1>6, OneWrite

\* A write that is lost is no form's.
LEMMA LostWork ==
  ASSUME NEW pc \in {"failed", "lost"}
  PROVE  /\ [Idle EXCEPT !.pc = pc] \in Works
         /\ [Idle EXCEPT !.pc = pc].pc = pc
         /\ ~[Idle EXCEPT !.pc = pc].form
BY DEF Idle, Works

LEMMA LoseFacts ==
  ASSUME PageTyped, NEW j \in Jobs, Lose(j)
  PROVE  \E job \in Works : /\ jobs' = [jobs EXCEPT ![j] = job]
                            /\ ~job.form /\ job.pc \in {"failed", "lost"}
BY LostWork DEF Lose

LEMMA CancelKeeps ==
  ASSUME PageInv, HooksOK', Cancel
  PROVE  PageInv'
<1>1. PageTyped /\ Asking /\ SentOnce /\ OwnDraft
  BY DEF PageInv
<1>2. UNCHANGED <<page, here, key, asked, state>>
  BY DEF Cancel, hooks
<1>3. ASSUME ShutDialog
      PROVE  dialog' = None /\ dialog \in Jobs /\ jobs[dialog].pc = "asked" /\ Lose(dialog)
  BY <1>1, <1>3 DEF ShutDialog, PageTyped, Asking
<1>4. CASE ShutDialog /\ ShutForm
  <2>1. PICK job \in Works : /\ jobs' = [jobs EXCEPT ![dialog] = job] /\ ~job.form
    BY <1>1, <1>3, <1>4, LoseFacts
  <2>2. jobs' \in [Jobs -> Works] /\ \A i \in Jobs : jobs'[i] = jobs[i] \/ ~jobs'[i].form
    BY <1>1, <1>3, <1>4, <2>1 DEF PageTyped
  <2> QED
    BY <1>1, <1>2, <1>3, <1>4, <2>2
    DEF ShutForm, Draw, PageInv, PageTyped, Asking, Drawn, SameThing, SentOnce, OwnDraft
<1>5. CASE ShutDialog /\ UNCHANGED <<open, box>>
  <2>1. PICK job \in Works : /\ jobs' = [jobs EXCEPT ![dialog] = job]
                             /\ ~job.form /\ job.pc \in {"failed", "lost"}
    BY <1>1, <1>3, <1>5, LoseFacts
  <2>2. box # None => dialog \notin box.sent
    BY <1>1, <1>3, <1>5 DEF SentOnce, Out
  <2> QED BY <1>2, <1>3, <1>5, <2>1, <2>2, OneWrite
<1>6. CASE ShutForm /\ UNCHANGED <<jobs, dialog>>
  BY <1>1, <1>2, <1>6
  DEF ShutForm, Draw, PageInv, PageTyped, Asking, Drawn, SameThing, SentOnce, OwnDraft
<1> QED BY <1>4, <1>5, <1>6 DEF Cancel

LEMMA RefuseKeeps ==
  ASSUME PageInv, HooksOK', NEW j \in Jobs, ServerRefuses(j)
  PROVE  PageInv'
<1> DEFINE job == [jobs[j] EXCEPT !.pc = "refused"]
<1>1. PageTyped /\ Asking /\ OwnDraft /\ jobs[j] \in Works
  BY DEF PageInv, PageTyped
<1>2. /\ jobs[j].pc = "sent" /\ jobs' = [jobs EXCEPT ![j].pc = "refused"]
      /\ UNCHANGED <<page, here, open, box, key, asked, state, dialog>>
  BY DEF ServerRefuses, Put, hooks
<1>3. /\ job \in Works /\ job.pc = "refused" /\ job.form = jobs[j].form /\ job.op = jobs[j].op
      /\ job.calm = jobs[j].calm /\ job.from = jobs[j].from /\ job.on = jobs[j].on
  BY <1>1 DEF Works
<1>4. jobs' = [jobs EXCEPT ![j] = job]
  BY <1>1, <1>2
<1>5. dialog' \in Jobs \cup {None} /\ (dialog' # None => jobs'[dialog'].pc = "asked")
  BY <1>1, <1>2 DEF PageTyped, Asking
<1>6. (job.form /\ job.calm => job.from = job.on) /\ Out(j)
  BY <1>1, <1>2, <1>3 DEF OwnDraft, Out
<1> HIDE DEF job
<1> QED BY <1>2, <1>3, <1>4, <1>5, <1>6, OneWrite

LEMMA WriteKeeps ==
  ASSUME PageInv, HooksOK', NEW j \in Jobs, ServerWrites(j)
  PROVE  PageInv'
<1> DEFINE job == [jobs[j] EXCEPT !.pc = "written", !.at = rev']
<1>1. PageTyped /\ Asking /\ OwnDraft /\ jobs[j] \in Works
  BY DEF PageInv, PageTyped
<1>2. /\ jobs[j].pc = "sent" /\ jobs' = [jobs EXCEPT ![j].pc = "written", ![j].at = rev']
      /\ UNCHANGED <<page, here, open, box, key, asked, state, dialog>>
  BY DEF ServerWrites, L!Write
<1>3. rev' \in [Hooks -> Nat]
  BY DEF HooksOK, HooksTyped
<1>4. /\ job \in Works /\ job.pc = "written" /\ job.form = jobs[j].form /\ job.op = jobs[j].op
      /\ job.calm = jobs[j].calm /\ job.from = jobs[j].from /\ job.on = jobs[j].on
  BY <1>1, <1>3 DEF Works
<1>5. jobs' = [jobs EXCEPT ![j] = job]
  BY <1>1, <1>2 DEF PageTyped
<1>6. dialog' \in Jobs \cup {None} /\ (dialog' # None => jobs'[dialog'].pc = "asked")
  BY <1>1, <1>2 DEF PageTyped, Asking
<1>7. (job.form /\ job.calm => job.from = job.on) /\ Out(j)
  BY <1>1, <1>2, <1>4 DEF OwnDraft, Out
<1> HIDE DEF job
<1> QED BY <1>2, <1>4, <1>5, <1>6, <1>7, OneWrite

LEMMA FaultKeeps ==
  ASSUME PageInv, HooksOK', NEW j \in Jobs, Fault(j)
  PROVE  PageInv'
<1>1. /\ HooksOK /\ PageTyped /\ Asking /\ Drawn /\ SameThing /\ SentOnce /\ OwnDraft
  BY DEF PageInv
<1>2. PICK job \in Works : /\ jobs' = [jobs EXCEPT ![j] = job]
                           /\ ~job.form /\ job.pc \in {"failed", "lost"}
  BY <1>1, LoseFacts DEF Fault
<1>3. /\ jobs[j].pc \in {"written", "refused"}
      /\ box' = IF box # None /\ j \in box.sent THEN [box EXCEPT !.busy = FALSE] ELSE box
      /\ UNCHANGED <<page, here, open, key, asked, state, dialog>>
  BY DEF Fault, hooks
<1>4. jobs'[j] = job /\ (\A i \in Jobs : i # j => jobs'[i] = jobs[i]) /\ jobs' \in [Jobs -> Works]
  BY <1>1, <1>2 DEF PageTyped
<1>5. OwnDraft' /\ Asking'
  BY <1>1, <1>2, <1>3, <1>4 DEF OwnDraft, Asking, PageTyped
<1>6. box # None => box \in Boxes /\ box.sent \subseteq Jobs
  BY <1>1 DEF PageTyped, Boxes
<1>7. /\ box' \in Boxes \cup {None}
      /\ box' # None => /\ box # None /\ box'.from = box.from /\ box'.calm = box.calm
                        /\ box'.sent = box.sent
                        /\ j \notin box.sent => box'.busy = box.busy
  BY <1>1, <1>3, <1>6 DEF PageTyped, Boxes
<1>8. PageTyped' /\ Drawn' /\ SameThing'
  BY <1>1, <1>3, <1>4, <1>7 DEF PageTyped, FormOK, Drawn, SameThing, Content, About
<1>9. SentOnce'
  <2> SUFFICES ASSUME box' # None PROVE SentOnce'
    BY DEF SentOnce
  <2>1. box # None /\ box'.sent = box.sent /\ open' = open /\ box.sent \subseteq Jobs
    BY <1>3, <1>6, <1>7
  <2>2. \A i \in box.sent : Out(i)' => Out(i) /\ i # j
    BY <1>2, <1>4, <2>1 DEF Out
  <2>3. \A i, k \in box'.sent : Out(i)' /\ Out(k)' => i = k
    BY <1>1, <2>1, <2>2 DEF SentOnce
  <2>4. ASSUME NEW i \in box.sent
        PROVE  \/ Out(i)' /\ box'.busy /\ jobs'[i].form /\ jobs'[i].op = open.op
               \/ jobs'[i].pc \in {"failed", "lost"}
    <3>1. CASE i = j
      BY <1>2, <1>4, <3>1
    <3>2. CASE i # j /\ j \in box.sent
      <4>1. ~Out(i)
        BY <1>1, <1>3, <2>1, <3>2 DEF SentOnce, Out
      <4> QED BY <1>1, <1>4, <2>1, <3>2, <4>1 DEF SentOnce
    <3>3. CASE j \notin box.sent
      BY <1>1, <1>4, <1>7, <2>1, <3>3 DEF SentOnce, Out
    <3> QED BY <3>1, <3>2, <3>3
  <2>5. box'.busy => \E i \in box.sent : Out(i)'
    <3>1. CASE j \in box.sent
      BY <1>3, <1>6, <2>1, <3>1 DEF Boxes
    <3>2. CASE j \notin box.sent
      <4>1. \A i \in box.sent : Out(i) => Out(i)'
        BY <1>4, <2>1, <3>2 DEF Out
      <4> QED BY <1>1, <1>7, <2>1, <3>2, <4>1 DEF SentOnce
    <3> QED BY <3>1, <3>2
  <2> QED BY <2>1, <2>3, <2>4, <2>5 DEF SentOnce
<1> QED BY <1>5, <1>8, <1>9 DEF PageInv

LEMMA SucceedKeeps ==
  ASSUME PageInv, HooksOK', NEW j \in Jobs, Succeed(j)
  PROVE  PageInv'
<1> DEFINE job == [Idle EXCEPT !.pc = "done", !.op = jobs[j].op, !.at = jobs[j].at]
<1>1. /\ HooksOK /\ PageTyped /\ Asking /\ SentOnce /\ OwnDraft /\ jobs[j] \in Works
  BY DEF PageInv, PageTyped
<1>2. job \in Works /\ ~job.form
  BY <1>1 DEF Idle, Works
<1>3. /\ jobs[j].pc = "written" /\ jobs' = [jobs EXCEPT ![j] = job]
      /\ UNCHANGED <<page, dialog>>
      /\ open' = IF jobs[j].form /\ open # None /\ open.op = jobs[j].op THEN None ELSE open
  BY DEF Succeed, End
<1> HIDE DEF job
<1>4. /\ jobs'[j] = job /\ (\A i \in Jobs : i # j => jobs'[i] = jobs[i])
      /\ jobs' \in [Jobs -> Works]
  BY <1>1, <1>2, <1>3 DEF PageTyped
<1>5. Asking' /\ OwnDraft'
  BY <1>1, <1>2, <1>3, <1>4 DEF Asking, OwnDraft, PageTyped
<1>6. open' \in Forms \cup {None} /\ (open' # None => open' = open /\ FormOK(open'))
  BY <1>1, <1>3 DEF PageTyped
<1>7. CASE Redraw /\ UNCHANGED <<here, key, asked, state>>
  <2>1. ASSUME box # None, open' # None PROVE \A i \in box.sent : jobs'[i] = jobs[i]
    <3>1. j \notin box.sent
      BY <1>1, <1>3, <2>1 DEF SentOnce, Out
    <3>2. box.sent \subseteq Jobs
      BY <1>1, <2>1 DEF PageTyped, Boxes
    <3> QED BY <1>4, <3>1, <3>2
  <2>2. box' \in Boxes \cup {None} /\ Drawn' /\ SameThing' /\ SentOnce'
    BY <1>3, <1>6, <1>7, <2>1, Redrawn
  <2>3. PageTyped'
    BY <1>1, <1>3, <1>4, <1>6, <1>7, <2>2 DEF PageTyped, FormOK
  <2> QED BY <1>5, <2>2, <2>3 DEF PageInv
<1>8. CASE box' = None /\ here' = FALSE
  BY <1>1, <1>3, <1>4, <1>5, <1>6, <1>8
  DEF PageInv, PageTyped, FormOK, Drawn, SameThing, SentOnce
<1> QED BY <1>7, <1>8 DEF Succeed, L!Reload

LEMMA OpenKeeps ==
  ASSUME PageInv, HooksOK', NEW op \in page.ops, NEW row \in Keys \cup {None}, OpenForm(op, row)
  PROVE  PageInv'
<1>1. PageTyped /\ Asking /\ Drawn /\ OwnDraft /\ op \in AllOps
  BY PageFacts DEF PageInv, PageTyped
<1>2. /\ open = None /\ open' = [op |-> op, row |-> row] /\ Redraw
      /\ op.via \in {"fill", "edit", "revise"} /\ (op.via = "edit" => row \in Keys)
      /\ UNCHANGED <<page, here, key, asked, state, jobs, dialog>>
  BY DEF OpenForm, hooks
<1>3. open' \in Forms /\ FormOK(open')
  BY <1>1, <1>2 DEF Forms, FormOK
<1>4. box = None
  BY <1>1, <1>2 DEF Drawn
<1>5. box' \in Boxes \cup {None} /\ Drawn' /\ SameThing' /\ SentOnce'
  BY <1>2, <1>3, <1>4, Redrawn
<1>6. PageTyped' /\ Asking' /\ OwnDraft'
  BY <1>1, <1>2, <1>3, <1>5 DEF PageTyped, FormOK, Asking, OwnDraft
<1> QED BY <1>5, <1>6 DEF PageInv

LEMMA ReopenKeeps ==
  ASSUME PageInv, HooksOK', NEW row \in Keys, Reopen(row)
  PROVE  PageInv'
<1>1. /\ PageTyped /\ Asking /\ Drawn /\ SentOnce /\ OwnDraft
      /\ open \in Forms /\ FormOK(open) /\ box \in Boxes
  BY DEF PageInv, PageTyped, Reopen
<1>2. /\ open' = [open EXCEPT !.row = row] /\ box' = [box EXCEPT !.calm = FALSE]
      /\ box # None /\ open.op.via = "edit"
      /\ UNCHANGED <<page, here, key, asked, state, jobs, dialog>>
  BY DEF Reopen, hooks
<1>3. open' \in Forms /\ open'.op = open.op /\ open'.row = row /\ open' # None
  BY <1>1, <1>2, NoFormAssumption DEF Forms
<1>4. box' \in Boxes /\ ~box'.calm /\ box'.busy = box.busy /\ box'.sent = box.sent
  BY <1>1, <1>2 DEF Boxes
<1>5. PageTyped' /\ Asking' /\ OwnDraft'
  BY <1>1, <1>2, <1>3, <1>4 DEF PageTyped, FormOK, Asking, OwnDraft
<1>6. Drawn' /\ SameThing' /\ SentOnce'
  BY <1>1, <1>2, <1>3, <1>4 DEF Drawn, SameThing, SentOnce, Out, Content
<1> QED BY <1>5, <1>6 DEF PageInv

LEMMA SubmitKeeps ==
  ASSUME PageInv, HooksOK', NEW j \in Jobs, Submit(j)
  PROVE  PageInv'
<1>1. /\ HooksOK /\ PageTyped /\ Asking /\ Drawn /\ SameThing /\ SentOnce /\ OwnDraft
      /\ open \in Forms /\ FormOK(open) /\ box \in Boxes /\ Content(state)
  BY DEF PageInv, PageTyped, Drawn, Submit
<1>2. /\ jobs[j].pc = "idle" /\ jobs' = [jobs EXCEPT ![j] = Sending] /\ box # None /\ ~box.busy
      /\ box' = [box EXCEPT !.busy = TRUE, !.sent = @ \cup {j}]
      /\ UNCHANGED <<page, here, open, key, asked, state, dialog>>
  BY DEF Submit, Begin, Next1, hooks
<1>3. About(open, state) \in Fields /\ open.op \in AllOps
  BY <1>1, AboutField DEF HooksOK, HooksTyped, Forms
<1>4. /\ Sending \in Works /\ Sending.pc = "sent" /\ Sending.form /\ Sending.op = open.op
      /\ Sending.calm = box.calm /\ Sending.from = box.from /\ Sending.on = About(open, state)
  BY <1>1, <1>3 DEF Sending, Idle, Works, Boxes
<1> HIDE DEF Sending
<1>5. /\ jobs'[j] = Sending /\ (\A i \in Jobs : i # j => jobs'[i] = jobs[i])
      /\ jobs' \in [Jobs -> Works]
  BY <1>1, <1>2, <1>4 DEF PageTyped
<1>6. /\ box' \in Boxes /\ box'.from = box.from /\ box'.calm = box.calm /\ box'.busy
      /\ box'.sent = box.sent \cup {j} /\ box.sent \subseteq Jobs
  BY <1>1, <1>2 DEF Boxes
<1>7. OwnDraft'
  BY <1>1, <1>2, <1>4, <1>5 DEF OwnDraft, SameThing
<1>8. Asking'
  BY <1>1, <1>2, <1>5 DEF Asking, PageTyped
<1>9. PageTyped' /\ Drawn' /\ SameThing'
  BY <1>1, <1>2, <1>5, <1>6 DEF PageTyped, FormOK, Drawn, SameThing, Content, About
<1>10. \A i \in box.sent : i # j /\ ~Out(i) /\ jobs'[i] = jobs[i] /\ jobs[i].pc \in {"failed", "lost"}
  BY <1>1, <1>2, <1>5, <1>6 DEF SentOnce, Out
<1>11. SentOnce'
  BY <1>2, <1>4, <1>5, <1>6, <1>10 DEF SentOnce, Out
<1> QED BY <1>7, <1>8, <1>9, <1>11 DEF PageInv

-----------------------------------------------------------------------------
LEMMA LatestNeverOlder ==
  ASSUME HooksOK, [L!Next]_hooks, NEW h \in Hooks
  PROVE  ~Older(h)
<1>1. /\ HooksTyped /\ InOrder /\ state[h] \in States
      /\ state[h].data # None => state[h].data.rev \in Nat /\ state[h].data.rev <= state[h].data.rev
  BY DEF HooksOK, HooksTyped, States, Asks
<1>2. ASSUME state'[h].data = state[h].data PROVE ~Older(h)
  BY <1>1, <1>2 DEF Older
<1>3. ASSUME state'[h].data = None \/ state[h].data = None PROVE ~Older(h)
  BY <1>3 DEF Older
<1>4. CASE UNCHANGED hooks
  BY <1>2, <1>4 DEF hooks
<1>5. ASSUME NEW g \in Hooks, L!Ask(g) PROVE ~Older(h)
  <2>1. state'[h].data = state[h].data
    BY <1>1, <1>5 DEF L!Ask, L!Waiting, HooksTyped, States
  <2> QED BY <1>2, <2>1
<1>6. ASSUME NEW g \in Hooks, L!Show(g), g # h PROVE ~Older(h)
  BY <1>1, <1>2, <1>6 DEF L!Show, HooksTyped
<1>7. CASE L!Show(h)
  <2>1. asked[h] \in Asks /\ asked[h].rev \in Nat /\ rev[h] \in Nat
    BY <1>1, <1>7 DEF L!Show, HooksTyped, Asks
  <2>2. PICK r \in asked[h].rev .. rev[h] :
          state' = [state EXCEPT ![h] = L!Holding(asked[h].key, r)]
    BY <1>7 DEF L!Show
  <2>3. state'[h].data = [key |-> asked[h].key, rev |-> r]
    BY <1>1, <2>2 DEF HooksTyped, L!Holding
  <2>4. state[h].data # None => state[h].data.rev <= asked[h].rev
    BY <1>1, <1>7 DEF L!Show, InOrder
  <2>5. state[h].data # None => state[h].data.rev <= r
    BY <1>1, <2>1, <2>2, <2>4
  <2> QED BY <2>3, <2>5 DEF Older
<1>8. ASSUME NEW g \in Hooks, L!Fail(g) PROVE ~Older(h)
  <2>1. state'[h].data \in {state[h].data, None}
    BY <1>1, <1>8 DEF L!Fail, L!Failed, HooksTyped
  <2> QED BY <1>2, <1>3, <2>1
<1>9. ASSUME NEW g \in Hooks, NEW k \in Keys, L!Navigate(g, k) PROVE ~Older(h)
  BY <1>2, <1>9 DEF L!Navigate
<1>10. ASSUME NEW H \in SUBSET Hooks, L!Reload(H) \/ L!Write(H) PROVE ~Older(h)
  BY <1>2, <1>10 DEF L!Reload, L!Write
<1>11. ASSUME NEW H \in SUBSET Hooks, L!Unmount(H) PROVE ~Older(h)
  <2>1. state'[h].data \in {state[h].data, None}
    BY <1>1, <1>11 DEF L!Unmount, L!Off
  <2> QED BY <1>2, <1>3, <2>1
<1>12. ASSUME NEW H \in SUBSET Hooks, NEW k \in Keys, L!Mount(H, k) PROVE ~Older(h)
  <2>1. state'[h].data \in {state[h].data, None}
    BY <1>1, <1>12 DEF L!Mount, L!Fresh
  <2> QED BY <1>2, <1>3, <2>1
<1> QED
  BY <1>4, <1>5, <1>6, <1>7, <1>8, <1>9, <1>10, <1>11, <1>12 DEF L!Next

LEMMA PageInit_ == PageInit /\ L!InitOn(PageHooks) => PageInv
<1> SUFFICES ASSUME PageInit, L!InitOn(PageHooks) PROVE PageInv
  OBVIOUS
<1>1. /\ L!Fresh \in States /\ L!Off \in States /\ L!Fresh.data = None /\ L!Off.data = None
  BY DEF L!Fresh, L!Off, States
<1>2. HooksOK
  BY <1>1 DEF L!InitOn, HooksOK, HooksTyped, InOrder, Loads
<1>3. Idle \in Works /\ ~Idle.form
  BY DEF Idle, Works
<1>4. PageTyped /\ Asking /\ Drawn /\ SameThing /\ SentOnce /\ OwnDraft
  BY <1>3 DEF PageInit, PageTyped, Asking, Drawn, SameThing, SentOnce, OwnDraft
<1> QED BY <1>2, <1>4 DEF PageInv

LEMMA PageStep == PageInv /\ [PageNext]_<<hooks, pvars>> => PageInv'
<1> SUFFICES ASSUME PageInv, [PageNext]_<<hooks, pvars>> PROVE PageInv'
  OBVIOUS
<1>1. HooksOK'
  BY PageStepHooks, LatestStep DEF PageInv
<1>2. CASE UNCHANGED <<hooks, pvars>>
  BY <1>1, <1>2
  DEF hooks, pvars, PageInv, PageTyped, FormOK, Asking, Drawn, SameThing, SentOnce, Out, OwnDraft,
      Content, About
<1>3. ASSUME NEW h \in Hooks, HookAsks(h) \/ HookSettles(h) PROVE PageInv'
  BY <1>1, <1>3, AskKeeps, SettleKeeps
<1>4. CASE Retry \/ Leave \/ \E k \in Keys : GoTo(k)
  BY <1>1, <1>4, RetryKeeps, LeaveKeeps, GoToKeeps
<1>5. ASSUME NEW op \in page.ops, NEW j \in Jobs, Press(j, op) \/ Question(j, op) PROVE PageInv'
  BY <1>1, <1>5, PressKeeps, QuestionKeeps
<1>6. ASSUME NEW op \in page.ops, NEW row \in Keys \cup {None}, OpenForm(op, row) PROVE PageInv'
  BY <1>1, <1>6, OpenKeeps
<1>7. CASE Confirm \/ Cancel \/ \E row \in Keys : Reopen(row)
  BY <1>1, <1>7, ConfirmKeeps, CancelKeeps, ReopenKeeps
<1>8. ASSUME NEW j \in Jobs, Submit(j) \/ Outcome(j) PROVE PageInv'
  BY <1>1, <1>8, SubmitKeeps, WriteKeeps, RefuseKeeps, SucceedKeeps, FaultKeeps DEF Outcome
<1> QED
  BY <1>2, <1>3, <1>4, <1>5, <1>6, <1>7, <1>8 DEF PageNext, Act

-----------------------------------------------------------------------------
\* The pages with their requests.  A step of the operator, or of a write, is to
\* the requests one of Fetch's, or none of their business.
LEMMA ActStep ==
  ASSUME Act, Cleanup
  PROVE  \/ \E H \in SUBSET Hooks : Reload(H) \/ Unmount(H) \/ Write(H)
         \/ \E k \in Keys : Navigate(1, k)
         \/ UNCHANGED vars
<1>1. ASSUME ~here \/ here' = here PROVE UNCHANGED net
  BY <1>1 DEF Cleanup, net
<1>2. \A H : L!Reload(H) => H \in SUBSET Hooks
  BY DEF L!Reload, L!Mounted
<1>3. PageHooks \in SUBSET Hooks
  BY DEF PageHooks
<1>4. ASSUME here, ~here', L!Unmount(PageHooks) PROVE Unmount(PageHooks)
  BY <1>4 DEF Cleanup, Unmount
<1>5. CASE Retry
  BY <1>1, <1>2, <1>5 DEF Retry, Reload, pvars
<1>6. CASE Leave
  BY <1>3, <1>4, <1>6 DEF Leave
<1>7. ASSUME NEW k \in Keys, GoTo(k) PROVE Navigate(1, k)
  BY <1>1, <1>7 DEF GoTo, Navigate
<1>8. ASSUME UNCHANGED hooks, UNCHANGED here PROVE UNCHANGED vars
  BY <1>1, <1>8 DEF hooks, net, vars
<1>9. ASSUME NEW j \in Jobs, NEW op \in page.ops, Press(j, op) \/ Question(j, op)
      PROVE  UNCHANGED vars
  BY <1>8, <1>9 DEF Press, Question
<1>10. ASSUME NEW op \in page.ops, NEW row \in Keys \cup {None}, OpenForm(op, row)
       PROVE  UNCHANGED vars
  BY <1>8, <1>10 DEF OpenForm
<1>11. CASE Confirm \/ Cancel
  BY <1>8, <1>11 DEF Confirm, Cancel
<1>12. ASSUME NEW row \in Keys, Reopen(row) PROVE UNCHANGED vars
  BY <1>8, <1>12 DEF Reopen
<1>13. ASSUME NEW j \in Jobs, Submit(j) \/ ServerRefuses(j) \/ Fault(j) PROVE UNCHANGED vars
  BY <1>8, <1>13 DEF Submit, ServerRefuses, Fault
<1>14. ASSUME NEW j \in Jobs, ServerWrites(j) PROVE \E H \in SUBSET Hooks : Write(H)
  BY <1>1, <1>14 DEF ServerWrites, Write
<1>15. ASSUME NEW j \in Jobs, Succeed(j)
       PROVE  \E H \in SUBSET Hooks : Reload(H) \/ Unmount(H)
  <2>1. CASE ~here \/ jobs[j].op.then = "stay"
    BY <1>1, <1>2, <1>15, <2>1 DEF Succeed, Reload
  <2>2. CASE ~(~here \/ jobs[j].op.then = "stay")
    BY <1>3, <1>4, <1>15, <2>2 DEF Succeed
  <2> QED BY <2>1, <2>2
<1> QED
  BY <1>5, <1>3, <1>2, <1>6, <1>7, <1>9, <1>10, <1>11, <1>12, <1>13, <1>14, <1>15
  DEF Act, Outcome, Retry, Leave

LEMMA WholeInv ==
  ASSUME IInv, [WholeNext]_<<vars, pvars>>
  PROVE  IInv'
<1>1. ASSUME NEW h \in Hooks, Sends(h) \/ Hears(h) PROVE IInv'
  BY <1>1, RunEffect_IInv, Serve_IInv, Deliver_IInv DEF Sends, Hears
<1>2. ASSUME UNCHANGED vars PROVE IInv'
  BY <1>2, Next_IInv
<1>3. CASE Act /\ Cleanup
  BY <1>2, <1>3, ActStep, HooksAssumption, Reload_IInv, Unmount_IInv, Write_IInv, Navigate_IInv
<1> QED
  BY <1>1, <1>2, <1>3 DEF WholeNext

\* An answer that counts settles its hook as Latest has it; one that does not
\* is nothing to the page.
LEMMA HearsSettles ==
  ASSUME IInv, NEW h \in Hooks, Hears(h)
  PROVE  HookSettles(h) \/ UNCHANGED <<hooks, pvars>>
<1>1. PICK m \in wire :
        /\ m.hook = h
        /\ \/ Serve(m) /\ UNCHANGED pvars
           \/ /\ Deliver(m)
              /\ UNCHANGED <<page, here, open, jobs, dialog>>
              /\ IF m.run \in alive[h] THEN Redraw ELSE UNCHANGED box
  BY DEF Hears
<1>2. CASE Serve(m) /\ UNCHANGED pvars
  BY <1>2 DEF Serve, hooks
<1>3. CASE Deliver(m) /\ m.run \notin alive[h]
  BY <1>1, <1>3 DEF Deliver, hooks, pvars
<1>4. CASE Deliver(m) /\ m.run \in alive[h]
  <2>1. rev' = rev /\ key' = key /\ due' = due /\ Counts(m)
        /\ asked' = [asked EXCEPT ![h] = None]
    BY <1>1, <1>4, Delivered
  <2>2. \/ /\ m.got.ok /\ m.got.rev \in Nat
           /\ state' = [state EXCEPT ![h] = L!Holding(m.key, m.got.rev)]
        \/ state' = [state EXCEPT ![h] = L!Failed]
    BY <1>1, <1>4, Delivered
  <2>3. asked[h] # None /\ m.key = asked[h].key
    BY <1>1, <2>1 DEF Counts
  <2>4. m.got.ok /\ m.got.rev \in Nat => m.got.rev \in asked[h].rev .. rev[h]
    <3>1. asked[h].rev \in Nat /\ rev[h] \in Nat
      BY <2>3 DEF IInv, TypeOK, Asks
    <3> QED BY <1>1, <2>1, <3>1 DEF Counts
  <2>5. L!Show(h) \/ L!Fail(h)
    BY <2>1, <2>2, <2>3, <2>4 DEF L!Show, L!Fail
  <2>6. m.got # Pending
    BY <1>4 DEF Deliver
  <2> QED BY <1>1, <1>4, <2>5, <2>6 DEF HookSettles, Serve
<1> QED BY <1>1, <1>2, <1>3, <1>4

LEMMA WholeStep ==
  ASSUME IInv, [WholeNext]_<<vars, pvars>>
  PROVE  [PageNext]_<<hooks, pvars>>
<1>1. ASSUME NEW h \in Hooks, Sends(h) PROVE HookAsks(h)
  BY <1>1 DEF Sends, RunEffect, HookAsks, L!Ask
<1>2. ASSUME NEW h \in Hooks, Hears(h) PROVE [PageNext]_<<hooks, pvars>>
  BY <1>2, HearsSettles DEF PageNext
<1>3. CASE UNCHANGED <<vars, pvars>>
  BY <1>3 DEF vars, hooks
<1> QED
  BY <1>1, <1>2, <1>3 DEF WholeNext, PageNext

LEMMA WholeInit == PageInit /\ L!InitOn(PageHooks) /\ NetInit => IInv
<1>1. L!InitOn(PageHooks) => L!Init
  BY DEF L!Init, PageHooks
<1> QED BY <1>1, Init_IInv DEF Init

\* The pages with the requests of their hooks do only what the pages do whose
\* hooks are Latest's: however the answers are late, lost or out of order, a form
\* opens, keeps its values and closes as it would if they were not.
THEOREM WholeImplementsPages == WholeSpec => PageSpec
BY WholeInit, WholeInv, WholeStep, PTL DEF WholeSpec, PageSpec

\* The hooks of a page, its form, its dialog, its writes and its requests keep
\* their types.
THEOREM PagesTyped == WholeSpec => [](TypeOK /\ PageTyped)
<1>1. IInv /\ PageInv => TypeOK /\ PageTyped
  BY DEF IInv, PageInv
<1> QED
  BY <1>1, WholeImplementsPages, WholeInit, WholeInv, PageInit_, PageStep, PTL DEF WholeSpec, PageSpec

\* On every page, whatever an operator does there and with any number of writes,
\* useResource's effects, their cleanups and its `alive` keep late answers off
\* the page: a hook shows what the server held between its newest request and
\* the answer, or that request's failure (useApi.ts:15-23).
THEOREM PagesUseLatest == WholeSpec => ImplementsLatest
<1>1. L!InitOn(PageHooks) => L!Init
  BY DEF L!Init, PageHooks
<1>2. ASSUME IInv, [WholeNext]_<<vars, pvars>> PROVE [L!Next]_(L!hooks)
  <2>1. [L!Next]_hooks
    BY <1>2, WholeStep, PageStepHooks
  <2> QED BY <2>1 DEF hooks, L!hooks
<1> QED
  BY <1>1, <1>2, WholeInit, WholeInv, PTL DEF WholeSpec, ImplementsLatest, L!Spec

\* No list or detail of a page goes back to an older state of what it shows.
THEOREM PagesNeverOlder == PageSpec => NeverOlder
<1> DEFINE Newer == \A h \in Hooks :
       LET was == state[h].data  is == state'[h].data IN
       was # None /\ is # None /\ was.key = is.key => was.rev <= is.rev
<1>1. PageInv /\ [PageNext]_<<hooks, pvars>> => [Newer]_vars
  <2>1. ASSUME PageInv, [PageNext]_<<hooks, pvars>> PROVE \A h \in Hooks : ~Older(h)
    BY <2>1, PageStepHooks, LatestNeverOlder DEF PageInv
  <2>2. (\A h \in Hooks : ~Older(h)) => Newer
    BY DEF Older
  <2> HIDE DEF Newer
  <2> QED BY <2>1, <2>2
<1> QED
  BY <1>1, PageInit_, PageStep, PTL DEF PageSpec, NeverOlder

\* A form opened on a settled page, and left alone by the address and by the
\* rows behind it, saves to what its fields were filled from, on every page.
THEOREM PagesSaveOwnDraft == PageSpec => []OwnDraft
<1>1. PageInv => OwnDraft
  BY DEF PageInv
<1> QED
  BY <1>1, PageInit_, PageStep, PTL DEF PageSpec

\* Of the writes a mounted form has sent, only the last may be anything but
\* failed, and none has been answered with success, on every page.
THEOREM PagesSendOnce == PageSpec => []OncePerForm
<1>1. PageInv => OncePerForm
  <2> SUFFICES ASSUME PageInv, box # None
               PROVE  /\ Cardinality(box.sent \ {j \in box.sent : jobs[j].pc \in {"failed", "lost"}}) <= 1
                      /\ \A j \in box.sent : jobs[j].pc # "done"
    BY DEF OncePerForm
  <2> DEFINE S == box.sent \ {j \in box.sent : jobs[j].pc \in {"failed", "lost"}}
  <2>1. SentOnce
    BY DEF PageInv
  <2>2. \A i, j \in S : i = j
    BY <2>1 DEF SentOnce
  <2>3. S = {} \/ \E i \in S : S = {i}
    BY <2>2
  <2> HIDE DEF S
  <2>4. Cardinality(S) <= 1
    <3>1. CASE S = {}
      BY <3>1, FS_EmptySet
    <3>2. ASSUME NEW i \in S, S = {i} PROVE Cardinality(S) <= 1
      <4>1. Cardinality({i}) = 1
        BY FS_Singleton
      <4> QED BY <3>2, <4>1
    <3> QED BY <2>3, <3>1, <3>2
  <2>5. \A j \in box.sent : jobs[j].pc # "done"
    BY <2>1 DEF SentOnce, Out
  <2> QED BY <2>4, <2>5 DEF S
<1> QED
  BY <1>1, PageInit_, PageStep, PTL DEF PageSpec

\* A form that is busy waits for a write of its own that has not ended, and so
\* for an outcome that ends its being busy or the form (FormModal.tsx:37-45).
BusyAwaits == box # None /\ box.busy => \E j \in box.sent : Out(j)

\* On every page a form is busy for a reason: no error, reload, dialog or
\* address leaves it waiting for nothing, which is what BusyEnds rests on.
THEOREM PagesBusyAwaits == PageSpec => []BusyAwaits
<1>1. PageInv => BusyAwaits
  BY DEF PageInv, SentOnce, BusyAwaits
<1> QED
  BY <1>1, PageInit_, PageStep, PTL DEF PageSpec
=============================================================================
