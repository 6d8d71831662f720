---------------------------- MODULE EstateProofs ----------------------------
(***************************************************************************)
(* What holds of the estate for every set of sites, tunnels, requests and  *)
(* agents.  TLC checks the same formulas on the instances of MCEstate.     *)
(***************************************************************************)
EXTENDS Estate, TLAPS

\* What a request in flight is, by the point it has reached.
Shape ==
  \A h \in Handlers :
    /\ Busy(h) => req[h].op \in Actions
    /\ req[h].pc \in {"checkB", "insert", "add", "write", "mirror", "remove"}
         => req[h].on \in Tunnels
    /\ req[h].op = "tunnel.delete" => req[h].on \in Tunnels

LEMMA LoadedTyped == \A rows : Loaded(rows) \in [Tunnels -> Status \cup {Absent}]
BY DEF Loaded, NewTunnel, Status

\* The histories are sets of the ids they are about.
LEMMA HistoriesTyped ==
  ASSUME TypeOK, Next
  PROVE  parted' \subseteq Tunnels /\ cut' \subseteq Sites \cup Tunnels \cup {None}
<1>1. CutShort \subseteq Sites \cup Tunnels \cup {None}
  BY DEF CutShort, TypeOK, Request
<1> QED BY <1>1 DEF Next, TypeOK

\* The initial state is well typed, and no request is in flight.
LEMMA InitTyped == Init => TypeOK /\ Shape
<1> SUFFICES ASSUME Init PROVE TypeOK /\ Shape
  OBVIOUS
<1>1. Idle \in Request
  BY DEF Idle, Request, Points, Status
<1>2. Seeded \in [Tunnels -> Status \cup {Absent}]
  BY SeedAssumption DEF Seeded
<1>3. Loaded(Seeded) \in [Tunnels -> Status \cup {Absent}]
  BY LoadedTyped
<1>4. TypeOK
  BY <1>1, <1>2, <1>3, SeedAssumption DEF Init, TypeOK
<1>5. Shape
  BY DEF Init, Shape, Busy, Idle
<1> QED BY <1>4, <1>5

\* Beginning and continuing a request keeps requests well formed.
LEMMA StartTyped ==
  ASSUME TypeOK, Shape, NEW h \in Handlers, NEW op \in Actions,
         NEW x \in Sites \cup Tunnels \cup {None}, NEW st \in Status, NEW p \in Points,
         p \in {"checkB", "insert", "add", "write", "mirror", "remove"} => x \in Tunnels,
         op = "tunnel.delete" => x \in Tunnels,
         Start(h, op, x, st, p)
  PROVE  req' \in [Handlers -> Request] /\ Shape'
BY DEF TypeOK, Shape, Start, Busy, Request, Actions

LEMMA GotoTyped ==
  ASSUME TypeOK, Shape, NEW h \in Handlers, Busy(h), NEW p \in Points,
         p \in {"checkB", "insert", "add", "write", "mirror", "remove"} => req[h].on \in Tunnels,
         Goto(h, p)
  PROVE  req' \in [Handlers -> Request] /\ Shape'
BY DEF TypeOK, Shape, Goto, Busy, Request

LEMMA ReturnTyped ==
  ASSUME TypeOK, Shape, NEW h \in Handlers, Return(h)
  PROVE  req' \in [Handlers -> Request] /\ Shape'
BY DEF TypeOK, Shape, Return, Busy, Request, Idle, Points, Status, Actions

LEMMA StepTyped == TypeOK /\ Shape /\ [Next]_vars => TypeOK' /\ Shape'
<1> SUFFICES ASSUME TypeOK, Shape, [Next]_vars PROVE TypeOK' /\ Shape'
  OBVIOUS
<1> USE DEF boot
<1>0. parted' \subseteq Tunnels /\ cut' \subseteq Sites \cup Tunnels \cup {None}
  BY HistoriesTyped DEF vars, TypeOK
<1>1. ASSUME NEW h \in Handlers, NEW s \in Sites, CreateSite(h, s)
      PROVE  TypeOK' /\ Shape'
  <2>1. req' \in [Handlers -> Request] /\ Shape'
    BY <1>1, StartTyped DEF CreateSite, Actions, Points, Status
  <2> QED BY <1>0, <1>1, <2>1 DEF CreateSite, TypeOK
<1>2. ASSUME NEW h \in Handlers, NEW s \in Sites, DeleteSite(h, s)
      PROVE  TypeOK' /\ Shape'
  <2>1. req' \in [Handlers -> Request] /\ Shape'
    BY <1>2, StartTyped DEF DeleteSite, Actions, Points, Status
  <2> QED BY <1>0, <1>2, <2>1 DEF DeleteSite, TypeOK
<1>3. ASSUME NEW h \in Handlers, NEW t \in Tunnels, CreateTunnel(h, t)
      PROVE  TypeOK' /\ Shape'
  <2>1. req' \in [Handlers -> Request] /\ Shape'
    BY <1>3, StartTyped DEF CreateTunnel, Actions, Points, Status
  <2> QED BY <1>0, <1>3, <2>1 DEF CreateTunnel, TypeOK
<1>4. ASSUME NEW h \in Handlers, NEW t \in Tunnels, ToggleTunnel(h, t)
      PROVE  TypeOK' /\ Shape'
  <2>1. req' \in [Handlers -> Request] /\ Shape'
    BY <1>4, StartTyped DEF ToggleTunnel, Actions, Points, Status
  <2> QED BY <1>0, <1>4, <2>1 DEF ToggleTunnel, TypeOK
<1>5. ASSUME NEW h \in Handlers, NEW t \in Tunnels, NEW st \in UpdateTo, UpdateTunnel(h, t, st)
      PROVE  TypeOK' /\ Shape'
  <2>0. st \in Status
    BY DEF Status
  <2>1. req' \in [Handlers -> Request] /\ Shape'
    BY <1>5, <2>0, StartTyped DEF UpdateTunnel, Actions, Points, Status
  <2> QED BY <1>0, <1>5, <2>0, <2>1 DEF UpdateTunnel, Updated, TypeOK
<1>6. ASSUME NEW h \in Handlers, NEW t \in Tunnels, DeleteTunnel(h, t)
      PROVE  TypeOK' /\ Shape'
  <2>1. req' \in [Handlers -> Request] /\ Shape'
    BY <1>6, StartTyped DEF DeleteTunnel, Actions, Points, Status
  <2> QED BY <1>0, <1>6, <2>1 DEF DeleteTunnel, TypeOK
<1>7. ASSUME NEW h \in Handlers, ResetWipe(h)
      PROVE  TypeOK' /\ Shape'
  <2>1. req' \in [Handlers -> Request] /\ Shape'
    BY <1>7, StartTyped DEF ResetWipe, Actions, Points, Status
  <2> QED BY <1>0, <1>7, <2>1 DEF ResetWipe, TypeOK
<1>8. ASSUME NEW h \in Handlers, CheckB(h) \/ InsertTunnel(h) \/ AddTunnel(h)
      PROVE  TypeOK' /\ Shape'
  <2>1. req[h].on \in Tunnels /\ Busy(h)
    BY <1>8 DEF CheckB, InsertTunnel, AddTunnel, At, Shape, Busy
  <2>2. req' \in [Handlers -> Request] /\ Shape'
    BY <1>8, <2>1, GotoTyped, ReturnTyped DEF CheckB, InsertTunnel, AddTunnel, Points
  <2> QED BY <1>0, <1>8, <2>1, <2>2 DEF CheckB, InsertTunnel, AddTunnel, NewTunnel, TypeOK, Status
<1>9. ASSUME NEW h \in Handlers, WriteToggle(h) \/ SetTunnelStatus(h) \/ RemoveTunnel(h)
      PROVE  TypeOK' /\ Shape'
  <2>1. req[h].on \in Tunnels /\ Busy(h) /\ req[h].st \in Status
    BY <1>9 DEF WriteToggle, SetTunnelStatus, RemoveTunnel, At, Shape, Busy, TypeOK, Request
  <2>2. req' \in [Handlers -> Request] /\ Shape'
    BY <1>9, <2>1, GotoTyped, ReturnTyped DEF WriteToggle, SetTunnelStatus, RemoveTunnel, Points
  <2> QED BY <1>0, <1>9, <2>1, <2>2 DEF WriteToggle, SetTunnelStatus, RemoveTunnel, Updated, TypeOK
<1>10. ASSUME NEW h \in Handlers, SeedCount(h) \/ SeedInsert(h) \/ Reload(h)
       PROVE  TypeOK' /\ Shape'
  <2>1. Busy(h)
    BY <1>10 DEF SeedCount, SeedInsert, Reload, At, Busy
  <2>2. req' \in [Handlers -> Request] /\ Shape'
    BY <1>10, <2>1, GotoTyped, ReturnTyped DEF SeedCount, SeedInsert, Reload, Points
  <2>3. CASE Reload(h)
    BY <1>0, <2>2, <2>3, LoadedTyped DEF Reload, TypeOK
  <2>4. CASE SeedCount(h) \/ SeedInsert(h)
    BY <1>0, <2>2, <2>4, SeedAssumption DEF SeedCount, SeedInsert, TypeOK
  <2> QED BY <1>10, <2>3, <2>4
<1>11. ASSUME NEW h \in Handlers, Audit(h)
       PROVE  TypeOK' /\ Shape'
  <2>1. Busy(h)
    BY <1>11 DEF Audit, At, Busy
  <2>2. <<req[h].op, req[h].on>> \in Actions \X (Sites \cup Tunnels \cup {None})
    BY <2>1 DEF Shape, TypeOK, Request
  <2>3. req' \in [Handlers -> Request] /\ Shape'
    BY <1>11, <2>1, GotoTyped, ReturnTyped DEF Audit, Points, Shape
  <2> QED BY <1>0, <1>11, <2>2, <2>3 DEF Audit, TypeOK
<1>12. ASSUME NEW a \in Agents, AgentStart(a) \/ \E t \in Tunnels : ApplyReport(a, t)
       PROVE  TypeOK' /\ Shape'
  BY <1>0, <1>12, IdAssumption DEF AgentStart, ApplyReport, TypeOK, Shape, Busy, Status
<1>13. ASSUME Crash
       PROVE  TypeOK' /\ Shape'
  BY <1>0, <1>13 DEF Crash, TypeOK, Shape, Busy, Idle, Request, Points, Status, Actions
<1>14. ASSUME Boot
       PROVE  TypeOK' /\ Shape'
  <2>1. Seeded \in [Tunnels -> Status \cup {Absent}]
    BY SeedAssumption DEF Seeded
  <2> QED BY <1>0, <1>14, <2>1, LoadedTyped, SeedAssumption DEF Boot, TypeOK, Shape, Busy
<1>15. CASE UNCHANGED vars
  BY <1>15 DEF vars, TypeOK, Shape, Busy
<1> QED
  BY <1>1, <1>2, <1>3, <1>4, <1>5, <1>6, <1>7, <1>8, <1>9, <1>10, <1>11, <1>12, <1>13, <1>14, <1>15
  DEF Next, Step, Arrive, Resume

\* In every reachable state the tables, the engine's map and the requests in
\* flight have their types.
THEOREM TypeCorrect == Spec => []TypeOK
<1>1. TypeOK /\ Shape /\ [Next]_vars => (TypeOK /\ Shape)'
  BY StepTyped
<1> QED BY InitTyped, <1>1, PTL DEF Spec

-----------------------------------------------------------------------------
\* Referential integrity rests on the cascade, on the foreign keys checked by
\* the INSERT and on the endpoints compared before it; resets included.

CreatesProper ==
  \A h \in Handlers : req[h].pc \in {"checkB", "insert"}
    => EndA[req[h].on] # EndB[req[h].on]

LEMMA StepIntegrity ==
  TypeOK /\ Shape /\ CreatesProper /\ ReferentialIntegrity /\ [Next]_vars
    => CreatesProper' /\ ReferentialIntegrity'
<1> SUFFICES ASSUME TypeOK, Shape, CreatesProper, ReferentialIntegrity, [Next]_vars
             PROVE  CreatesProper' /\ ReferentialIntegrity'
  OBVIOUS
<1> USE DEF CreatesProper, ReferentialIntegrity, ForeignKeysHold, Row, boot
<1>1. ASSUME NEW h \in Handlers, Arrive(h)
      PROVE  CreatesProper'
  <2>1. ASSUME NEW t \in Tunnels, CreateTunnel(h, t)
        PROVE  CreatesProper'
    BY <2>1 DEF CreateTunnel, Start, TypeOK
  <2>2. ASSUME NEW op, NEW x, NEW st, NEW p \in Points \ {"checkB", "insert"}, Start(h, op, x, st, p)
        PROVE  CreatesProper'
    BY <2>2 DEF Start, TypeOK
  <2> QED
    BY <1>1, <2>1, <2>2
    DEF Arrive, CreateSite, DeleteSite, ToggleTunnel, DeleteTunnel, UpdateTunnel, ResetWipe, Points
<1>2. ASSUME NEW h \in Handlers, Resume(h)
      PROVE  CreatesProper'
  <2>1. ASSUME NEW p \in Points \ {"checkB", "insert"}, Goto(h, p)
        PROVE  CreatesProper'
    BY <2>1 DEF Goto, TypeOK
  <2>2. ASSUME Return(h)
        PROVE  CreatesProper'
    BY <2>2 DEF Return, Idle, TypeOK
  <2>3. ASSUME CheckB(h)
        PROVE  CreatesProper'
    BY <2>3, <2>2 DEF CheckB, Goto, At, TypeOK, Request
  <2> QED
    BY <1>2, <2>1, <2>2, <2>3
    DEF Resume, InsertTunnel, AddTunnel, WriteToggle, SetTunnelStatus, RemoveTunnel,
        SeedCount, SeedInsert, Reload, Audit, Points
<1>3. ASSUME NEW h \in Handlers, NEW s \in Sites, CreateSite(h, s) \/ DeleteSite(h, s)
      PROVE  ReferentialIntegrity'
  BY <1>3 DEF CreateSite, DeleteSite, Touches, TypeOK
<1>4. ASSUME NEW h \in Handlers, NEW t \in Tunnels,
             \/ CreateTunnel(h, t) \/ ToggleTunnel(h, t) \/ DeleteTunnel(h, t)
             \/ \E st \in UpdateTo : UpdateTunnel(h, t, st)
      PROVE  ReferentialIntegrity'
  BY <1>4 DEF CreateTunnel, ToggleTunnel, DeleteTunnel, UpdateTunnel, Updated, TypeOK
<1>5. ASSUME NEW h \in Handlers, ResetWipe(h)
      PROVE  ReferentialIntegrity'
  BY <1>5 DEF ResetWipe
<1>6. ASSUME NEW h \in Handlers, InsertTunnel(h)
      PROVE  ReferentialIntegrity'
  BY <1>6 DEF InsertTunnel, At, Shape, TypeOK
<1>7. ASSUME NEW h \in Handlers, WriteToggle(h)
      PROVE  ReferentialIntegrity'
  BY <1>7 DEF WriteToggle, Updated, At, Shape, TypeOK
<1>8. ASSUME NEW h \in Handlers, SeedInsert(h)
      PROVE  ReferentialIntegrity'
  BY <1>8, SeedAssumption DEF SeedInsert, TypeOK
<1>9. ASSUME NEW h \in Handlers,
             \/ CheckB(h) \/ AddTunnel(h) \/ SetTunnelStatus(h) \/ RemoveTunnel(h)
             \/ SeedCount(h) \/ Reload(h) \/ Audit(h)
      PROVE  ReferentialIntegrity'
  BY <1>9 DEF CheckB, AddTunnel, SetTunnelStatus, RemoveTunnel, SeedCount, Reload, Audit
<1>10. ASSUME NEW a \in Agents, AgentStart(a) \/ \E t \in Tunnels : ApplyReport(a, t)
       PROVE  CreatesProper' /\ ReferentialIntegrity'
  BY <1>10 DEF AgentStart, ApplyReport
<1>11. ASSUME Crash
       PROVE  CreatesProper' /\ ReferentialIntegrity'
  BY <1>11 DEF Crash, Idle
<1>12. ASSUME Boot
       PROVE  CreatesProper' /\ ReferentialIntegrity'
  BY <1>12, SeedAssumption DEF Boot, Seeded
<1>13. CASE UNCHANGED vars
  BY <1>13 DEF vars
<1> QED
  BY <1>1, <1>2, <1>3, <1>4, <1>5, <1>6, <1>7, <1>8, <1>9, <1>10, <1>11, <1>12, <1>13
  DEF Next, Step, Arrive, Resume

\* Whatever overtakes what, a reset or a crash included, each tunnel row joins
\* two different sites that exist.
THEOREM EndpointsExist == Spec => []ReferentialIntegrity
<1>1. Init => CreatesProper /\ ReferentialIntegrity
  BY SeedAssumption DEF Init, CreatesProper, ReferentialIntegrity, ForeignKeysHold, Row, Seeded, Idle
<1>2. /\ TypeOK /\ Shape /\ CreatesProper /\ ReferentialIntegrity
      /\ [Next]_vars
      => (TypeOK /\ Shape /\ CreatesProper /\ ReferentialIntegrity)'
  BY StepTyped, StepIntegrity
<1> QED BY InitTyped, <1>1, <1>2, PTL DEF Spec
=============================================================================
