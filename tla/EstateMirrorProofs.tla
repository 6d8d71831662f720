------------------------- MODULE EstateMirrorProofs -------------------------
(***************************************************************************)
(* The engine's map and the audit trail against the tables, for any number *)
(* of sites, tunnels, requests and agents, whatever they do at the same    *)
(* time.  First that no tunnel is lost, then that row and live status go   *)
(* together as long as nothing has parted them, then the trail.            *)
(***************************************************************************)
EXTENDS EstateProofs

NoReset == "estate.reset" \notin Ops

\* A reset issues the seed's ids again, and a deletion still in flight then takes
\* a new tunnel for the one it deleted.  But for these an id has at most one row
\* in its life: it is fresh until its INSERT, and a request that deletes it finds
\* no row ever after.
OneLife ==
  /\ NoReset => residue
  /\ SeedTunnels \subseteq used
  /\ \A t \in Tunnels : Row(t) => t \in used
  /\ \A h \in Handlers :
       /\ NoReset => ~At(h, "seedCount") /\ ~At(h, "seedInsert")
       /\ At(h, "remove") => req[h].op = "tunnel.delete"
       /\ req[h].op = "tunnel.delete"
            => req[h].on \in used /\ (Row(req[h].on) => req[h].on \in Reissued)
       /\ At(h, "checkB") \/ At(h, "insert")
            => /\ req[h].on \notin used
               /\ req[h].op = "tunnel.create"
               /\ \A g \in Handlers \ {h} : req[g].on # req[h].on

LEMMA InitOneLife == Init => OneLife
BY SeedAssumption, IdAssumption DEF Init, OneLife, Row, Seeded, At, Idle

LEMMA StepOneLife ==
  ASSUME TypeOK, Shape, OneLife, [Next]_vars
  PROVE  OneLife'
<1> USE DEF OneLife, Row, At, boot
<1>1. ASSUME NEW h \in Handlers, NEW s \in Sites, CreateSite(h, s) \/ DeleteSite(h, s)
      PROVE  OneLife'
  <2>1. \A g \in Handlers : At(g, "checkB") \/ At(g, "insert") => req[g].on \in Tunnels /\ req[g].on # s
    BY IdAssumption DEF Shape
  <2>2. CASE CreateSite(h, s)
    BY <2>1, <2>2 DEF CreateSite, Start, TypeOK, Request
  <2>3. CASE DeleteSite(h, s)
    <3>1. \A t \in Tunnels : status'[t] # Absent => status[t] # Absent
      BY <2>3 DEF DeleteSite
    <3>2. \A g \in Handlers : req[g].op = "tunnel.delete" /\ status'[req[g].on] # Absent
                                => req[g].on \in Reissued
      BY <2>3 DEF DeleteSite, Shape
    <3>3. /\ used' = used /\ boot' = boot /\ s \in Sites
          /\ req'[h].pc \in {"audit", "reload"} /\ req'[h].op = "site.delete"
          /\ req'[h].on = s
          /\ \A g \in Handlers \ {h} : req'[g] = req[g]
      BY <2>3 DEF DeleteSite, Start, TypeOK, Request
    <3>4. /\ NoReset => residue'
          /\ SeedTunnels \subseteq used'
          /\ \A t \in Tunnels : Row(t)' => t \in used'
      BY <3>1, <3>3
    <3>5. ASSUME NEW g \in Handlers
          PROVE  /\ NoReset => ~At(g, "seedCount")' /\ ~At(g, "seedInsert")'
                 /\ At(g, "remove")' => req'[g].op = "tunnel.delete"
                 /\ req'[g].op = "tunnel.delete"
                      => req'[g].on \in used'
                         /\ (status'[req'[g].on] # Absent => req'[g].on \in Reissued)
      <4>1. CASE g = h
        BY <3>3, <4>1
      <4>2. CASE g # h
        BY <3>2, <3>3, <4>2
      <4> QED BY <4>1, <4>2
    <3>6. ASSUME NEW g \in Handlers, At(g, "checkB")' \/ At(g, "insert")'
          PROVE  /\ req'[g].on \notin used'
                 /\ req'[g].op = "tunnel.create"
                 /\ \A k \in Handlers \ {g} : req'[k].on # req'[g].on
      <4>1. g # h /\ (At(g, "checkB") \/ At(g, "insert"))
        BY <3>3, <3>6
      <4> QED BY <2>1, <3>3, <4>1
    <3> QED BY <3>4, <3>5, <3>6
  <2> QED BY <1>1, <2>2, <2>3
<1>2. ASSUME NEW h \in Handlers, NEW t \in Tunnels, CreateTunnel(h, t)
      PROVE  OneLife'
  BY <1>2 DEF CreateTunnel, Start, TypeOK, Request
<1>3. ASSUME NEW h \in Handlers, NEW t \in Tunnels, ToggleTunnel(h, t)
      PROVE  OneLife'
  BY <1>3 DEF ToggleTunnel, Start, TypeOK, Request
<1>4. ASSUME NEW h \in Handlers, NEW t \in Tunnels, NEW st \in UpdateTo, UpdateTunnel(h, t, st)
      PROVE  OneLife'
  BY <1>4 DEF UpdateTunnel, Updated, Start, TypeOK, Request
<1>5. ASSUME NEW h \in Handlers, NEW t \in Tunnels, DeleteTunnel(h, t)
      PROVE  OneLife'
  BY <1>5 DEF DeleteTunnel, Start, TypeOK, Request
<1>6. ASSUME NEW h \in Handlers, ResetWipe(h)
      PROVE  OneLife'
  <2>1. /\ ~NoReset /\ used' = used
        /\ \A t \in Tunnels : status'[t] = Absent
    BY <1>6 DEF ResetWipe, Start, NoReset
  <2>2. /\ req'[h].pc = "seedCount" /\ req'[h].op = "estate.reset" /\ req'[h].on = None
        /\ \A g \in Handlers \ {h} : req'[g] = req[g]
    BY <1>6 DEF ResetWipe, Start, TypeOK
  <2>3. \A g \in Handlers : req[g].op = "tunnel.delete" => req[g].on \in Tunnels
    BY DEF Shape
  <2>4. ASSUME NEW k \in Handlers, At(k, "checkB")' \/ At(k, "insert")'
        PROVE  /\ req'[k].on \notin used'
               /\ req'[k].op = "tunnel.create"
               /\ \A g \in Handlers \ {k} : req'[g].on # req'[k].on
    <3>1. k # h /\ req'[k] = req[k] /\ (At(k, "checkB") \/ At(k, "insert"))
      BY <2>2, <2>4
    <3>2. /\ req[k].on \notin used
          /\ req[k].op = "tunnel.create"
          /\ \A g \in Handlers \ {k} : req[g].on # req[k].on
      BY <3>1
    <3>3. ASSUME NEW g \in Handlers \ {k}
          PROVE  req'[g].on # req[k].on
      <4>1. CASE g = h
        <5>1. req'[g].on = None
          BY <2>2, <4>1
        <5>2. req[k].on # None
          BY <3>1, IdAssumption DEF Shape
        <5> QED BY <5>1, <5>2
      <4>2. CASE g # h
        BY <2>2, <3>2, <4>2
      <4> QED BY <4>1, <4>2
    <3> QED BY <2>1, <3>1, <3>2, <3>3
  <2>5. ASSUME NEW k \in Handlers
        PROVE  /\ At(k, "remove")' => req'[k].op = "tunnel.delete"
               /\ req'[k].op = "tunnel.delete" => req'[k].on \in used' /\ req'[k].on \in Tunnels
    BY <2>1, <2>2, <2>3
  <2>6. ~At(h, "seedInsert")'
    BY <2>2
  <2> QED BY <2>1, <2>4, <2>5, <2>6
<1>7. ASSUME NEW h \in Handlers, CheckB(h)
      PROVE  OneLife'
  <2>1. CASE Goto(h, "insert")
    BY <1>7, <2>1 DEF CheckB, Goto, Shape, TypeOK, Request
  <2>2. CASE Return(h)
    BY <1>7, <2>2, IdAssumption DEF CheckB, Return, Idle, Shape, TypeOK
  <2>3. Goto(h, "insert") \/ Return(h)
    BY <1>7 DEF CheckB
  <2> HIDE DEF OneLife
  <2> QED BY <2>1, <2>2, <2>3
<1>8. ASSUME NEW h \in Handlers, InsertTunnel(h)
      PROVE  OneLife'
  <2> DEFINE t == req[h].on
  <2>1. /\ t \notin used
        /\ req[h].op = "tunnel.create"
        /\ \A g \in Handlers \ {h} : req[g].on # t
    BY <1>8 DEF InsertTunnel
  <2>2. /\ \A g \in Handlers \ {h} : req'[g] = req[g]
        /\ req'[h].pc \in {"add", "idle"}
        /\ req'[h].op \in {"tunnel.create", "none"}
    BY <1>8, <2>1 DEF InsertTunnel, Goto, Return, Idle, TypeOK, Request
  <2>3. /\ used \subseteq used' /\ used' \subseteq used \cup {t}
        /\ residue' = residue
    BY <1>8 DEF InsertTunnel
  <2>4. \A u \in Tunnels : Row(u)' => u \in used' /\ (u # t => Row(u))
    BY <1>8 DEF InsertTunnel, TypeOK
  <2> HIDE DEF t
  <2>5. (NoReset => residue') /\ SeedTunnels \subseteq used'
    BY <2>3
  <2>6. ASSUME NEW k \in Handlers
        PROVE  /\ NoReset => ~At(k, "seedCount")' /\ ~At(k, "seedInsert")'
               /\ At(k, "remove")' => req'[k].op = "tunnel.delete"
    <3>1. CASE k = h
      BY <2>2, <3>1
    <3>2. CASE k # h
      BY <2>2, <3>2
    <3> QED BY <3>1, <3>2
  <2>7. ASSUME NEW k \in Handlers, req'[k].op = "tunnel.delete"
        PROVE  req'[k].on \in used' /\ (status'[req'[k].on] # Absent => req'[k].on \in Reissued)
    <3>1. k # h /\ req'[k] = req[k]
      BY <2>2, <2>7
    <3>2. req[k].on \in used /\ (Row(req[k].on) => req[k].on \in Reissued)
      BY <2>7, <3>1
    <3>3. req[k].on # t /\ req[k].on \in Tunnels
      BY <2>1, <2>7, <3>1, <3>2 DEF Shape
    <3>4. req[k].on \in used'
      BY <2>3, <3>2
    <3>5. ASSUME status'[req[k].on] # Absent
          PROVE  req[k].on \in Reissued
      <4>1. Row(req[k].on)
        BY <2>4, <3>1, <3>3, <3>5
      <4> QED BY <3>2, <4>1
    <3> QED BY <3>1, <3>4, <3>5
  <2>8. ASSUME NEW k \in Handlers, At(k, "checkB")' \/ At(k, "insert")'
        PROVE  /\ req'[k].on \notin used'
               /\ req'[k].op = "tunnel.create"
               /\ \A g \in Handlers \ {k} : req'[g].on # req'[k].on
    <3>1. k # h /\ req'[k] = req[k]
      BY <2>2, <2>8
    <3>2. /\ req[k].on \notin used
          /\ req[k].op = "tunnel.create"
          /\ \A g \in Handlers \ {k} : req[g].on # req[k].on
      BY <2>8, <3>1
    <3>3. req[k].on # t
      BY <2>1, <3>1
    <3>4. req'[h].on \in {t, None} /\ req[k].on # None
      <4>1. req'[h].on \in {t, None}
        BY <1>8 DEF InsertTunnel, Goto, Return, Idle, TypeOK, Request, t
      <4>2. req[k].on # None
        BY <2>8, <3>1, IdAssumption DEF Shape
      <4> QED BY <4>1, <4>2
    <3>5. ASSUME NEW g \in Handlers \ {k}
          PROVE  req'[g].on # req[k].on
      <4>1. CASE g = h
        BY <3>3, <3>4, <4>1
      <4>2. CASE g # h
        BY <2>2, <3>2, <4>2
      <4> QED BY <4>1, <4>2
    <3> QED BY <2>3, <3>1, <3>2, <3>3, <3>5
  <2>9. \A u \in Tunnels : Row(u)' => u \in used'
    BY <2>4
  <2> QED BY <2>5, <2>6, <2>7, <2>8, <2>9
<1>9. ASSUME NEW h \in Handlers, AddTunnel(h) \/ SetTunnelStatus(h)
      PROVE  OneLife'
  <2>1. Goto(h, "audit") /\ UNCHANGED <<status, used, residue>>
    BY <1>9 DEF AddTunnel, SetTunnelStatus
  <2> QED BY <2>1 DEF Goto, TypeOK, Request
<1>10. ASSUME NEW h \in Handlers, WriteToggle(h)
       PROVE  OneLife'
  BY <1>10 DEF WriteToggle, Updated, Goto, Shape, TypeOK, Request
<1>11. ASSUME NEW h \in Handlers, RemoveTunnel(h)
       PROVE  OneLife'
  BY <1>11, IdAssumption DEF RemoveTunnel, Return, Idle, Shape, TypeOK, Request
<1>12. ASSUME NEW h \in Handlers, SeedCount(h) \/ SeedInsert(h)
       PROVE  OneLife'
  <2>1. ~NoReset /\ Reissued = SeedTunnels
    BY <1>12 DEF SeedCount, SeedInsert, NoReset, Reissued
  <2>2. used' = used /\ \A t \in Tunnels \ SeedTunnels : status'[t] = status[t]
    BY <1>12 DEF SeedCount, SeedInsert
  <2>3. /\ \A g \in Handlers \ {h} : req'[g] = req[g]
        /\ req'[h].pc \in {"seedInsert", "reload", "idle"}
        /\ \/ req'[h].op = req[h].op /\ req'[h].on = req[h].on
           \/ req'[h] = Idle
    BY <1>12 DEF SeedCount, SeedInsert, Goto, Return, Idle, TypeOK, Request
  <2>4. \A g \in Handlers : req[g].op = "tunnel.delete" => req[g].on \in Tunnels
    BY DEF Shape
  <2> QED BY <2>1, <2>2, <2>3, <2>4, IdAssumption, SeedAssumption DEF Idle, Shape
<1>13. ASSUME NEW h \in Handlers, Reload(h)
       PROVE  OneLife'
  <2>1. UNCHANGED <<status, used, residue>>
    BY <1>13 DEF Reload
  <2>2. /\ \A g \in Handlers \ {h} : req'[g] = req[g]
        /\ req'[h].pc \in {"audit", "idle"}
        /\ \/ req'[h].op = "estate.reset" /\ req'[h].on = req[h].on
           \/ req'[h].op = "none" /\ req'[h].on = None
    BY <1>13 DEF Reload, Goto, Return, Idle, TypeOK, Request
  <2>3. \A g \in Handlers : At(g, "checkB") \/ At(g, "insert") => req[g].on \in Tunnels
    BY DEF Shape
  <2> QED BY <2>1, <2>2, <2>3, IdAssumption
<1>14. ASSUME NEW h \in Handlers, Audit(h)
       PROVE  OneLife'
  <2>1. CASE Goto(h, "remove") /\ req[h].op = "tunnel.delete"
    BY <1>14, <2>1 DEF Audit, Goto, TypeOK, Request
  <2>2. CASE Goto(h, "reload")
    BY <1>14, <2>2 DEF Audit, Goto, TypeOK, Request
  <2>3. CASE Return(h)
    BY <1>14, <2>3, IdAssumption DEF Audit, Return, Idle, Shape, TypeOK
  <2>4. (Goto(h, "remove") /\ req[h].op = "tunnel.delete") \/ Goto(h, "reload") \/ Return(h)
    BY <1>14 DEF Audit
  <2> HIDE DEF OneLife
  <2> QED BY <2>1, <2>2, <2>3, <2>4
<1>15. ASSUME NEW a \in Agents, AgentStart(a) \/ \E t \in Tunnels : ApplyReport(a, t)
       PROVE  OneLife'
  BY <1>15 DEF AgentStart, ApplyReport
<1>16. ASSUME Crash \/ Boot
       PROVE  OneLife'
  <2>1. UNCHANGED used /\ (NoReset => residue' /\ UNCHANGED status)
    BY <1>16 DEF Crash, Boot
  <2>2. CASE Crash
    BY <2>1, <2>2 DEF Crash, Idle
  <2>3. CASE Boot
    <3>1. CASE UNCHANGED status
      BY <2>1, <2>3, <3>1 DEF Boot
    <3>2. CASE status' = Seeded
      <4>1. \A t \in Tunnels : status'[t] # Absent => t \in SeedTunnels
        BY <3>2 DEF Seeded
      <4>2. ~NoReset => Reissued = SeedTunnels
        BY DEF NoReset, Reissued
      <4> QED BY <2>1, <2>3, <4>1, <4>2 DEF Boot, Shape
    <3> QED BY <2>3, <3>1, <3>2 DEF Boot
  <2> QED BY <1>16, <2>2, <2>3
<1>17. CASE UNCHANGED vars
  BY <1>17 DEF vars
<1> QED
  BY <1>1, <1>2, <1>3, <1>4, <1>5, <1>6, <1>7, <1>8, <1>9, <1>10, <1>11, <1>12, <1>13, <1>14,
     <1>15, <1>16, <1>17
  DEF Next, Step, Arrive, Resume

-----------------------------------------------------------------------------
\* A map filled anew tracks the rows, each with what the engine takes its
\* status for.
LEMMA LoadedAgrees ==
  ASSUME NEW rows, NEW t \in Tunnels
  PROVE  /\ rows[t] = Absent => Loaded(rows)[t] = Absent
         /\ rows[t] # Absent => /\ Loaded(rows)[t] # Absent
                               /\ Loaded(rows)[t] = NewTunnel(rows[t])
BY DEF Loaded, NewTunnel, Absent

-----------------------------------------------------------------------------
LEMMA StepNoLost ==
  ASSUME TypeOK, Shape, OneLife, NoLostTunnel, [Next]_vars
  PROVE  NoLostTunnel'
<1> USE DEF NoLostTunnel, Row, At, boot
<1>1. ASSUME NEW h \in Handlers, NEW s \in Sites, CreateSite(h, s) \/ DeleteSite(h, s)
      PROVE  NoLostTunnel'
  <2>1. up' = up /\ live' = live /\ \A u \in Tunnels : status'[u] # Absent => status[u] # Absent
    BY <1>1 DEF CreateSite, DeleteSite
  <2>2. \A g \in Handlers : req[g].pc = "add" => req'[g] = req[g]
    BY <1>1 DEF CreateSite, DeleteSite, Start, Busy, TypeOK
  <2> QED BY <2>1, <2>2
<1>2. ASSUME NEW h \in Handlers, NEW t \in Tunnels,
             \/ CreateTunnel(h, t) \/ ToggleTunnel(h, t) \/ DeleteTunnel(h, t)
             \/ \E st \in UpdateTo : UpdateTunnel(h, t, st)
      PROVE  NoLostTunnel'
  <2>1. up' = up /\ live' = live /\ \A u \in Tunnels : status'[u] # Absent => status[u] # Absent
    BY <1>2 DEF CreateTunnel, ToggleTunnel, DeleteTunnel, UpdateTunnel, Updated, TypeOK
  <2>2. \A g \in Handlers : req[g].pc = "add" => req'[g] = req[g]
    BY <1>2 DEF CreateTunnel, ToggleTunnel, DeleteTunnel, UpdateTunnel, Start, Busy, TypeOK
  <2> QED BY <2>1, <2>2
<1>3. ASSUME NEW h \in Handlers, ResetWipe(h)
      PROVE  NoLostTunnel'
  BY <1>3 DEF ResetWipe
<1>4. ASSUME NEW h \in Handlers, InsertTunnel(h)
      PROVE  NoLostTunnel'
  <2>1. \A g \in Handlers : req[g].pc = "add" => req'[g] = req[g]
    BY <1>4 DEF InsertTunnel, Goto, Return, TypeOK
  <2>2. CASE UNCHANGED status
    BY <1>4, <2>1, <2>2 DEF InsertTunnel
  <2>3. CASE Goto(h, "add")
    <3>1. req'[h].pc = "add" /\ req'[h].on = req[h].on
      BY <2>3 DEF Goto, TypeOK, Request
    <3>2. \A t \in Tunnels : t # req[h].on => status'[t] = status[t]
      BY <1>4 DEF InsertTunnel, TypeOK
    <3> QED BY <1>4, <2>1, <3>1, <3>2 DEF InsertTunnel
  <2> QED BY <1>4, <2>2, <2>3 DEF InsertTunnel
<1>5. ASSUME NEW h \in Handlers, AddTunnel(h)
      PROVE  NoLostTunnel'
  BY <1>5 DEF AddTunnel, NewTunnel, Goto, Shape, TypeOK, Request, Absent
<1>6. ASSUME NEW h \in Handlers, WriteToggle(h) \/ CheckB(h) \/ Audit(h)
      PROVE  NoLostTunnel'
  <2>1. up' = up /\ live' = live /\ \A u \in Tunnels : status'[u] # Absent => status[u] # Absent
    BY <1>6 DEF WriteToggle, CheckB, Audit, Updated, TypeOK
  <2>2. \A g \in Handlers : req[g].pc = "add" => req'[g] = req[g]
    BY <1>6 DEF WriteToggle, CheckB, Audit, Goto, Return, TypeOK
  <2> QED BY <2>1, <2>2
<1>7. ASSUME NEW h \in Handlers, SetTunnelStatus(h) \/ RemoveTunnel(h)
      PROVE  NoLostTunnel'
  <2>1. up' = up /\ status' = status
    BY <1>7 DEF SetTunnelStatus, RemoveTunnel
  <2>2. \A t \in Tunnels \ Reissued : Row(t) /\ live'[t] = Absent => live[t] = Absent
    BY <1>7, IdAssumption DEF SetTunnelStatus, RemoveTunnel, OneLife, Shape, TypeOK, Request, Status, Absent
  <2>3. \A g \in Handlers : req[g].pc = "add" => req'[g] = req[g]
    BY <1>7 DEF SetTunnelStatus, RemoveTunnel, Goto, Return, TypeOK
  <2> QED BY <2>1, <2>2, <2>3
<1>8. ASSUME NEW h \in Handlers, SeedCount(h) \/ SeedInsert(h)
      PROVE  NoLostTunnel'
  <2>1. NoReset = FALSE /\ Reissued = SeedTunnels
    BY <1>8 DEF SeedCount, SeedInsert, OneLife, NoReset, Reissued
  <2>2. /\ UNCHANGED <<live, up>>
        /\ \A t \in Tunnels \ SeedTunnels : status'[t] = status[t]
    BY <1>8 DEF SeedCount, SeedInsert
  <2>3. \A g \in Handlers : req[g].pc = "add" => req'[g] = req[g]
    BY <1>8 DEF SeedCount, SeedInsert, Goto, Return, TypeOK
  <2> QED BY <2>1, <2>2, <2>3
<1>9. ASSUME NEW h \in Handlers, Reload(h)
      PROVE  NoLostTunnel'
  BY <1>9, LoadedAgrees DEF Reload
<1>10. ASSUME NEW a \in Agents, AgentStart(a) \/ \E t \in Tunnels : ApplyReport(a, t)
       PROVE  NoLostTunnel'
  <2>1. UNCHANGED <<status, req, up>>
    BY <1>10 DEF AgentStart, ApplyReport
  <2>2. \A t \in Tunnels : live'[t] = Absent => live[t] = Absent
    <3>1. CASE AgentStart(a)
      BY <3>1 DEF AgentStart
    <3>2. ASSUME NEW t \in Tunnels, ApplyReport(a, t)
          PROVE  \A u \in Tunnels : live'[u] = Absent => live[u] = Absent
      <4>1. live' = [live EXCEPT ![t] = "up"] /\ live \in [Tunnels -> Status \cup {Absent}]
        BY <3>2 DEF ApplyReport, TypeOK
      <4>2. "up" # Absent
        BY DEF Absent
      <4> QED BY <4>1, <4>2
    <3> QED BY <1>10, <3>1, <3>2
  <2> QED BY <2>1, <2>2
<1>11. ASSUME Crash \/ Boot
       PROVE  NoLostTunnel'
  BY <1>11, LoadedAgrees DEF Crash, Boot
<1>12. CASE UNCHANGED vars
  BY <1>12 DEF vars
<1> QED
  BY <1>1, <1>2, <1>3, <1>4, <1>5, <1>6, <1>7, <1>8, <1>9, <1>10, <1>11, <1>12
  DEF Next, Step, Arrive, Resume

\* The engine never forgets a tunnel: each row of a running server is in
\* telemetry, or about to be added by the request that inserted it, unless its
\* id is one that a reset issues again.
THEOREM NothingLost == Spec => []NoLostTunnel
<1>1. Init => NoLostTunnel
  BY LoadedAgrees DEF Init, NoLostTunnel, Row
<1>2. TypeOK /\ Shape /\ OneLife /\ NoLostTunnel /\ [Next]_vars
        => (TypeOK /\ Shape /\ OneLife /\ NoLostTunnel)'
  BY StepTyped, StepOneLife, StepNoLost
<1> QED BY InitTyped, InitOneLife, <1>1, <1>2, PTL DEF Spec

-----------------------------------------------------------------------------
\* A site's id is never issued twice, so a site that comes is an end of no
\* tunnel that ever was: the sites of a tunnel are lost for good.
EndsUsed ==
  /\ SeedSites \subseteq used
  /\ sites \subseteq used
  /\ \A t \in used \cap Tunnels : EndA[t] \in used /\ EndB[t] \in used

LEMMA InitEndsUsed == Init => EndsUsed
BY SeedAssumption, IdAssumption DEF Init, EndsUsed

LEMMA StepEndsUsed ==
  ASSUME TypeOK, Shape, EndsUsed, [Next]_vars
  PROVE  EndsUsed'
<1> USE DEF EndsUsed, boot
<1>1. ASSUME NEW h \in Handlers, NEW s \in Sites, CreateSite(h, s) \/ DeleteSite(h, s)
      PROVE  EndsUsed'
  BY <1>1, IdAssumption DEF CreateSite, DeleteSite
<1>2. ASSUME NEW h \in Handlers, InsertTunnel(h)
      PROVE  EndsUsed'
  <2>1. req[h].on \in Tunnels
    BY <1>2 DEF InsertTunnel, At, Shape
  <2> QED BY <1>2, <2>1 DEF InsertTunnel, ForeignKeysHold
<1>3. ASSUME NEW h \in Handlers, ResetWipe(h) \/ SeedInsert(h)
      PROVE  EndsUsed'
  BY <1>3 DEF ResetWipe, SeedInsert
<1>4. CASE Boot
  BY <1>4 DEF Boot
<1>5. ASSUME UNCHANGED <<sites, used>>
      PROVE  EndsUsed'
  BY <1>5
<1>6. ASSUME NEW h \in Handlers, Resume(h)
      PROVE  UNCHANGED <<sites, used>> \/ InsertTunnel(h) \/ SeedInsert(h)
  BY <1>6
  DEF Resume, CheckB, AddTunnel, WriteToggle, SetTunnelStatus, RemoveTunnel, SeedCount, Reload, Audit
<1>7. ASSUME NEW h \in Handlers, Arrive(h)
      PROVE  \/ UNCHANGED <<sites, used>>
             \/ \E s \in Sites : CreateSite(h, s) \/ DeleteSite(h, s)
             \/ ResetWipe(h)
  BY <1>7 DEF Arrive, CreateTunnel, ToggleTunnel, UpdateTunnel, DeleteTunnel
<1>8. CASE Crash \/ UNCHANGED vars \/ \E a \in Agents : AgentStart(a) \/ \E t \in Tunnels : ApplyReport(a, t)
  BY <1>8 DEF Crash, vars, AgentStart, ApplyReport
<1> HIDE DEF EndsUsed
<1> QED BY <1>1, <1>2, <1>3, <1>4, <1>5, <1>6, <1>7, <1>8 DEF Next, Step

\* No creation or deletion of a site gives a tunnel that had a row its two
\* sites back.
LEMMA EndsNeverReturn ==
  ASSUME TypeOK, EndsUsed, NEW h \in Handlers, NEW s \in Sites, CreateSite(h, s) \/ DeleteSite(h, s),
         NEW t \in used \cap Tunnels, ForeignKeysHold(t)'
  PROVE  ForeignKeysHold(t)
BY EndsAssumption DEF CreateSite, DeleteSite, ForeignKeysHold, EndsUsed

-----------------------------------------------------------------------------
\* What is true of requests and of the engine's map whatever overlaps: an id is
\* tracked, reported on or about to be added only after its row was inserted; a
\* process that is down has no request.
Tracked ==
  /\ \A t \in Tunnels : live[t] # Absent => t \in used
  /\ \A a \in Agents : known[a] \subseteq used
  /\ ~up => \A h \in Handlers : req[h] = Idle
  /\ \A h \in Handlers :
       /\ At(h, "add") => req[h].on \in used
       /\ req[h].op = "tunnel.delete" => At(h, "audit") \/ At(h, "remove")
       /\ At(h, "seedCount") \/ At(h, "seedInsert") => req[h].op = "estate.reset"
       /\ req[h].op = "site.delete" => req[h].on \notin Tunnels

LEMMA InitTracked == Init => Tracked
BY LoadedAgrees, IdAssumption DEF Init, Tracked, At, Idle, Seeded

\* What is left to show of a step of a request.
LEMMA TrackedOn ==
  ASSUME Tracked, NEW h \in Handlers, up', used \subseteq used', UNCHANGED known,
         \A g \in Handlers \ {h} : req'[g] = req[g],
         \A t \in Tunnels : live'[t] # Absent => live[t] # Absent \/ t \in used',
         At(h, "add")' => req'[h].on \in used',
         req'[h].op = "tunnel.delete" => At(h, "audit")' \/ At(h, "remove")',
         At(h, "seedCount")' \/ At(h, "seedInsert")' => req'[h].op = "estate.reset",
         req'[h].op = "site.delete" => req'[h].on \notin Tunnels
  PROVE  Tracked'
BY DEF Tracked, At

LEMMA StepTracked ==
  ASSUME TypeOK, Shape, OneLife, Tracked, Next
  PROVE  Tracked'
<1>1. ASSUME NEW h \in Handlers, Arrive(h)
      PROVE  Tracked'
  <2>1. PICK op, x, st, p : Start(h, op, x, st, p)
    BY <1>1 DEF Arrive, CreateSite, DeleteSite, CreateTunnel, ToggleTunnel, UpdateTunnel,
                DeleteTunnel, ResetWipe
  <2>2. up' /\ \A g \in Handlers \ {h} : req'[g] = req[g]
    BY <1>1, <2>1 DEF Start, TypeOK, Arrive, CreateSite, DeleteSite, CreateTunnel, ToggleTunnel,
                      UpdateTunnel, DeleteTunnel, ResetWipe, boot
  <2>3. used \subseteq used' /\ UNCHANGED <<live, known>>
    BY <1>1 DEF Arrive, CreateSite, DeleteSite, CreateTunnel, ToggleTunnel, UpdateTunnel,
                DeleteTunnel, ResetWipe
  <2>4. /\ ~At(h, "add")' /\ ~At(h, "seedInsert")'
        /\ req'[h].op = "tunnel.delete" => At(h, "audit")' \/ At(h, "remove")'
        /\ At(h, "seedCount")' => req'[h].op = "estate.reset"
        /\ req'[h].op = "site.delete" => req'[h].on \notin Tunnels
    <3>1. ASSUME NEW o, NEW y, NEW z, NEW q, Start(h, o, y, z, q)
          PROVE  req'[h].pc = q /\ req'[h].op = o /\ req'[h].on = y
      BY <3>1 DEF Start, TypeOK
    <3>2. ASSUME NEW s \in Sites, CreateSite(h, s) \/ DeleteSite(h, s)
          PROVE  /\ req'[h].op # "tunnel.delete" /\ req'[h].pc \in {"audit", "reload"}
                 /\ req'[h].on \notin Tunnels
      BY <3>1, <3>2, IdAssumption DEF CreateSite, DeleteSite
    <3>3. ASSUME NEW t \in Tunnels, CreateTunnel(h, t) \/ ToggleTunnel(h, t)
          PROVE  req'[h].op \notin {"tunnel.delete", "site.delete"} /\ req'[h].pc \in {"checkB", "write"}
      BY <3>1, <3>3 DEF CreateTunnel, ToggleTunnel
    <3>4. ASSUME NEW t \in Tunnels, NEW z \in UpdateTo, UpdateTunnel(h, t, z)
          PROVE  req'[h].op \notin {"tunnel.delete", "site.delete"} /\ req'[h].pc = "mirror"
      BY <3>1, <3>4 DEF UpdateTunnel
    <3>5. ASSUME NEW t \in Tunnels, DeleteTunnel(h, t)
          PROVE  req'[h].op # "site.delete" /\ req'[h].pc \in {"audit", "remove"}
      BY <3>1, <3>5 DEF DeleteTunnel
    <3>6. CASE ResetWipe(h)
      BY <3>1, <3>6 DEF ResetWipe, At
    <3> QED BY <1>1, <3>2, <3>3, <3>4, <3>5, <3>6 DEF Arrive, At
  <2> QED BY <2>2, <2>3, <2>4, TrackedOn
<1>2. ASSUME NEW h \in Handlers, Resume(h)
      PROVE  Tracked'
  <2>1. up
    BY <1>2 DEF Resume, CheckB, InsertTunnel, AddTunnel, WriteToggle, SetTunnelStatus,
                RemoveTunnel, SeedCount, SeedInsert, Reload, Audit, At, Tracked, Idle
  <2>2. up' /\ UNCHANGED known /\ used \subseteq used'
    BY <1>2, <2>1 DEF Resume, CheckB, InsertTunnel, AddTunnel, WriteToggle, SetTunnelStatus,
                RemoveTunnel, SeedCount, SeedInsert, Reload, Audit, boot
  <2>3. \A g \in Handlers \ {h} : req'[g] = req[g]
    BY <1>2 DEF Resume, CheckB, InsertTunnel, AddTunnel, WriteToggle, SetTunnelStatus,
                RemoveTunnel, SeedCount, SeedInsert, Reload, Audit, Goto, Return, TypeOK
  <2>4. \A t \in Tunnels : live'[t] # Absent => live[t] # Absent \/ t \in used'
    <3>1. CASE AddTunnel(h)
      BY <3>1 DEF AddTunnel, TypeOK, Shape, Tracked, At
    <3>2. CASE Reload(h)
      BY <3>2, LoadedAgrees DEF Reload, OneLife, Row
    <3>3. CASE SetTunnelStatus(h) \/ RemoveTunnel(h)
      BY <3>3 DEF SetTunnelStatus, RemoveTunnel, TypeOK
    <3>4. CASE UNCHANGED live
      BY <3>4
    <3> QED BY <1>2, <3>1, <3>2, <3>3, <3>4
      DEF Resume, CheckB, InsertTunnel, WriteToggle, SeedCount, SeedInsert, Audit
  <2>5. At(h, "add")' => req'[h].on \in used'
    BY <1>2 DEF Resume, CheckB, InsertTunnel, AddTunnel, WriteToggle, SetTunnelStatus,
                RemoveTunnel, SeedCount, SeedInsert, Reload, Audit, Goto, Return, Idle, At,
                TypeOK, Request
  <2>6. /\ req'[h].op = "tunnel.delete" => At(h, "audit")' \/ At(h, "remove")'
        /\ At(h, "seedCount")' \/ At(h, "seedInsert")' => req'[h].op = "estate.reset"
        /\ req'[h].op = "site.delete" => req'[h].on \notin Tunnels
    BY <1>2 DEF Resume, CheckB, InsertTunnel, AddTunnel, WriteToggle, SetTunnelStatus,
                RemoveTunnel, SeedCount, SeedInsert, Reload, Audit, Goto, Return, Idle, At,
                TypeOK, Request, Tracked
  <2> QED BY <2>2, <2>3, <2>4, <2>5, <2>6, TrackedOn
<1>3. ASSUME NEW a \in Agents, AgentStart(a) \/ \E t \in Tunnels : ApplyReport(a, t)
      PROVE  Tracked'
  <2>1. UNCHANGED <<req, used, up>>
    BY <1>3 DEF AgentStart, ApplyReport, boot
  <2>2. \A t \in Tunnels : live'[t] # Absent => t \in used
    BY <1>3 DEF AgentStart, ApplyReport, TypeOK, Tracked
  <2>3. \A b \in Agents : known'[b] \subseteq used
    BY <1>3, IdAssumption DEF AgentStart, ApplyReport, TypeOK, Tracked, OneLife
  <2> QED BY <2>1, <2>2, <2>3 DEF Tracked, At
<1>4. CASE Crash
  BY <1>4 DEF Crash, Tracked, Idle, At
<1>5. CASE Boot
  <2>1. \A t \in Tunnels : status'[t] # Absent => t \in used
    BY <1>5 DEF Boot, OneLife, Row, Seeded
  <2> QED BY <1>5, <2>1, LoadedAgrees DEF Boot, Tracked, At
<1> QED BY <1>1, <1>2, <1>3, <1>4, <1>5 DEF Next, Step

-----------------------------------------------------------------------------
\* What holds of a tunnel as long as its row and its live status go together:
\* one request at most is at work on it; what that one is about to mirror is in
\* the row; what it is about to add has its row, unless a cascade took it.
OneAtWork(t) == \A g, h \in Handlers : Works(g, t) /\ Works(h, t) => g = h

Owed(t) ==
  \A h \in Handlers : req[h].on = t =>
    /\ At(h, "mirror") /\ Row(t) => status[t] = req[h].st
    /\ At(h, "add") /\ Row(t) => status[t] = "up"
    /\ At(h, "add") /\ ForeignKeysHold(t) => Row(t)

Mirrored(t) ==
  Row(t) /\ live[t] # Absent /\ ~Agrees(t)
    => \E h \in Handlers : WillMirror(h, t) \/ Reseeds(h)

Removed(t) ==
  ~Row(t) /\ ForeignKeysHold(t) /\ live[t] # Absent
    => \E h \in Handlers : WillRemove(h, t) \/ Reseeds(h)

Together(t) == OneAtWork(t) /\ Owed(t) /\ Mirrored(t) /\ Removed(t)
Joined == \A t \in Tunnels \ parted : Together(t)

LEMMA InitJoined == Init => Joined
<1> SUFFICES ASSUME Init, NEW t \in Tunnels PROVE Together(t)
  BY DEF Joined
<1>1. OneAtWork(t) /\ Owed(t)
  BY IdAssumption DEF Init, OneAtWork, Owed, Works, Idle
<1>2. Mirrored(t) /\ Removed(t)
  BY LoadedAgrees DEF Init, Mirrored, Removed, Agrees, Row
<1> QED BY <1>1, <1>2 DEF Together

\* A step of h that leaves the rows of t and the engine's, keeps or takes the
\* sites of t, and neither makes h owe nor ends what h would repair.
LEMMA LeavesAlone ==
  ASSUME NEW t \in Tunnels, NEW h \in Handlers, Owed(t), Mirrored(t), Removed(t),
         \A g \in Handlers \ {h} : req'[g] = req[g],
         live'[t] = live[t],
         status'[t] = status[t] \/ (status'[t] = Absent /\ ~ForeignKeysHold(t)'),
         t \in used /\ ForeignKeysHold(t)' => ForeignKeysHold(t),
         live[t] # Absent => t \in used,
         \A g \in Handlers : At(g, "add") => req[g].on \in used,
         req'[h].on = t => ~At(h, "mirror")' /\ ~At(h, "add")',
         WillMirror(h, t) => WillMirror(h, t)',
         WillRemove(h, t) => WillRemove(h, t)',
         ~Reseeds(h)
  PROVE  Owed(t)' /\ Mirrored(t)' /\ Removed(t)'
<1>1. Owed(t)'
  BY DEF Owed, At, Row
<1>2. \A g \in Handlers : WillMirror(g, t) \/ Reseeds(g) => (WillMirror(g, t) \/ Reseeds(g))'
  BY DEF WillMirror, Reseeds, At
<1>3. \A g \in Handlers : WillRemove(g, t) \/ Reseeds(g) => (WillRemove(g, t) \/ Reseeds(g))'
  BY DEF WillRemove, Reseeds, At
<1>4. Mirrored(t)'
  BY <1>2 DEF Mirrored, Row, Agrees
<1>5. Removed(t)'
  BY <1>3 DEF Removed, Row
<1> QED BY <1>1, <1>4, <1>5

\* Nobody at work on t is left to owe it anything.
LEMMA OwedByNobody ==
  ASSUME NEW t \in Tunnels, \A h \in Handlers : ~Works(h, t)
  PROVE  OneAtWork(t) /\ Owed(t)
BY DEF OneAtWork, Owed, Works, At

\* Every step but a crash, a boot and an agent's is one request's.
LEMMA OneMoves ==
  ASSUME TypeOK, NEW h \in Handlers, Arrive(h) \/ Resume(h)
  PROVE  up' = up /\ \A g \in Handlers \ {h} : req'[g] = req[g]
<1>1. CASE Arrive(h)
  BY <1>1 DEF TypeOK, boot, Start, Arrive, CreateSite, DeleteSite, CreateTunnel, ToggleTunnel,
              UpdateTunnel, DeleteTunnel, ResetWipe
<1>2. CASE Resume(h)
  BY <1>2 DEF TypeOK, boot, Goto, Return, Resume, CheckB, InsertTunnel, AddTunnel, WriteToggle,
              SetTunnelStatus, RemoveTunnel, SeedCount, SeedInsert, Reload, Audit
<1> QED BY <1>1, <1>2

\* A request that is at work on a tunnel, and was not before, has just begun.
LEMMA WorkBegins ==
  ASSUME TypeOK, Shape, OneLife, Tracked, Next, NEW t \in Tunnels, NEW h \in Handlers,
         ~Works(h, t), Works(h, t)'
  PROVE  \/ CreateTunnel(h, t) \/ ToggleTunnel(h, t) \/ DeleteTunnel(h, t)
         \/ \E st \in UpdateTo : UpdateTunnel(h, t, st)
<1>1. req'[h] # req[h] /\ req'[h].on = t
  BY DEF Works, At
<1>2. ~Resume(h)
  <2> SUFFICES ASSUME Resume(h) PROVE FALSE
    OBVIOUS
  <2>1. req'[h] = Idle \/ \E p : req'[h].pc = p /\ req'[h].on = req[h].on /\ req'[h].op = req[h].op
    BY DEF TypeOK, Request, Goto, Return, Resume, CheckB, InsertTunnel, AddTunnel, WriteToggle,
           SetTunnelStatus, RemoveTunnel, SeedCount, SeedInsert, Reload, Audit
  <2>2. req[h].on = t /\ req[h].op = req'[h].op
    BY <1>1, <2>1, IdAssumption DEF Idle
  <2>3. At(h, "audit") /\ req[h].op # "tunnel.delete"
    BY <2>2 DEF Works
  <2>4. Audit(h)
    BY <2>3 DEF At, Resume, CheckB, InsertTunnel, AddTunnel, WriteToggle, SetTunnelStatus,
                RemoveTunnel, SeedCount, SeedInsert, Reload
  <2>5. req[h].op = "site.delete"
    BY <1>1, <2>3, <2>4, IdAssumption DEF Audit, Return, Idle, TypeOK
  <2> QED BY <2>2, <2>5 DEF Tracked
<1>3. ~Crash /\ ~Boot /\ \A a \in Agents : ~AgentStart(a) /\ \A u \in Tunnels : ~ApplyReport(a, u)
  BY <1>1, IdAssumption DEF Crash, Idle, Boot, AgentStart, ApplyReport
<1>4. PICK k \in Handlers : Arrive(k) \/ Resume(k)
  BY <1>3 DEF Next, Step
<1>5. k = h
  BY <1>1, <1>4, OneMoves
<1>6. Arrive(h)
  BY <1>2, <1>4, <1>5
<1>7. ASSUME NEW op, NEW x, NEW st, NEW p, Start(h, op, x, st, p)
      PROVE  x = t
  BY <1>1, <1>7 DEF Start, TypeOK
<1>8. ~ResetWipe(h)
  BY <1>7, IdAssumption DEF ResetWipe
<1>9. \A s \in Sites : ~CreateSite(h, s) /\ ~DeleteSite(h, s)
  BY <1>7, IdAssumption DEF CreateSite, DeleteSite
<1>10. ASSUME NEW u \in Tunnels,
              \/ CreateTunnel(h, u) \/ ToggleTunnel(h, u) \/ DeleteTunnel(h, u)
              \/ \E st \in UpdateTo : UpdateTunnel(h, u, st)
       PROVE  u = t
  BY <1>7, <1>10 DEF CreateTunnel, ToggleTunnel, DeleteTunnel, UpdateTunnel
<1> QED BY <1>6, <1>8, <1>9, <1>10 DEF Arrive

\* What mends a tunnel joins its row and its live status again.
LEMMA MendsJoin ==
  ASSUME TypeOK, Shape, OneLife, Tracked, Next, NEW t \in Tunnels, Mends(t)
  PROVE  Together(t)'
<1>1. CASE up' # up
  <2>1. Crash \/ Boot
    BY <1>1, OneMoves DEF Next, Step, AgentStart, ApplyReport, boot
  <2>2. \A h \in Handlers : req'[h] = Idle
    BY <2>1 DEF Crash, Boot, Tracked
  <2>3. OneAtWork(t)' /\ Owed(t)'
    BY <2>2, IdAssumption DEF Idle, OneAtWork, Owed, Works, At
  <2>4. Mirrored(t)' /\ Removed(t)'
    BY <2>1, LoadedAgrees DEF Crash, Boot, Mirrored, Removed, Agrees, Row
  <2> QED BY <2>3, <2>4 DEF Together
<1>2. ASSUME ~AtWork(t), NEW h \in Handlers, Reload(h)
      PROVE  Together(t)'
  <2>1. /\ \A g \in Handlers \ {h} : req'[g] = req[g]
        /\ req'[h].on = t => req[h].on = t
    BY <1>2, IdAssumption DEF Reload, Goto, Return, Idle, TypeOK, Request
  <2>2. \A g \in Handlers : ~Works(g, t)'
    BY <1>2, <2>1 DEF AtWork, Works, At, Reload
  <2>3. OneAtWork(t)' /\ Owed(t)'
    BY <2>2 DEF OneAtWork, Owed, Works, At
  <2>4. Mirrored(t)' /\ Removed(t)'
    BY <1>2, LoadedAgrees DEF Reload, Mirrored, Removed, Agrees, Row
  <2> QED BY <2>3, <2>4 DEF Together
<1>3. ASSUME ~AtWork(t), NEW h \in Handlers, Works(h, t)', Row(t) \/ req'[h].op = "tunnel.delete"
      PROVE  Together(t)'
  <2>1. \/ CreateTunnel(h, t) \/ ToggleTunnel(h, t) \/ DeleteTunnel(h, t)
        \/ \E st \in UpdateTo : UpdateTunnel(h, t, st)
    BY <1>3, WorkBegins DEF AtWork
  <2>2. \A g \in Handlers \ {h} : req'[g] = req[g]
    BY <2>1, OneMoves DEF Arrive
  <2>3. \A g \in Handlers \ {h} : ~Works(g, t)'
    BY <1>3, <2>2 DEF AtWork, Works, At
  <2>4. ~CreateTunnel(h, t)
    BY <1>3 DEF CreateTunnel, Start, OneLife, TypeOK
  <2>5. OneAtWork(t)'
    BY <2>3 DEF OneAtWork
  <2>6. req'[h].on = t /\ ~At(h, "add")'
    BY <2>1, <2>4 DEF ToggleTunnel, DeleteTunnel, UpdateTunnel, Start, TypeOK, At
  <2>7. CASE ToggleTunnel(h, t)
    <3>1. status'[t] # Absent /\ WillMirror(h, t)' /\ ~At(h, "mirror")'
      BY <2>7 DEF ToggleTunnel, Row, Start, TypeOK, WillMirror, At
    <3>2. Owed(t)'
      BY <2>3, <2>6, <3>1 DEF Owed, Works, At
    <3> QED BY <2>5, <3>1, <3>2 DEF Together, Mirrored, Removed, Row
  <2>8. CASE DeleteTunnel(h, t)
    <3>1. status'[t] = Absent /\ WillRemove(h, t)' /\ ~At(h, "mirror")'
      BY <2>8 DEF DeleteTunnel, Start, TypeOK, WillRemove, At
    <3>2. Owed(t)'
      BY <2>3, <2>6, <3>1 DEF Owed, Works, At
    <3> QED BY <2>5, <3>1, <3>2 DEF Together, Mirrored, Removed, Row
  <2>9. ASSUME NEW st \in UpdateTo, UpdateTunnel(h, t, st)
        PROVE  Together(t)'
    <3>1. req'[h].st = st /\ req'[h].op # "tunnel.delete" /\ WillMirror(h, t)'
      BY <2>9 DEF UpdateTunnel, Start, TypeOK, WillMirror, At
    <3>2. status'[t] = st /\ st # Absent
      BY <1>3, <2>9, <3>1, IdAssumption DEF UpdateTunnel, Updated, Row, TypeOK
    <3>3. Owed(t)'
      BY <2>3, <2>6, <3>1, <3>2 DEF Owed, Works, At
    <3> QED BY <2>5, <3>1, <3>2, <3>3 DEF Together, Mirrored, Removed, Row
  <2> QED BY <2>1, <2>4, <2>7, <2>8, <2>9
<1> QED BY <1>1, <1>2, <1>3 DEF Mends

\* No other step parts them.
LEMMA StaysTogether ==
  ASSUME TypeOK, Shape, OneLife, Tracked, EndsUsed, Next, NEW t \in Tunnels,
         Together(t), ~Parts(t), up' = up
  PROVE  Together(t)'
<1>0. OneAtWork(t) /\ Owed(t) /\ Mirrored(t) /\ Removed(t)
  BY DEF Together
<1>1. OneAtWork(t)'
  BY DEF Parts, OneAtWork
<1>2. live[t] # Absent => t \in used
  BY DEF Tracked
<1>3. \A g \in Handlers : At(g, "add") => req[g].on \in used
  BY DEF Tracked
<1>4. \A h \in Handlers : ~Busy(h) => ~WillMirror(h, t) /\ ~WillRemove(h, t) /\ ~Reseeds(h)
  BY DEF Busy, At, WillMirror, WillRemove, Reseeds, Tracked
<1>5. ASSUME NEW h \in Handlers, NEW s \in Sites, CreateSite(h, s) \/ DeleteSite(h, s)
      PROVE  Together(t)'
  <2>1. ~Busy(h) /\ \A g \in Handlers \ {h} : req'[g] = req[g]
    BY <1>5, OneMoves DEF Arrive, CreateSite, DeleteSite, Start
  <2>2. /\ live'[t] = live[t]
        /\ status'[t] = status[t] \/ (status'[t] = Absent /\ ~ForeignKeysHold(t)')
    BY <1>5 DEF CreateSite, DeleteSite, Touches, ForeignKeysHold
  <2>3. t \in used /\ ForeignKeysHold(t)' => ForeignKeysHold(t)
    BY <1>5, EndsNeverReturn
  <2>4. req'[h].on # t
    BY <1>5, IdAssumption DEF CreateSite, DeleteSite, Start, TypeOK
  <2> QED BY <1>0, <1>1, <1>2, <1>3, <1>4, <2>1, <2>2, <2>3, <2>4, LeavesAlone DEF Together
<1>6. ASSUME NEW h \in Handlers, NEW u \in Tunnels, CreateTunnel(h, u) \/ ToggleTunnel(h, u)
      PROVE  Together(t)'
  <2>1. ~Busy(h) /\ \A g \in Handlers \ {h} : req'[g] = req[g]
    BY <1>6, OneMoves DEF Arrive, CreateTunnel, ToggleTunnel, Start
  <2>2. UNCHANGED <<live, status, sites>>
    BY <1>6 DEF CreateTunnel, ToggleTunnel
  <2>3. ~At(h, "mirror")' /\ ~At(h, "add")'
    BY <1>6 DEF CreateTunnel, ToggleTunnel, Start, TypeOK, At
  <2> QED BY <1>0, <1>1, <1>2, <1>3, <1>4, <2>1, <2>2, <2>3, LeavesAlone
          DEF Together, ForeignKeysHold
<1>7. ASSUME NEW h \in Handlers, NEW u \in Tunnels, u # t,
             DeleteTunnel(h, u) \/ \E st \in UpdateTo : UpdateTunnel(h, u, st)
      PROVE  Together(t)'
  <2>1. ~Busy(h) /\ \A g \in Handlers \ {h} : req'[g] = req[g]
    BY <1>7, OneMoves DEF Arrive, DeleteTunnel, UpdateTunnel, Start
  <2>2. UNCHANGED <<live, sites>> /\ status'[t] = status[t]
    BY <1>7 DEF DeleteTunnel, UpdateTunnel, Updated, TypeOK
  <2>3. req'[h].on # t
    BY <1>7 DEF DeleteTunnel, UpdateTunnel, Start, TypeOK
  <2> QED BY <1>0, <1>1, <1>2, <1>3, <1>4, <2>1, <2>2, <2>3, LeavesAlone
          DEF Together, ForeignKeysHold
<1>8. ASSUME NEW h \in Handlers, NEW st \in UpdateTo, UpdateTunnel(h, t, st)
      PROVE  Together(t)'
  <2>1. ~Busy(h) /\ \A g \in Handlers \ {h} : req'[g] = req[g]
    BY <1>8, OneMoves DEF Arrive, UpdateTunnel, Start
  <2>2. /\ UNCHANGED <<live, sites>>
        /\ status'[t] = IF Row(t) THEN st ELSE Absent
        /\ st # Absent
    BY <1>8, IdAssumption DEF UpdateTunnel, Updated, TypeOK
  <2>3. req'[h].on = t /\ At(h, "mirror")' /\ req'[h].st = st
    BY <1>8 DEF UpdateTunnel, Start, TypeOK, At
  <2>4. \A g \in Handlers \ {h} : ~Works(g, t)'
    BY <1>1, <2>3 DEF OneAtWork, Works, At
  <2>5. Owed(t)'
    BY <2>2, <2>3, <2>4 DEF Owed, Works, Row, At
  <2>6. Mirrored(t)'
    BY <2>3 DEF Mirrored, WillMirror
  <2>7. Removed(t)'
    <3>1. \A g \in Handlers : WillRemove(g, t) \/ Reseeds(g) => (WillRemove(g, t) \/ Reseeds(g))'
      BY <1>4, <2>1 DEF WillRemove, Reseeds, At
    <3> QED BY <1>0, <2>2, <3>1 DEF Removed, Row, ForeignKeysHold
  <2> QED BY <1>1, <2>5, <2>6, <2>7 DEF Together
<1>9. ASSUME NEW h \in Handlers, DeleteTunnel(h, t)
      PROVE  Together(t)'
  <2>1. status'[t] = Absent
    BY <1>9 DEF DeleteTunnel, TypeOK
  <2>2. /\ WillRemove(h, t)' /\ req'[h].on = t /\ ~At(h, "add")' /\ ~At(h, "mirror")'
        /\ At(h, "audit")' => req'[h].op = "tunnel.delete"
    BY <1>9 DEF DeleteTunnel, Start, TypeOK, At, WillRemove
  <2>3. \A g \in Handlers \ {h} : ~Works(g, t)'
    BY <1>1, <2>2 DEF OneAtWork, Works, At
  <2>4. Owed(t)'
    BY <2>2, <2>3 DEF Owed, Works, At
  <2> QED BY <1>1, <2>1, <2>2, <2>4 DEF Together, Mirrored, Removed, Row
<1>10. ASSUME NEW h \in Handlers, ResetWipe(h)
       PROVE  Together(t)'
  <2>1. status'[t] = Absent /\ ~ForeignKeysHold(t)'
    BY <1>10 DEF ResetWipe, ForeignKeysHold
  <2> QED BY <1>1, <2>1 DEF Together, Owed, Mirrored, Removed, Row
<1>11. ASSUME NEW h \in Handlers,
              \/ CheckB(h) \/ SeedCount(h) \/ Audit(h)
              \/ /\ InsertTunnel(h) \/ SeedInsert(h)
                 /\ Return(h)
                 /\ UNCHANGED <<sites, status>>
       PROVE  Together(t)'
  <2>1. \A g \in Handlers \ {h} : req'[g] = req[g]
    BY <1>11, OneMoves DEF Resume
  <2>2. UNCHANGED <<live, status, sites>>
    BY <1>11 DEF CheckB, SeedCount, Audit, InsertTunnel, SeedInsert
  <2>3. ~At(h, "mirror")' /\ ~At(h, "add")'
    BY <1>11 DEF CheckB, SeedCount, Audit, Goto, Return, Idle, TypeOK, Request, At
  <2>4. ~WillMirror(h, t) /\ ~Reseeds(h)
    BY <1>11 DEF CheckB, SeedCount, Audit, InsertTunnel, SeedInsert, At, WillMirror, Reseeds
  <2>5. WillRemove(h, t) => WillRemove(h, t)'
    BY <1>11 DEF CheckB, SeedCount, Audit, InsertTunnel, SeedInsert, At, WillRemove, Tracked,
                 Goto, TypeOK, Request
  <2> QED BY <1>0, <1>1, <1>2, <1>3, <2>1, <2>2, <2>3, <2>4, <2>5, LeavesAlone
          DEF Together, ForeignKeysHold
<1>12. ASSUME NEW h \in Handlers, InsertTunnel(h), Goto(h, "add"),
              status' = [status EXCEPT ![req[h].on] = "up"]
       PROVE  Together(t)'
  <2>1. \A g \in Handlers \ {h} : req'[g] = req[g] /\ req[g].on # req[h].on
    BY <1>12, OneMoves DEF Resume, InsertTunnel, OneLife
  <2>2. UNCHANGED <<live, sites>> /\ ~WillMirror(h, t) /\ ~Reseeds(h) /\ ~WillRemove(h, t)
    BY <1>12 DEF InsertTunnel, At, WillMirror, Reseeds, WillRemove, Tracked
  <2>3. req'[h].on = req[h].on /\ At(h, "add")'
    BY <1>12 DEF Goto, TypeOK, Request, At
  <2>4. CASE req[h].on = t
    <3>1. status'[t] = "up" /\ live'[t] = Absent
      BY <1>12, <2>2, <2>4 DEF InsertTunnel, OneLife, Tracked, TypeOK
    <3>2. Owed(t)'
      BY <2>1, <2>3, <2>4, <3>1 DEF Owed, At, Row, Absent
    <3> QED BY <1>1, <3>1, <3>2 DEF Together, Mirrored, Removed
  <2>5. CASE req[h].on # t
    <3>1. status'[t] = status[t]
      BY <1>12, <2>5 DEF TypeOK
    <3> QED BY <1>0, <1>1, <1>2, <1>3, <2>1, <2>2, <2>3, <2>5, <3>1, LeavesAlone
            DEF Together, ForeignKeysHold
  <2> QED BY <2>4, <2>5
<1>13. ASSUME NEW h \in Handlers, AddTunnel(h) \/ SetTunnelStatus(h) \/ RemoveTunnel(h) \/ WriteToggle(h),
              req[h].on # t
       PROVE  Together(t)'
  <2>1. \A g \in Handlers \ {h} : req'[g] = req[g]
    BY <1>13, OneMoves DEF Resume
  <2>2. /\ sites' = sites /\ live'[t] = live[t] /\ status'[t] = status[t]
    BY <1>13 DEF AddTunnel, SetTunnelStatus, RemoveTunnel, WriteToggle, Updated, TypeOK
  <2>3. req'[h].on # t /\ ~WillMirror(h, t) /\ ~WillRemove(h, t) /\ ~Reseeds(h)
    BY <1>13, IdAssumption DEF AddTunnel, SetTunnelStatus, RemoveTunnel, WriteToggle, Goto, Return, Idle,
                 TypeOK, Request, At, WillMirror, WillRemove, Reseeds
  <2> QED BY <1>0, <1>1, <1>2, <1>3, <2>1, <2>2, <2>3, LeavesAlone DEF Together, ForeignKeysHold
<1>14. ASSUME NEW h \in Handlers, AddTunnel(h), req[h].on = t
       PROVE  Together(t)'
  <2>1. \A g \in Handlers \ {h} : req'[g] = req[g]
    BY <1>14, OneMoves DEF Resume
  <2>2. /\ UNCHANGED <<sites, status>>
        /\ live'[t] = IF live[t] = Absent THEN "up" ELSE live[t]
        /\ ~WillMirror(h, t) /\ ~WillRemove(h, t) /\ ~Reseeds(h)
        /\ At(h, "add")
    BY <1>14 DEF AddTunnel, NewTunnel, TypeOK, At, WillMirror, WillRemove, Reseeds, Tracked
  <2>3. ~At(h, "add")' /\ ~At(h, "mirror")'
    BY <1>14 DEF AddTunnel, Goto, TypeOK, Request, At
  <2>4. Owed(t)'
    BY <1>0, <2>1, <2>2, <2>3 DEF Owed, At, Row, ForeignKeysHold
  <2>5. /\ Row(t) => status[t] = "up"
        /\ ForeignKeysHold(t) => Row(t)
    BY <1>0, <1>14, <2>2 DEF Owed
  <2>6. Mirrored(t)'
    <3>1. \A g \in Handlers : WillMirror(g, t) \/ Reseeds(g) => (WillMirror(g, t) \/ Reseeds(g))'
      BY <2>1, <2>2 DEF WillMirror, Reseeds, At
    <3> QED BY <1>0, <2>2, <2>5, <3>1 DEF Mirrored, Agrees, Row
  <2>7. Removed(t)'
    BY <2>2, <2>5 DEF Removed, Row, ForeignKeysHold
  <2> QED BY <1>1, <2>4, <2>6, <2>7 DEF Together
<1>15. ASSUME NEW h \in Handlers, WriteToggle(h), req[h].on = t
       PROVE  Together(t)'
  <2>1. \A g \in Handlers \ {h} : req'[g] = req[g]
    BY <1>15, OneMoves DEF Resume
  <2>2. /\ UNCHANGED <<sites, live>>
        /\ status'[t] = IF Row(t) THEN req[h].st ELSE Absent
        /\ req[h].st # Absent
        /\ ~WillRemove(h, t) /\ ~Reseeds(h)
    BY <1>15, IdAssumption DEF WriteToggle, Updated, TypeOK, Request, Status, Absent, At,
                               WillRemove, Reseeds, Tracked
  <2>3. At(h, "mirror")' /\ req'[h].on = t /\ req'[h].st = req[h].st
    BY <1>15 DEF WriteToggle, Goto, TypeOK, Request, At
  <2>4. \A g \in Handlers \ {h} : ~Works(g, t)'
    BY <1>1, <2>3 DEF OneAtWork, Works, At
  <2>5. Owed(t)'
    BY <2>2, <2>3, <2>4 DEF Owed, Works, Row, At
  <2>6. Mirrored(t)'
    BY <2>3 DEF Mirrored, WillMirror
  <2>7. Removed(t)'
    <3>1. \A g \in Handlers : WillRemove(g, t) \/ Reseeds(g) => (WillRemove(g, t) \/ Reseeds(g))'
      BY <2>1, <2>2 DEF WillRemove, Reseeds, At
    <3> QED BY <1>0, <2>2, <3>1 DEF Removed, Row, ForeignKeysHold
  <2> QED BY <1>1, <2>5, <2>6, <2>7 DEF Together
<1>16. ASSUME NEW h \in Handlers, SetTunnelStatus(h), req[h].on = t
       PROVE  Together(t)'
  <2>1. \A g \in Handlers \ {h} : req'[g] = req[g]
    BY <1>16, OneMoves DEF Resume
  <2>2. /\ UNCHANGED <<sites, status>>
        /\ live'[t] = IF live[t] = Absent THEN Absent ELSE req[h].st
        /\ ~WillRemove(h, t) /\ ~Reseeds(h)
        /\ At(h, "mirror")
    BY <1>16 DEF SetTunnelStatus, TypeOK, At, WillRemove, Reseeds, Tracked
  <2>3. ~At(h, "add")' /\ ~At(h, "mirror")'
    BY <1>16 DEF SetTunnelStatus, Goto, TypeOK, Request, At
  <2>4. Owed(t)'
    BY <1>0, <2>1, <2>2, <2>3 DEF Owed, At, Row, ForeignKeysHold
  <2>5. Row(t) => status[t] = req[h].st
    BY <1>0, <1>16, <2>2 DEF Owed
  <2>6. Mirrored(t)'
    BY <2>2, <2>5 DEF Mirrored, Agrees, Row
  <2>7. Removed(t)'
    <3>1. \A g \in Handlers : WillRemove(g, t) \/ Reseeds(g) => (WillRemove(g, t) \/ Reseeds(g))'
      BY <2>1, <2>2 DEF WillRemove, Reseeds, At
    <3> QED BY <1>0, <2>2, <3>1 DEF Removed, Row, ForeignKeysHold
  <2> QED BY <1>1, <2>4, <2>6, <2>7 DEF Together
<1>17. ASSUME NEW h \in Handlers, RemoveTunnel(h), req[h].on = t
       PROVE  Together(t)'
  <2>1. \A g \in Handlers \ {h} : req'[g] = req[g]
    BY <1>17, OneMoves DEF Resume
  <2>2. UNCHANGED <<sites, status>> /\ live'[t] = Absent
    BY <1>17 DEF RemoveTunnel, TypeOK
  <2>3. ~At(h, "add")' /\ ~At(h, "mirror")'
    BY <1>17 DEF RemoveTunnel, Return, Idle, TypeOK, Request, At
  <2>4. Owed(t)'
    BY <1>0, <2>1, <2>2, <2>3 DEF Owed, At, Row, ForeignKeysHold
  <2> QED BY <1>1, <2>2, <2>4 DEF Together, Mirrored, Removed
<1>18. ASSUME NEW h \in Handlers, SeedInsert(h), Goto(h, "reload"), ~residue, residue'
       PROVE  Together(t)'
  <2>1. up
    BY <1>18 DEF SeedInsert, At, Tracked, Idle
  <2>2. \A g \in Handlers : ~Works(g, t)
    BY <1>18, <2>1 DEF Parts, AtWork
  <2>3. Reseeds(h)'
    BY <1>18 DEF SeedInsert, Goto, At, Reseeds, Tracked, TypeOK, Request
  <2>4. Owed(t)'
    BY <1>18, <2>2, <2>3, OneMoves DEF Resume, Owed, Works, At, Reseeds
  <2> QED BY <1>1, <2>3, <2>4 DEF Together, Mirrored, Removed
<1>19. ASSUME NEW h \in Handlers, Reload(h)
       PROVE  Together(t)'
  <2>1. \A g \in Handlers \ {h} : req'[g] = req[g]
    BY <1>19, OneMoves DEF Resume
  <2>2. UNCHANGED <<sites, status>> /\ ~At(h, "add")' /\ ~At(h, "mirror")'
    BY <1>19 DEF Reload, Goto, Return, Idle, TypeOK, Request, At
  <2>3. Owed(t)'
    BY <1>0, <2>1, <2>2 DEF Owed, At, Row, ForeignKeysHold
  <2>4. Mirrored(t)' /\ Removed(t)'
    BY <1>19, LoadedAgrees DEF Reload, Mirrored, Removed, Agrees, Row
  <2> QED BY <1>1, <2>3, <2>4 DEF Together
<1>20. ASSUME NEW a \in Agents, AgentStart(a) \/ \E u \in Tunnels : ApplyReport(a, u)
       PROVE  Together(t)'
  <2>1. UNCHANGED <<sites, status, req>> /\ live'[t] = live[t]
    BY <1>20 DEF AgentStart, ApplyReport, Parts, TypeOK
  <2> QED BY <1>0, <2>1 DEF Together, OneAtWork, Works, Owed, Mirrored, Removed, At, Row,
                            ForeignKeysHold, Agrees, WillMirror, WillRemove, Reseeds
<1>21. ~Crash /\ ~Boot
  BY DEF Crash, Boot
<1>22. ASSUME NEW h \in Handlers, Arrive(h)
       PROVE  Together(t)'
  BY <1>5, <1>6, <1>7, <1>8, <1>9, <1>10, <1>22 DEF Arrive
<1>23. ASSUME NEW h \in Handlers, Resume(h)
       PROVE  Together(t)'
  <2>1. CASE InsertTunnel(h)
    <3>1. \/ Goto(h, "add") /\ status' = [status EXCEPT ![req[h].on] = "up"]
          \/ Return(h) /\ UNCHANGED <<sites, status>>
      BY <2>1 DEF InsertTunnel
    <3> QED BY <1>11, <1>12, <2>1, <3>1
  <2>2. CASE SeedInsert(h)
    <3>1. \/ Goto(h, "reload") /\ ~residue /\ residue'
          \/ Return(h) /\ UNCHANGED <<sites, status>>
      BY <2>2, Zenon DEF SeedInsert
    <3> QED BY <1>11, <1>18, <2>2, <3>1
  <2>3. CASE AddTunnel(h) \/ SetTunnelStatus(h) \/ RemoveTunnel(h) \/ WriteToggle(h)
    BY <1>13, <1>14, <1>15, <1>16, <1>17, <2>3
  <2>4. CASE CheckB(h) \/ SeedCount(h) \/ Audit(h)
    BY <1>11, <2>4
  <2> QED BY <1>19, <1>23, <2>1, <2>2, <2>3, <2>4 DEF Resume
<1> QED BY <1>20, <1>21, <1>22, <1>23 DEF Next, Step

LEMMA StepJoined ==
  ASSUME TypeOK, Shape, OneLife, Tracked, EndsUsed, Joined, [Next]_vars
  PROVE  Joined'
<1>1. CASE Next
  <2> SUFFICES ASSUME NEW t \in Tunnels, t \notin parted' PROVE Together(t)'
    BY DEF Joined
  <2>1. ~Parts(t) /\ (t \in parted => Mends(t))
    BY <1>1 DEF Next
  <2>2. CASE Mends(t)
    BY <1>1, <2>2, MendsJoin
  <2>3. CASE ~Mends(t)
    <3>1. Together(t) /\ up' = up
      BY <2>1, <2>3 DEF Joined, Mends
    <3> QED BY <1>1, <2>1, <3>1, StaysTogether
  <2> QED BY <2>2, <2>3
<1>2. CASE UNCHANGED vars
  BY <1>2 DEF vars, Joined, Together, OneAtWork, Works, Owed, Mirrored, Removed, At, Row,
              ForeignKeysHold, Agrees, WillMirror, WillRemove, Reseeds
<1> QED BY <1>1, <1>2

LEMMA AlwaysJoined == Spec => [](TypeOK /\ Shape /\ OneLife /\ Tracked /\ EndsUsed /\ Joined)
<1>1. ASSUME Tracked, UNCHANGED vars
      PROVE  Tracked'
  BY <1>1 DEF vars, Tracked, At
<1>2. /\ TypeOK /\ Shape /\ OneLife /\ Tracked /\ EndsUsed /\ Joined
      /\ [Next]_vars
      => (TypeOK /\ Shape /\ OneLife /\ Tracked /\ EndsUsed /\ Joined)'
  BY <1>1, StepTyped, StepOneLife, StepTracked, StepEndsUsed, StepJoined
<1> QED BY InitTyped, InitOneLife, InitTracked, InitEndsUsed, InitJoined, <1>2, PTL DEF Spec

\* Whatever the clients, the agents and the process do, and however requests on
\* other tunnels, cascades, resets, reloads and crashes fall: the row and the
\* live status of a tunnel go together, or a request at hand will see to it,
\* but for a tunnel on which two requests have overlapped, or one and a seed, or
\* an agent reported, and that none of the events of Mends has come to since.
THEOREM MirrorCorrect == Spec => []MirrorAgrees
<1>1. Joined => MirrorAgrees
  BY DEF Joined, Together, Mirrored, MirrorAgrees
<1> QED BY AlwaysJoined, <1>1, PTL

\* With the same exceptions a tunnel without a row, whose sites exist, leaves
\* telemetry with the request that deleted it or the reset that brought its
\* sites back: no reload, cascade or crash, and no creation that is late to tell
\* the engine, leaves one behind.
THEOREM NoGhosts == Spec => []GhostExplained
<1>1. Joined => GhostExplained
  BY DEF Joined, Together, Removed, GhostExplained
<1> QED BY AlwaysJoined, <1>1, PTL

-----------------------------------------------------------------------------
\* A wiped estate has none of the seed's sites until it is seeded again, and
\* the tunnels created meanwhile end elsewhere: seeding gives no tunnel that was
\* deleted since the wipe its two sites back.
WipedClean ==
  ~residue =>
    /\ SeedSites \cap sites = {}
    /\ \A t \in (used \cap Tunnels) \ cut : EndA[t] \notin SeedSites /\ EndB[t] \notin SeedSites

LEMMA CutGrows == Next => cut \subseteq cut'
BY DEF Next

LEMMA WipeCuts ==
  ASSUME Next, NEW h \in Handlers, ResetWipe(h)
  PROVE  used \subseteq cut'
<1>1. up' = up
  BY DEF ResetWipe
<1>2. CutShort = used
  BY <1>1 DEF CutShort
<1> QED BY <1>2 DEF Next

LEMMA StepWipedClean ==
  ASSUME TypeOK, Shape, EndsUsed, WipedClean, Next
  PROVE  WipedClean'
<1> USE DEF WipedClean
<1>1. ASSUME residue' = residue, sites' \cap SeedSites \subseteq sites, used' \cap Tunnels \subseteq used
      PROVE  WipedClean'
  BY <1>1, CutGrows
<1>2. ASSUME NEW h \in Handlers, NEW s \in Sites, CreateSite(h, s) \/ DeleteSite(h, s)
      PROVE  WipedClean'
  BY <1>1, <1>2, IdAssumption DEF CreateSite, DeleteSite, EndsUsed, boot
<1>3. ASSUME NEW h \in Handlers, ResetWipe(h)
      PROVE  WipedClean'
  BY <1>3, WipeCuts DEF ResetWipe
<1>4. ASSUME NEW h \in Handlers, InsertTunnel(h)
      PROVE  WipedClean'
  <2>1. req[h].on \in Tunnels
    BY <1>4 DEF InsertTunnel, At, Shape
  <2>2. UNCHANGED <<sites, residue>>
    BY <1>4 DEF InsertTunnel, boot
  <2>3. used' = used \/ (used' = used \cup {req[h].on} /\ ForeignKeysHold(req[h].on))
    BY <1>4 DEF InsertTunnel
  <2>4. CASE used' = used
    BY <1>1, <2>2, <2>4
  <2>5. CASE used' = used \cup {req[h].on} /\ ForeignKeysHold(req[h].on)
    BY <2>1, <2>2, <2>5, CutGrows DEF ForeignKeysHold
  <2> QED BY <2>3, <2>4, <2>5
<1>5. ASSUME NEW h \in Handlers, SeedInsert(h)
      PROVE  WipedClean'
  BY <1>1, <1>5 DEF SeedInsert
<1>6. CASE Boot
  BY <1>1, <1>6 DEF Boot
<1>7. ASSUME UNCHANGED <<sites, used, residue>>
      PROVE  WipedClean'
  BY <1>1, <1>7
<1>8. ASSUME NEW h \in Handlers, Resume(h)
      PROVE  UNCHANGED <<sites, used, residue>> \/ InsertTunnel(h) \/ SeedInsert(h)
  BY <1>8
  DEF Resume, CheckB, AddTunnel, WriteToggle, SetTunnelStatus, RemoveTunnel, SeedCount, Reload, Audit, boot
<1>9. ASSUME NEW h \in Handlers, Arrive(h)
      PROVE  \/ UNCHANGED <<sites, used, residue>>
             \/ \E s \in Sites : CreateSite(h, s) \/ DeleteSite(h, s)
             \/ ResetWipe(h)
  BY <1>9 DEF Arrive, CreateTunnel, ToggleTunnel, UpdateTunnel, DeleteTunnel, boot
<1>10. CASE Crash \/ \E a \in Agents : AgentStart(a) \/ \E t \in Tunnels : ApplyReport(a, t)
  BY <1>7, <1>10 DEF Crash, AgentStart, ApplyReport, boot
<1> HIDE DEF WipedClean
<1> QED BY <1>2, <1>3, <1>4, <1>5, <1>6, <1>7, <1>8, <1>9, <1>10 DEF Next, Step

\* An event is on the trail, or a request that has yet to reach its Audit step
\* is about to write it: one that has passed it owes nothing more.
Due(op, x) ==
  \/ <<op, x>> \in audit
  \/ \E h \in Handlers : /\ req[h].pc \in {"add", "audit"}
                         /\ req[h].op = op
                         /\ req[h].on = x

AuditDue ==
  /\ \A s \in (used \cap Sites) \ cut :
       /\ s \notin SeedSites => Due("site.create", s)
       /\ s \notin sites => Due("site.delete", s)
  /\ \A t \in (used \cap Tunnels) \ cut :
       /\ t \notin SeedTunnels => Due("tunnel.create", t)
       /\ ~Row(t) /\ ForeignKeysHold(t) => Due("tunnel.delete", t)

\* What is due stays due: a step of a request leaves those of the others alone,
\* and one that is at "add" or "audit" moves on towards the trail.
LEMMA DuePersists ==
  ASSUME TypeOK, Next, NEW op \in Creations \cup Deletions, NEW x, Due(op, x), x \in used, x \notin cut', x # None
  PROVE  Due(op, x)'
<1> USE DEF At
<1>1. ASSUME NEW h \in Handlers, ~Busy(h), audit' = audit,
             \A g \in Handlers \ {h} : req'[g] = req[g]
      PROVE  Due(op, x)'
  BY <1>1 DEF Due, Busy
<1>2. ASSUME NEW h \in Handlers, Arrive(h)
      PROVE  Due(op, x)'
  <2>1. ~ResetWipe(h)
    BY WipeCuts
  <2>2. ASSUME NEW o, NEW y, NEW st, NEW p, Start(h, o, y, st, p)
        PROVE  ~Busy(h) /\ \A g \in Handlers \ {h} : req'[g] = req[g]
    BY <2>2 DEF Start, TypeOK
  <2>3. audit' = audit /\ \E o, y, st, p : Start(h, o, y, st, p)
    BY <1>2, <2>1
    DEF Arrive, CreateSite, DeleteSite, CreateTunnel, ToggleTunnel, UpdateTunnel, DeleteTunnel
  <2> QED BY <1>1, <2>2, <2>3
<1>3. ASSUME NEW h \in Handlers, req[h].pc \notin {"add", "audit"}, audit' = audit,
             (\E p : Goto(h, p)) \/ Return(h)
      PROVE  Due(op, x)'
  <2>1. \A g \in Handlers \ {h} : req'[g] = req[g]
    BY <1>3 DEF Goto, Return, TypeOK
  <2> QED BY <1>3, <2>1 DEF Due
<1>4. ASSUME NEW h \in Handlers,
             \/ CheckB(h) \/ InsertTunnel(h) \/ WriteToggle(h) \/ SetTunnelStatus(h)
             \/ RemoveTunnel(h) \/ SeedCount(h) \/ SeedInsert(h) \/ Reload(h)
      PROVE  Due(op, x)'
  <2>1. req[h].pc \notin {"add", "audit"} /\ audit' = audit
    BY <1>4 DEF CheckB, InsertTunnel, WriteToggle, SetTunnelStatus, RemoveTunnel,
                SeedCount, SeedInsert, Reload, boot
  <2>2. (\E p : Goto(h, p)) \/ Return(h)
    BY <1>4 DEF CheckB, InsertTunnel, WriteToggle, SetTunnelStatus, RemoveTunnel,
                SeedCount, SeedInsert, Reload
  <2> QED BY <1>3, <2>1, <2>2
<1>5. ASSUME NEW h \in Handlers, AddTunnel(h)
      PROVE  Due(op, x)'
  <2>1. /\ audit' = audit
        /\ req'[h].pc = "audit" /\ req'[h].op = req[h].op /\ req'[h].on = req[h].on
        /\ \A g \in Handlers \ {h} : req'[g] = req[g]
    BY <1>5 DEF AddTunnel, Goto, TypeOK, Request
  <2> QED BY <2>1 DEF Due
<1>6. ASSUME NEW h \in Handlers, Audit(h)
      PROVE  Due(op, x)'
  <2>1. /\ audit' = audit \cup {<<req[h].op, req[h].on>>}
        /\ \A g \in Handlers \ {h} : req'[g] = req[g]
    BY <1>6 DEF Audit, Goto, Return, TypeOK
  <2> QED BY <2>1 DEF Due
<1>7. CASE Boot
  BY <1>7 DEF Boot, Due
<1>8. CASE Crash
  <2>1. CutShort = {req[h].on : h \in {g \in Handlers : Unrecorded(g)}}
    <3>1. up /\ ~up' /\ \A h \in Handlers : ~ResetWipe(h)
      BY <1>8 DEF Crash, ResetWipe
    <3> QED BY <3>1, Zenon DEF CutShort
  <2>2. ~\E h \in Handlers : Unrecorded(h) /\ req[h].on = x
    BY <2>1 DEF Next
  <2> QED BY <1>8, <2>2 DEF Crash, Due, Unrecorded
<1>9. ASSUME NEW a \in Agents, AgentStart(a) \/ \E t \in Tunnels : ApplyReport(a, t)
      PROVE  Due(op, x)'
  BY <1>9 DEF AgentStart, ApplyReport, Due
<1> QED BY <1>2, <1>4, <1>5, <1>6, <1>7, <1>8, <1>9 DEF Next, Step, Resume

LEMMA StepAuditDue ==
  ASSUME TypeOK, Shape, OneLife, EndsUsed, WipedClean, AuditDue, Next
  PROVE  AuditDue'
<1> USE DEF AuditDue, Row, Creations, Deletions
<1>0. cut \subseteq cut'
  BY CutGrows
<1>1. \A x \in used \ cut' : \A op \in Creations \cup Deletions : x # None /\ Due(op, x) => Due(op, x)'
  BY DuePersists
<1>2. None \notin Sites /\ None \notin Tunnels /\ Sites \cap Tunnels = {}
  BY IdAssumption
<1>3. ASSUME used' = used,
             \A s \in (used \cap Sites) \ cut : s \in sites => s \in sites',
             \A t \in (used \cap Tunnels) \ cut : ~Row(t)' /\ ForeignKeysHold(t)'
               => ~Row(t) /\ ForeignKeysHold(t)
      PROVE  AuditDue'
  BY <1>0, <1>1, <1>2, <1>3
<1>4. ASSUME NEW h \in Handlers, NEW s \in Sites, CreateSite(h, s)
      PROVE  AuditDue'
  <2>1. Due("site.create", s)'
    BY <1>4 DEF CreateSite, Start, Due, TypeOK
  <2>2. UNCHANGED status /\ used' = used \cup {s} /\ sites' = sites \cup {s}
    BY <1>4 DEF CreateSite
  <2>3. \A t \in used \cap Tunnels : ForeignKeysHold(t)' => ForeignKeysHold(t)
    BY <1>4, EndsNeverReturn
  <2> QED BY <1>0, <1>1, <1>2, <2>1, <2>2, <2>3
<1>5. ASSUME NEW h \in Handlers, NEW s \in Sites, DeleteSite(h, s)
      PROVE  AuditDue'
  <2>1. s \in sites => Due("site.delete", s)'
    BY <1>5 DEF DeleteSite, Start, Due, TypeOK
  <2>2. UNCHANGED used /\ sites' = sites \ {s}
    BY <1>5 DEF DeleteSite
  <2>3. \A t \in Tunnels : ForeignKeysHold(t)' => ForeignKeysHold(t) /\ status'[t] = status[t]
    BY <1>5 DEF DeleteSite, ForeignKeysHold, Touches
  <2> QED BY <1>0, <1>1, <1>2, <2>1, <2>2, <2>3
<1>6. ASSUME NEW h \in Handlers, NEW t \in Tunnels, DeleteTunnel(h, t)
      PROVE  AuditDue'
  <2>1. Row(t) => Due("tunnel.delete", t)'
    BY <1>6 DEF DeleteTunnel, Start, Due, TypeOK
  <2>2. /\ UNCHANGED <<sites, used>>
        /\ \A u \in Tunnels \ {t} : status'[u] = status[u]
    BY <1>6 DEF DeleteTunnel, TypeOK
  <2> QED BY <1>0, <1>1, <1>2, <2>1, <2>2 DEF ForeignKeysHold
<1>7. ASSUME NEW h \in Handlers, ResetWipe(h)
      PROVE  AuditDue'
  BY <1>7, WipeCuts DEF ResetWipe
<1>8. ASSUME NEW h \in Handlers, InsertTunnel(h), Goto(h, "add"),
             status' = [status EXCEPT ![req[h].on] = "up"], used' = used \cup {req[h].on}
      PROVE  AuditDue'
  <2>1. PICK t \in Tunnels : t = req[h].on
    BY <1>8 DEF InsertTunnel, At, Shape
  <2>2. Due("tunnel.create", t)'
    <3>1. req[h].op = "tunnel.create"
      BY <1>8 DEF InsertTunnel, At, OneLife
    <3> QED BY <1>8, <2>1, <3>1 DEF Goto, Due, TypeOK, Request
  <2>3. /\ UNCHANGED sites /\ used' = used \cup {t} /\ status'[t] # Absent
        /\ \A u \in Tunnels \ {t} : status'[u] = status[u]
    BY <1>8, <2>1 DEF InsertTunnel, TypeOK, Absent
  <2> QED BY <1>0, <1>1, <1>2, <2>1, <2>2, <2>3 DEF ForeignKeysHold
<1>9. ASSUME NEW h \in Handlers, SeedInsert(h)
      PROVE  AuditDue'
  <2>1. used' = used /\ sites \subseteq sites'
    BY <1>9 DEF SeedInsert
  <2>2. ASSUME NEW t \in (used \cap Tunnels) \ cut, ~Row(t)', ForeignKeysHold(t)'
        PROVE  ~Row(t) /\ ForeignKeysHold(t)
    <3>1. CASE UNCHANGED <<sites, status>>
      BY <2>2, <3>1 DEF ForeignKeysHold
    <3>2. CASE ~residue /\ sites' = sites \cup SeedSites
               /\ status' = [u \in Tunnels |-> IF u \in SeedTunnels THEN SeedStatus[u] ELSE status[u]]
      <4>1. EndA[t] \notin SeedSites /\ EndB[t] \notin SeedSites
        BY <2>2, <3>2 DEF WipedClean
      <4>2. ForeignKeysHold(t)
        BY <2>2, <3>2, <4>1 DEF ForeignKeysHold
      <4>3. \A u \in SeedTunnels : SeedStatus[u] # Absent
        BY SeedAssumption, IdAssumption DEF Status, Absent
      <4>4. ~Row(t)
        BY <2>2, <3>2, <4>3
      <4> QED BY <4>2, <4>4
    <3> QED BY <1>9, <3>1, <3>2 DEF SeedInsert
  <2> QED BY <1>3, <2>1, <2>2
<1>10. CASE Boot
  <2>1. used' = used
    BY <1>10 DEF Boot
  <2>2. CASE UNCHANGED <<sites, status>>
    BY <1>3, <2>1, <2>2 DEF ForeignKeysHold
  <2>3. CASE sites = {} /\ ~residue /\ sites' = SeedSites
    <3>1. \A t \in (used \cap Tunnels) \ cut : ~ForeignKeysHold(t)'
      BY <2>3 DEF WipedClean, ForeignKeysHold
    <3> QED BY <1>3, <2>1, <2>3, <3>1
  <2> QED BY <1>10, <2>2, <2>3 DEF Boot
<1>11. ASSUME UNCHANGED <<sites, used>>, \A t \in Tunnels : Row(t)' <=> Row(t)
       PROVE  AuditDue'
  BY <1>3, <1>11 DEF ForeignKeysHold
<1>12. ASSUME NEW h \in Handlers,
              \/ CheckB(h) \/ AddTunnel(h) \/ SetTunnelStatus(h) \/ RemoveTunnel(h)
              \/ SeedCount(h) \/ Reload(h) \/ Audit(h)
              \/ InsertTunnel(h) /\ UNCHANGED <<status, used>>
       PROVE  AuditDue'
  <2>1. UNCHANGED <<sites, used, status>>
    BY <1>12 DEF CheckB, InsertTunnel, AddTunnel, SetTunnelStatus, RemoveTunnel, SeedCount,
                 Reload, Audit
  <2> QED BY <1>11, <2>1
<1>13. ASSUME NEW h \in Handlers, WriteToggle(h)
       PROVE  AuditDue'
  <2>1. req[h].st # Absent
    BY <1>13, IdAssumption DEF WriteToggle, TypeOK, Request, Status, Absent
  <2> QED BY <1>11, <1>13, <2>1 DEF WriteToggle, Updated, TypeOK
<1>14. ASSUME NEW h \in Handlers, NEW t \in Tunnels,
              \/ CreateTunnel(h, t) \/ ToggleTunnel(h, t)
              \/ \E st \in UpdateTo : UpdateTunnel(h, t, st)
       PROVE  AuditDue'
  <2>1. UNCHANGED <<sites, used>>
    BY <1>14 DEF CreateTunnel, ToggleTunnel, UpdateTunnel
  <2>2. \A u \in Tunnels : Row(u)' <=> Row(u)
    BY <1>14, IdAssumption DEF CreateTunnel, ToggleTunnel, UpdateTunnel, Updated, TypeOK
  <2> QED BY <1>11, <2>1, <2>2
<1>15. CASE Crash \/ \E a \in Agents : AgentStart(a) \/ \E t \in Tunnels : ApplyReport(a, t)
  <2>1. UNCHANGED <<sites, used, status>>
    BY <1>15 DEF Crash, AgentStart, ApplyReport
  <2> QED BY <1>11, <2>1
<1> HIDE DEF AuditDue
<1>16. ASSUME NEW h \in Handlers, Arrive(h)
       PROVE  AuditDue'
  BY <1>4, <1>5, <1>6, <1>7, <1>14, <1>16 DEF Arrive
<1>17. ASSUME NEW h \in Handlers, InsertTunnel(h)
       PROVE  AuditDue'
  BY <1>8, <1>12, <1>17 DEF InsertTunnel
<1> QED BY <1>9, <1>10, <1>12, <1>13, <1>15, <1>16, <1>17 DEF Next, Step, Resume

\* No creation or deletion goes unrecorded, however many requests overlap on the
\* same sites and tunnels, but for those of the ids whose event a crash left
\* unwritten and those whose events a reset has deleted.
THEOREM NothingUnrecorded == Spec => []AuditComplete
<1>1. Init => AuditDue /\ WipedClean
  BY SeedAssumption, IdAssumption DEF Init, AuditDue, WipedClean, Row, Seeded, Absent, Status
<1>2. AuditDue => AuditComplete
  BY DEF AuditDue, AuditComplete, Due
<1>3. ASSUME AuditDue, WipedClean, UNCHANGED vars
      PROVE  (AuditDue /\ WipedClean)'
  BY <1>3 DEF vars, AuditDue, WipedClean, Due, Row, ForeignKeysHold
<1>4. /\ TypeOK /\ Shape /\ OneLife /\ EndsUsed /\ WipedClean /\ AuditDue
      /\ [Next]_vars
      => (TypeOK /\ Shape /\ OneLife /\ EndsUsed /\ WipedClean /\ AuditDue)'
  BY <1>3, StepTyped, StepOneLife, StepEndsUsed, StepWipedClean, StepAuditDue
<1> QED BY InitTyped, InitOneLife, InitEndsUsed, <1>1, <1>2, <1>4, PTL DEF Spec
=============================================================================
