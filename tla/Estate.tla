------------------------------- MODULE Estate -------------------------------
(***************************************************************************)
(* The core of the control plane: the sites and tunnels tables of SQLite,  *)
(* and the telemetry engine's own map of tunnels, which every handler has  *)
(* to keep in step with the tables by hand.                                *)
(*                                                                         *)
(* An HTTP request runs in a goroutine of its own.  The pool holds one     *)
(* connection, so an SQL statement (or a transaction) is atomic; an engine *)
(* method holds the engine's mutex, so it is atomic too; between two of    *)
(* them any other request may run.  One action below is one statement or   *)
(* one engine call, together with the code up to the next one.             *)
(*                                                                         *)
(* A refused request (400, 404 before any write) changes nothing and is    *)
(* the absence of a step.  Names, ciphers, addresses and rates are left    *)
(* out; an id is never issued twice by db.NewID, but the seed's are fixed. *)
(***************************************************************************)
EXTENDS FiniteSets

CONSTANTS
  Sites,        \* site ids: those of the seed and those NewID may issue
  Tunnels,      \* tunnel ids, likewise
  EndA, EndB,   \* the two endpoints the row of an id is created with
  Wireguard,    \* ids whose protocol column is 'wireguard'
  SeedSites,    \* the site ids db.Seed inserts
  SeedStatus,   \* the tunnel ids db.Seed inserts, with their status
  Handlers,     \* request goroutines
  Agents,       \* gateway agents
  AgentSite,    \* the site whose gateway an agent runs on
  Ops,          \* the operations clients (and the environment) perform
  UpdateTo,     \* the statuses a PUT /tunnels/{id} body may carry: any string
  None          \* no id

Status == {"up", "rekeying", "down"} \cup UpdateTo
Absent == "absent"
SeedTunnels == DOMAIN SeedStatus

ASSUME EndsAssumption ==
  /\ EndA \in [Tunnels -> Sites]
  /\ EndB \in [Tunnels -> Sites]
ASSUME SeedAssumption ==
  /\ SeedSites \subseteq Sites
  /\ SeedTunnels \subseteq Tunnels
  /\ SeedStatus \in [SeedTunnels -> Status]
  /\ \A t \in SeedTunnels : /\ EndA[t] \in SeedSites
                            /\ EndB[t] \in SeedSites
                            /\ EndA[t] # EndB[t]
ASSUME IdAssumption ==
  /\ None \notin Sites \cup Tunnels
  /\ Sites \cap Tunnels = {}
  /\ Absent \notin UpdateTo
  /\ Wireguard \subseteq Tunnels
  /\ AgentSite \in [Agents -> Sites]

VARIABLES
  sites,    \* ids in table sites
  status,   \* table tunnels: the status column, Absent when there is no row
  used,     \* ids that have had a row: no later NewID returns them
  live,     \* Engine.tunnels: the live status, Absent when not tracked
  req,      \* what each request goroutine has left to do
  known,    \* the tunnel ids an agent fetched when it started
  audit,    \* table audit_events, as <<action, target>>
  residue,  \* rows of the seed outside these two tables are there: nothing
            \* but the wipe of a reset deletes its alerts and audit events
  up,       \* the server process runs
  parted,   \* history, the code keeps none: tunnels whose row and live status
            \* were written for different reasons, and nothing has rejoined
  cut       \* history, the code keeps none: ids whose trail a crash cut short
            \* or a reset wiped

vars == <<sites, status, used, live, req, known, audit, residue, up, parted, cut>>
boot == <<residue, up>>

-----------------------------------------------------------------------------
\* Requests.

Actions == {"site.create", "site.delete", "tunnel.create", "tunnel.update",
            "tunnel.delete", "tunnel.toggle", "estate.reset"}
Points == {"idle", "checkB", "insert", "add", "write", "mirror", "remove",
           "seedCount", "seedInsert", "reload", "audit"}

Request == [pc : Points, op : Actions \cup {"none"},
            on : Sites \cup Tunnels \cup {None}, st : Status]
Idle == [pc |-> "idle", op |-> "none", on |-> None, st |-> "up"]

Busy(h) == req[h].pc # "idle"
At(h, p) == req[h].pc = p
Goto(h, p) == req' = [req EXCEPT ![h].pc = p]
Return(h) == req' = [req EXCEPT ![h] = Idle]

Start(h, op, x, st, p) ==
  /\ up
  /\ op \in Ops
  /\ ~Busy(h)
  /\ req' = [req EXCEPT ![h] = [pc |-> p, op |-> op, on |-> x, st |-> st]]

Row(t) == status[t] # Absent
Touches(t, S) == EndA[t] \in S \/ EndB[t] \in S

\* The tables after db.Seed, given that table sites is empty.
Seeded == [t \in Tunnels |-> IF t \in SeedTunnels THEN SeedStatus[t] ELSE Absent]

\* The engine tracks what it does not know as a status for a tunnel that is up,
\* and its map, filled anew, is a function of the rows.
NewTunnel(st) == IF st \in {"down", "rekeying"} THEN st ELSE "up"
Loaded(rows) == [t \in Tunnels |-> IF rows[t] = Absent THEN Absent ELSE NewTunnel(rows[t])]

-----------------------------------------------------------------------------
\* Sites.

CreateSite(h, s) ==
  /\ s \notin used
  /\ Start(h, "site.create", s, "up", "audit")
  /\ sites' = sites \cup {s}
  /\ used' = used \cup {s}
  /\ UNCHANGED <<status, live, known, audit, boot>>

\* A bug to find: the foreign keys of tunnels do not cascade.
DeleteSiteBug(h, s) ==
  /\ s \in used
  /\ Start(h, "site.delete", s, "up", IF s \in sites THEN "audit" ELSE "reload")
  /\ sites' = sites \ {s}
  /\ UNCHANGED <<status, used, live, known, audit, boot>>

\* DELETE cascades to the site's tunnels; the reload follows even on a 404.
DeleteSite(h, s) ==
  /\ s \in used
  /\ Start(h, "site.delete", s, "up", IF s \in sites THEN "audit" ELSE "reload")
  /\ sites' = sites \ {s}
  /\ status' = [t \in Tunnels |-> IF Touches(t, {s}) THEN Absent ELSE status[t]]
  /\ UNCHANGED <<used, live, known, audit, boot>>

-----------------------------------------------------------------------------
\* Tunnels.  Creation checks each endpoint with a query of its own, then
\* inserts (a foreign key may still refuse), then tells the engine.

CreateTunnel(h, t) ==
  /\ t \notin used
  /\ \A g \in Handlers : req[g].on # t
  /\ EndA[t] # EndB[t]
  /\ EndA[t] \in sites
  /\ Start(h, "tunnel.create", t, "up", "checkB")
  /\ UNCHANGED <<sites, status, used, live, known, audit, boot>>

CheckB(h) ==
  /\ At(h, "checkB")
  /\ IF EndB[req[h].on] \in sites THEN Goto(h, "insert") ELSE Return(h)
  /\ UNCHANGED <<sites, status, used, live, known, audit, boot>>

ForeignKeysHold(t) == {EndA[t], EndB[t]} \subseteq sites

InsertTunnel(h) ==
  LET t == req[h].on IN
  /\ At(h, "insert")
  /\ \/ /\ ForeignKeysHold(t)
        /\ status' = [status EXCEPT ![t] = "up"]
        /\ used' = used \cup {t}
        /\ Goto(h, "add")
     \/ /\ ~ForeignKeysHold(t)
        /\ Return(h)
        /\ UNCHANGED <<status, used>>
  /\ UNCHANGED <<sites, live, known, audit, boot>>

AddTunnel(h) ==
  LET t == req[h].on IN
  /\ At(h, "add")
  /\ live' = [live EXCEPT ![t] = IF @ = Absent THEN NewTunnel("up") ELSE @]
  /\ Goto(h, "audit")
  /\ UNCHANGED <<sites, status, used, known, audit, boot>>

\* The row's status after UPDATE ... WHERE id = t, which matches it or not.
Updated(t, st) == [status EXCEPT ![t] = IF Row(t) THEN st ELSE Absent]

\* The status read is stale by the time it is written back inverted.
ToggleTunnel(h, t) ==
  /\ Row(t)
  /\ Start(h, "tunnel.toggle", t, IF status[t] = "down" THEN "up" ELSE "down", "write")
  /\ UNCHANGED <<sites, status, used, live, known, audit, boot>>

WriteToggle(h) ==
  /\ At(h, "write")
  /\ status' = Updated(req[h].on, req[h].st)
  /\ Goto(h, "mirror")
  /\ UNCHANGED <<sites, used, live, known, audit, boot>>

\* No row count is looked at: an id that is gone is "updated" all the same.
UpdateTunnel(h, t, st) ==
  /\ t \in used
  /\ Start(h, "tunnel.update", t, st, "mirror")
  /\ status' = Updated(t, st)
  /\ UNCHANGED <<sites, used, live, known, audit, boot>>

\* A bug to find: the live status is flipped, not set.
SetTunnelStatusBug(h) ==
  LET t == req[h].on IN
  /\ At(h, "mirror")
  /\ live' = [live EXCEPT ![t] = CASE @ = Absent -> @ [] @ = "down" -> "up" [] OTHER -> "down"]
  /\ Goto(h, "audit")
  /\ UNCHANGED <<sites, status, used, known, audit, boot>>

SetTunnelStatus(h) ==
  LET t == req[h].on IN
  /\ At(h, "mirror")
  /\ live' = [live EXCEPT ![t] = IF @ = Absent THEN @ ELSE req[h].st]
  /\ Goto(h, "audit")
  /\ UNCHANGED <<sites, status, used, known, audit, boot>>

\* A bug to find: the deletion is not audited.
DeleteTunnelBug(h, t) ==
  /\ t \in used
  /\ Start(h, "tunnel.delete", t, "up", "remove")
  /\ status' = [status EXCEPT ![t] = Absent]
  /\ UNCHANGED <<sites, used, live, known, audit, boot>>

\* RemoveTunnel is called whatever deleteEntity answered.
DeleteTunnel(h, t) ==
  /\ t \in used
  /\ Start(h, "tunnel.delete", t, "up", IF Row(t) THEN "audit" ELSE "remove")
  /\ status' = [status EXCEPT ![t] = Absent]
  /\ UNCHANGED <<sites, used, live, known, audit, boot>>

\* A bug to find: the handler forgets the engine.
RemoveTunnelBug(h) ==
  /\ At(h, "remove")
  /\ Return(h)
  /\ UNCHANGED <<sites, status, used, live, known, audit, boot>>

RemoveTunnel(h) ==
  /\ At(h, "remove")
  /\ live' = [live EXCEPT ![req[h].on] = Absent]
  /\ Return(h)
  /\ UNCHANGED <<sites, status, used, known, audit, boot>>

-----------------------------------------------------------------------------
\* Steps several handlers share.

\* A bug to find: the maps are emptied and not loaded again.
ReloadBug(h) ==
  /\ At(h, "reload")
  /\ live' = [t \in Tunnels |-> Absent]
  /\ IF req[h].op = "estate.reset" THEN Goto(h, "audit") ELSE Return(h)
  /\ UNCHANGED <<sites, status, used, known, audit, boot>>

\* deleteSite has audited before it reloads; resetEstate audits afterwards.
Reload(h) ==
  /\ At(h, "reload")
  /\ live' = Loaded(status)
  /\ IF req[h].op = "estate.reset" THEN Goto(h, "audit") ELSE Return(h)
  /\ UNCHANGED <<sites, status, used, known, audit, boot>>

\* A bug to find: the event is written from a request that is answered already.
AuditBug(h) ==
  /\ At(h, "audit")
  /\ CASE req[h].op = "tunnel.delete" -> Goto(h, "remove")
       [] req[h].op = "site.delete"   -> Goto(h, "reload")
       [] OTHER                       -> Return(h)
  /\ audit' = audit \cup {<<req'[h].op, req'[h].on>>}
  /\ UNCHANGED <<sites, status, used, live, known, boot>>

Audit(h) ==
  /\ At(h, "audit")
  /\ audit' = audit \cup {<<req[h].op, req[h].on>>}
  /\ CASE req[h].op = "tunnel.delete" -> Goto(h, "remove")
       [] req[h].op = "site.delete"   -> Goto(h, "reload")
       [] OTHER                       -> Return(h)
  /\ UNCHANGED <<sites, status, used, live, known, boot>>

-----------------------------------------------------------------------------
\* Estate reset: one transaction wipes, then Seed counts, then Seed inserts.

ResetWipe(h) ==
  /\ Start(h, "estate.reset", None, "up", "seedCount")
  /\ sites' = {}
  /\ status' = [t \in Tunnels |-> Absent]
  /\ audit' = {}
  /\ residue' = FALSE
  /\ UNCHANGED <<used, live, known, up>>

\* Seed is a no-op once any site exists.
SeedCount(h) ==
  /\ At(h, "seedCount")
  /\ Goto(h, IF sites = {} THEN "seedInsert" ELSE "reload")
  /\ UNCHANGED <<sites, status, used, live, known, audit, boot>>

\* A primary key that is already there rolls the seed back: 500, no reload.
SeedInsert(h) ==
  /\ At(h, "seedInsert")
  /\ \/ /\ ~residue
        /\ sites' = sites \cup SeedSites
        /\ status' = [t \in Tunnels |-> IF t \in SeedTunnels THEN SeedStatus[t] ELSE status[t]]
        /\ residue' = TRUE
        /\ Goto(h, "reload")
     \/ /\ residue
        /\ Return(h)
        /\ UNCHANGED <<sites, status, residue>>
  /\ UNCHANGED <<used, live, known, audit, up>>

-----------------------------------------------------------------------------
\* The environment: agents, and the death and rebirth of the process.

\* An agent asks for its gateway's tunnels once, when it starts.
AgentStart(a) ==
  /\ "agent.report" \in Ops /\ up
  /\ known' = [known EXCEPT ![a] =
                 {t \in Wireguard : Row(t) /\ Touches(t, {AgentSite[a]})}]
  /\ UNCHANGED <<sites, status, used, live, req, audit, boot>>

\* One peer of a report: an id the engine does not track is tracked again.
ApplyReport(a, t) ==
  /\ "agent.report" \in Ops /\ up
  /\ t \in known[a]
  /\ live' = [live EXCEPT ![t] = "up"]
  /\ UNCHANGED <<sites, status, used, req, known, audit, boot>>

\* The process dies: requests in flight and the engine's map go with it.
Crash ==
  /\ "restart" \in Ops
  /\ up
  /\ up' = FALSE
  /\ live' = [t \in Tunnels |-> Absent]
  /\ req' = [h \in Handlers |-> Idle]
  /\ UNCHANGED <<sites, status, used, known, audit, residue>>

\* main seeds an estate without sites, and exits if that fails; then sim.New
\* loads the tunnels.
Boot ==
  /\ ~up
  /\ up' = TRUE
  /\ \/ /\ sites # {}
        /\ UNCHANGED <<sites, status, residue>>
     \/ /\ sites = {} /\ ~residue
        /\ sites' = SeedSites
        /\ status' = Seeded
        /\ residue' = TRUE
  /\ live' = Loaded(status')
  /\ UNCHANGED <<used, req, known, audit>>

-----------------------------------------------------------------------------
\* The two histories.

\* A request has yet to finish with the row of t and with the engine.
Works(h, t) == req[h].on = t /\ (At(h, "audit") => req[h].op = "tunnel.delete")
AtWork(t) == \E h \in Handlers : Works(h, t)

\* Two requests are on t together, a reset seeds beside one, or an agent's
\* report changes the live status that no row ever learns of.
Parts(t) ==
  \/ \E g, h \in Handlers : g # h /\ Works(g, t)' /\ Works(h, t)'
  \/ AtWork(t) /\ up /\ ~residue /\ residue'
  \/ live' # live /\ \E a \in Agents : ApplyReport(a, t)

\* The process dies or boots; or, while no request is on t, the map is loaded
\* anew, or one begins that sets the status of the row or deletes the tunnel.
Mends(t) ==
  \/ up' # up
  \/ /\ ~AtWork(t)
     /\ \E h \in Handlers :
          \/ Reload(h)
          \/ Works(h, t)' /\ (Row(t) \/ req'[h].op = "tunnel.delete")

\* The ids whose creation or deletion a crash leaves unrecorded, or a reset erases.
Creations == {"site.create", "tunnel.create"}
Deletions == {"site.delete", "tunnel.delete"}
Unrecorded(h) == req[h].pc \in {"add", "audit"} /\ req[h].op \in Creations \cup Deletions
CutShort ==
  CASE up /\ ~up' -> {req[h].on : h \in {g \in Handlers : Unrecorded(g)}}
    [] \E h \in Handlers : ResetWipe(h) -> used
    [] OTHER -> {}

-----------------------------------------------------------------------------
Init ==
  /\ sites = SeedSites
  /\ status = Seeded
  /\ used = SeedSites \cup SeedTunnels
  /\ live = Loaded(Seeded)
  /\ req = [h \in Handlers |-> Idle]
  /\ known = [a \in Agents |-> {}]
  /\ audit = {}
  /\ residue = TRUE
  /\ up = TRUE
  /\ parted = {}
  /\ cut = {}

Arrive(h) ==
  \/ \E s \in Sites : CreateSite(h, s) \/ DeleteSite(h, s)
  \/ \E t \in Tunnels : \/ CreateTunnel(h, t)
                        \/ ToggleTunnel(h, t)
                        \/ \E st \in UpdateTo : UpdateTunnel(h, t, st)
                        \/ DeleteTunnel(h, t)
  \/ ResetWipe(h)

Resume(h) ==
  \/ CheckB(h) \/ InsertTunnel(h) \/ AddTunnel(h)
  \/ WriteToggle(h) \/ SetTunnelStatus(h) \/ RemoveTunnel(h)
  \/ SeedCount(h) \/ SeedInsert(h) \/ Reload(h) \/ Audit(h)

Step ==
  \/ \E h \in Handlers : Arrive(h) \/ Resume(h)
  \/ \E a \in Agents : AgentStart(a) \/ \E t \in Tunnels : ApplyReport(a, t)
  \/ Crash \/ Boot

Next ==
  /\ Step
  /\ parted' = {t \in Tunnels : Parts(t) \/ (t \in parted /\ ~Mends(t))}
  /\ cut' = cut \cup CutShort

Spec == Init /\ [][Next]_vars

-----------------------------------------------------------------------------
\* Properties.

\* The variables have the types the declarations give them.
TypeOK ==
  /\ sites \subseteq Sites
  /\ status \in [Tunnels -> Status \cup {Absent}]
  /\ used \subseteq Sites \cup Tunnels
  /\ live \in [Tunnels -> Status \cup {Absent}]
  /\ req \in [Handlers -> Request]
  /\ known \in [Agents -> SUBSET Tunnels]
  /\ audit \subseteq Actions \X (Sites \cup Tunnels \cup {None})
  /\ residue \in BOOLEAN
  /\ up \in BOOLEAN
  /\ parted \subseteq Tunnels
  /\ cut \subseteq Sites \cup Tunnels \cup {None}

\* Each tunnel row joins two different sites that exist, although createTunnel
\* looks the endpoints up in queries that deleteSite may overtake: tunnelsWhere
\* and buildGatewayConfig would silently skip a row that does not.
ReferentialIntegrity ==
  \A t \in Tunnels : Row(t) => ForeignKeysHold(t) /\ EndA[t] # EndB[t]

\* While the server runs, a tunnel in the table is in telemetry too, or the
\* request that inserted it is about to add it: no order of creations,
\* deletions, reloads, resets and reports makes the engine forget a tunnel.
\* The exception is an id that comes back: a deletion of the seed's tunnel that
\* a reset overtakes calls RemoveTunnel on the row of the new seed.
Reissued == IF "estate.reset" \in Ops THEN SeedTunnels ELSE {}
NoLostTunnel ==
  \A t \in Tunnels \ Reissued : up /\ Row(t) /\ live[t] = Absent
    => \E h \in Handlers : At(h, "add") /\ req[h].on = t

\* A tunnel's live status is the one in its row, or what the engine takes that
\* one for, unless the request that wrote the row has yet to call
\* SetTunnelStatus, or the reset that wrote it to reload.  Nothing in toggleTunnel
\* or updateTunnel keeps two requests on a tunnel apart, so this holds of a tunnel
\* as long as they have not overlapped on it, and again from the first restart,
\* reload, toggle or update that comes to it alone: site deletions, cascades,
\* resets and crashes at any point do not part the two.
Agrees(t) == live[t] \in {status[t], NewTunnel(status[t])}
Reseeds(h) == At(h, "reload") /\ req[h].op = "estate.reset"
WillMirror(h, t) == (At(h, "write") \/ At(h, "mirror")) /\ req[h].on = t
MirrorAgrees ==
  \A t \in Tunnels \ parted : Row(t) /\ live[t] # Absent /\ ~Agrees(t)
    => \E h \in Handlers : WillMirror(h, t) \/ Reseeds(h)

\* Telemetry shows a tunnel that has no row, though both its sites are there,
\* only until the request that deleted the row has called RemoveTunnel, or the
\* reset that brought the sites back has reloaded; with the same exceptions.
WillRemove(h, t) == req[h].op = "tunnel.delete" /\ req[h].on = t
GhostExplained ==
  \A t \in Tunnels \ parted : ~Row(t) /\ ForeignKeysHold(t) /\ live[t] # Absent
    => \E h \in Handlers : WillRemove(h, t) \/ Reseeds(h)

\* Every creation and deletion that the tables show has its audit event, or
\* the request that made it is still to write it; a tunnel deleted by a
\* cascade is covered by the event of its site.  The exceptions are the ids
\* whose event a crash forestalled, and those whose events a reset deleted.
AuditComplete ==
  LET Recorded(op, x) == \/ <<op, x>> \in audit
                         \/ \E h \in Handlers : req[h].op = op /\ req[h].on = x
  IN /\ \A s \in (used \cap Sites) \ cut :
          /\ s \notin SeedSites => Recorded("site.create", s)
          /\ s \notin sites => Recorded("site.delete", s)
     /\ \A t \in (used \cap Tunnels) \ cut :
          /\ t \notin SeedTunnels => Recorded("tunnel.create", t)
          /\ ~Row(t) /\ ForeignKeysHold(t) => Recorded("tunnel.delete", t)

\* A tunnel deleted by DELETE /tunnels/{id} is out of telemetry once every
\* request is over (engine.go: "RemoveTunnel drops a deleted tunnel").
Quiet == \A h \in Handlers : ~Busy(h)
DeletedIsDropped ==
  Quiet => \A t \in Tunnels : ~Row(t) => live[t] = Absent

\* Once every request is over, a tunnel is disabled in telemetry exactly when
\* its row says so (engine.go: "SetTunnelStatus changes a tunnel's live status
\* (enable/disable)"; the row is what toggleTunnel inverts next).
DisabledMeansDown ==
  Quiet => \A t \in Tunnels : Row(t) /\ live[t] # Absent
             => (live[t] = "down" <=> status[t] = "down")

\* A process that is down finds either an estate with sites or none of the
\* seed's rows (seed.go: Seed populates "on first boot only").
SeedOnFirstBootOnly == ~up => sites # {} \/ ~residue
=============================================================================
