------------------------------ MODULE MCEstate ------------------------------
(***************************************************************************)
(* Small estates for TLC: two seeded sites and their tunnel, a site and a  *)
(* tunnel that NewID may still issue.                                      *)
(***************************************************************************)
EXTENDS Estate, TLC

CONSTANTS h1, h2, agent

MCSites == {"hq", "gnj", "site_1"}
MCTunnels == {"hq_gnj", "tnl_1"}

\* tnl_1 joins the seeded sites too: a reset brings its sites back, not its row.
MCEndA == [t \in MCTunnels |-> "hq"]
MCEndB == [t \in MCTunnels |-> "gnj"]

MCSeedSites == {"hq", "gnj"}
MCSeedStatus == "hq_gnj" :> "rekeying"
MCAgentSite == agent :> "hq"
NoAgentSite == <<>>

AllOps == Actions \cup {"agent.report", "restart"}
ToggleOps == {"tunnel.toggle"}
GhostReportOps == {"tunnel.delete", "agent.report"}
BootOps == {"site.delete", "restart"}

\* No guard reads the audit trail, and AuditComplete asks of an id that is not
\* cut for its creation and its deletion.  Once both are written it holds of the
\* id for good, as it does of one that is cut: states that differ in the events
\* of such ids alone have the same futures, and are merged.
Trail(x) == {e[1] : e \in {f \in audit : f[2] = x}} \cap (Creations \cup Deletions)
Settled(x) ==
  /\ Trail(x) \cap Deletions # {}
  /\ x \in SeedSites \cup SeedTunnels \/ Trail(x) \cap Creations # {}
Unsettled == {<<x, Trail(x)>> : x \in {y \in used \ cut : ~Settled(y)}}

\* So are those that differ in the status a request carries past its mirror step,
\* or in the event that a toggle or an update is about to write.
Rest(r) ==
  IF r.pc = "audit" /\ r.op \in {"tunnel.toggle", "tunnel.update"} THEN {}
  ELSE IF r.pc \in {"write", "mirror"} THEN <<r.pc, r.on, r.st>>
  ELSE <<r.pc, r.on, r.op>>
ButSettled ==
  <<sites, status, used, live, [h \in Handlers |-> Rest(req[h])], known, boot,
    parted, Unsettled>>

HandlerSymmetry == Permutations({h1, h2})
=============================================================================
