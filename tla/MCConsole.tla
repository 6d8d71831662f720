------------------------------ MODULE MCConsole ------------------------------
(***************************************************************************)
(* One hook that mounts, reloads, navigates and is unmounted at will, with *)
(* its requests; or one of the seventeen pages, with its operator and all  *)
(* its hooks, which are Latest's; or one of three pages with the requests  *)
(* of their hooks.                                                         *)
(***************************************************************************)
EXTENDS Pages

VARIABLE focus   \* which of the three a behaviour moves

MCHooks == 1..3
MCJobs == 1..2
MCLong == {TunnelDetailPage, TunnelsPage, MonitoringPage}

\* A detail whose address changes, and two pages with two lists each.
WholePages == {SiteDetailPage, VaultPage, MonitoringPage}

MCInit ==
  /\ focus \in {"hook", "page", "whole"}
  /\ PageInit
  /\ NetInit
  /\ CASE focus = "hook" -> page = OverviewPage /\ \E H \in SUBSET {1} : L!InitOn(H)
       [] focus = "page" -> L!InitOn(PageHooks)
       [] focus = "whole" -> page \in WholePages /\ L!InitOn(PageHooks)
  /\ \A h \in Hooks : ~(focus = "hook" /\ h = 1) => key[h] \in Homes

\* Of a hook's MaxRuns runs one is kept for each write that may still reload it:
\* Retry and the address have the others.
Room ==
  LET writes == {j \in Jobs : page \in Long \/ j = 1} IN
  runs[1] + (IF due[1] THEN 1 ELSE 0) + Cardinality(writes) < MaxRuns

MCNext ==
  /\ \/ focus = "hook" /\ Step(1) /\ UNCHANGED pvars
     \/ focus = "page" /\ PageNext /\ UNCHANGED net
     \/ focus = "whole" /\ WholeNext /\ (Retry \/ key' # key => Room)
  /\ UNCHANGED focus

\* The browser runs the effects it owes and settles what was sent, one way or
\* the other.  Nothing makes anybody press anything.
Fair ==
  /\ WF_vars(focus = "hook" /\ RunEffect(1))
  /\ WF_vars(focus = "hook" /\ Arrive(1))
  /\ \A h \in Hooks :
       /\ WF_<<vars, pvars>>(focus = "page" /\ HookAsks(h) /\ UNCHANGED net)
       /\ WF_<<vars, pvars>>(focus = "page" /\ HookSettles(h) /\ UNCHANGED net)
       /\ WF_<<vars, pvars>>(focus = "whole" /\ Sends(h))
       /\ WF_<<vars, pvars>>(focus = "whole" /\ Hears(h))
  /\ \A j \in Jobs :
       /\ WF_<<vars, pvars>>(focus = "page" /\ Outcome(j) /\ UNCHANGED net)
       /\ WF_<<vars, pvars>>(focus = "whole" /\ Outcome(j) /\ Cleanup)

MCSpec == MCInit /\ [][MCNext]_<<vars, pvars, focus>> /\ Fair
=============================================================================
