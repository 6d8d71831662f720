------------------------------- MODULE Alerts -------------------------------
(***************************************************************************)
(* Alerts: every fifteenth tick starts an evaluation, which reads the      *)
(* troubled tunnels under the engine's lock, raises an alert for each,     *)
(* then queries the expiring certificates and raises an alert for each.    *)
(* Raising is two statements (count the open alerts, insert), between      *)
(* which tunnels recover, operators resolve and other evaluations run:     *)
(* nothing waits for an evaluation before the next one starts.  The call   *)
(* of the webhook after the insertion touches nothing here.                *)
(*                                                                         *)
(* An alert is identified, as in raiseAlert's query, by its source and its *)
(* title.  The table is the number of open alerts of each identity:        *)
(* nothing reads the resolved ones, and the seed's have other titles.      *)
(***************************************************************************)
EXTENDS Naturals, FiniteSets

CONSTANTS
  Tunnels,  \* tunnels the engine tracks
  Certs,    \* certificates
  Evals,    \* evaluations that may run at the same time (a bound: Go has none)
  Every,    \* ticks from one evaluation to the next, 15 in the code
  None

Health == {"fine", "down", "lossy", "expiring"}
Alert == (Tunnels \X {"down", "lossy"}) \cup (Certs \X {"expiring"})

Possible(s) == IF s \in Tunnels THEN {"fine", "down", "lossy"} ELSE {"fine", "expiring"}

ASSUME ConstantsAssumption ==
  /\ IsFiniteSet(Evals)
  /\ Every \in Nat \ {0}
  /\ Tunnels \cap Certs = {}
  /\ None \notin Alert

VARIABLES
  health,   \* Status and LossPct of each tunnel, status and not_after of each certificate
  ticks,    \* Engine.ticks, modulo Every
  stage,    \* how far each evaluation is
  todo,     \* its conditions that are still to be raised
  pending,  \* the alert it found no open one of, and is about to insert
  open      \* rows of alerts with status 'open', by source and title

vars == <<health, ticks, stage, todo, pending, open>>

Init ==
  /\ health = [s \in Tunnels \cup Certs |-> "fine"]
  /\ ticks = 0
  /\ stage = [e \in Evals |-> "idle"]
  /\ todo = [e \in Evals |-> {}]
  /\ pending = [e \in Evals |-> None]
  /\ open = [a \in Alert |-> 0]

-----------------------------------------------------------------------------
\* A toggle, an agent's report, the simulated loss; a certificate that comes
\* within 30 days of its end, is issued, revoked or deleted.
Change(s, h) ==
  /\ h \in Possible(s)
  /\ health' = [health EXCEPT ![s] = h]
  /\ UNCHANGED <<ticks, stage, todo, pending, open>>

\* A bug to find: the branch for packet loss is missing.
ConditionsBug(S) == {<<s, health[s]>> : s \in {x \in S : health[x] \in {"down", "expiring"}}}

\* A bug to find: every tunnel that is not down has a high packet loss.
ThresholdBug(S) ==
  {<<s, IF s \in Tunnels /\ health[s] = "fine" THEN "lossy" ELSE health[s]>> :
     s \in {x \in S : x \in Tunnels \/ health[x] # "fine"}}

\* The alerts the sources in S deserve.
Conditions(S) == {<<s, health[s]>> : s \in {x \in S : health[x] # "fine"}}

\* tick: counts, and starts an evaluation beside it every Every ticks.
Tick ==
  /\ ticks' = (ticks + 1) % Every
  /\ IF ticks' = 0
     THEN \E e \in Evals : stage[e] = "idle" /\ stage' = [stage EXCEPT ![e] = "start"]
     ELSE UNCHANGED stage
  /\ UNCHANGED <<health, todo, pending, open>>

Raised(e) == pending[e] = None /\ todo[e] = {}

\* The conditions of all tunnels, under one read lock.
ReadTunnels(e) ==
  /\ stage[e] = "start"
  /\ stage' = [stage EXCEPT ![e] = "tunnels"]
  /\ todo' = [todo EXCEPT ![e] = Conditions(Tunnels)]
  /\ UNCHANGED <<health, ticks, pending, open>>

\* A bug to find: the alert is counted as a duplicate from the second on.
CountBug(e, a) ==
  /\ pending[e] = None
  /\ a \in todo[e]
  /\ todo' = [todo EXCEPT ![e] = @ \ {a}]
  /\ pending' = [pending EXCEPT ![e] = IF open[a] > 1 THEN None ELSE a]
  /\ UNCHANGED <<health, ticks, stage, open>>

\* raiseAlert, SELECT COUNT: an identical open alert is enough.
Count(e, a) ==
  /\ pending[e] = None
  /\ a \in todo[e]
  /\ todo' = [todo EXCEPT ![e] = @ \ {a}]
  /\ pending' = [pending EXCEPT ![e] = IF open[a] > 0 THEN None ELSE a]
  /\ UNCHANGED <<health, ticks, stage, open>>

\* raiseAlert, INSERT.
Insert(e) ==
  /\ pending[e] # None
  /\ open' = [open EXCEPT ![pending[e]] = @ + 1]
  /\ pending' = [pending EXCEPT ![e] = None]
  /\ UNCHANGED <<health, ticks, stage, todo>>

\* The certificates, once the tunnels are done; the cursor is closed before
\* anything is raised.
QueryCerts(e) ==
  /\ stage[e] = "tunnels"
  /\ Raised(e)
  /\ stage' = [stage EXCEPT ![e] = "certs"]
  /\ todo' = [todo EXCEPT ![e] = Conditions(Certs)]
  /\ UNCHANGED <<health, ticks, pending, open>>

\* A bug to find: an error in the middle ends the evaluation with alerts left.
FinishBug(e) ==
  /\ stage[e] = "certs"
  /\ stage' = [stage EXCEPT ![e] = "idle"]
  /\ UNCHANGED <<health, ticks, todo, pending, open>>

Finish(e) ==
  /\ stage[e] = "certs"
  /\ Raised(e)
  /\ stage' = [stage EXCEPT ![e] = "idle"]
  /\ UNCHANGED <<health, ticks, todo, pending, open>>

Evaluate(e) ==
  \/ ReadTunnels(e)
  \/ \E a \in Alert : Count(e, a)
  \/ Insert(e)
  \/ QueryCerts(e)
  \/ Finish(e)

-----------------------------------------------------------------------------
\* resolveAlert on an open alert.
Resolve(a) ==
  /\ open[a] > 0
  /\ open' = [open EXCEPT ![a] = @ - 1]
  /\ UNCHANGED <<health, ticks, stage, todo, pending>>

\* resetEstate deletes the alerts; the sources change separately.
Wipe ==
  /\ open' = [a \in Alert |-> 0]
  /\ UNCHANGED <<health, ticks, stage, todo, pending>>

Next ==
  \/ Tick \/ Wipe
  \/ \E e \in Evals : Evaluate(e)
  \/ \E s \in Tunnels \cup Certs, h \in Health : Change(s, h)
  \/ \E a \in Alert : Resolve(a)

Spec == Init /\ [][Next]_vars

\* The ticker ticks and evaluations run; nobody has to resolve anything.
FairSpec == Spec /\ WF_vars(Tick) /\ \A e \in Evals : WF_vars(Evaluate(e))

-----------------------------------------------------------------------------
\* Every variable keeps its type; an idle evaluation owes nothing.
TypeOK ==
  /\ health \in [Tunnels \cup Certs -> Health]
  /\ \A s \in Tunnels \cup Certs : health[s] \in Possible(s)
  /\ ticks \in 0..(Every - 1)
  /\ stage \in [Evals -> {"idle", "start", "tunnels", "certs"}]
  /\ todo \in [Evals -> SUBSET Alert]
  /\ pending \in [Evals -> Alert \cup {None}]
  /\ open \in [Alert -> Nat]
  /\ \A e \in Evals : stage[e] \in {"idle", "start"} => Raised(e)

About(a) == {e \in Evals : pending[e] = a}

\* raiseAlert counts and inserts in two statements, so evaluations that
\* overlap duplicate an alert; but never more often than there are
\* evaluations at work, resolutions, resets and recoveries included.  With no
\* overlap, at most one alert of a source and title is ever open.
OnePerEvaluation ==
  \A a \in Alert : open[a] + Cardinality(About(a)) <= Cardinality(Evals)

\* A tunnel that stays down or lossy, a certificate that stays about to
\* expire, has an open alert sooner or later, whatever is resolved, wiped or
\* raised meanwhile.
TroubleIsReported ==
  \A a \in Alert : health[a[1]] = a[2] ~> open[a] > 0 \/ health[a[1]] # a[2]

\* Once a trouble is over for good its alert stops coming back: evaluations
\* that still have it on their list end, and what an operator resolves then
\* stays resolved.
QuietAfterRecovery ==
  \A a \in Alert :
    (<>[](health[a[1]] # a[2])) => <>[][open'[a] <= open[a]]_vars
=============================================================================
