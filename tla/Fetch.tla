-------------------------------- MODULE Fetch --------------------------------
(***************************************************************************)
(* useResource (src/web/src/hooks/useApi.ts) with the requests it has out: *)
(* every run of the effect sends one, answers come in any order, and an    *)
(* answer counts only while the run that asked for it is alive.            *)
(***************************************************************************)
EXTENDS Naturals, FiniteSets

CONSTANTS
  Hooks,
  Keys,
  None,
  MaxRuns,   \* bound: runs of a hook's effect
  MaxRev     \* bound: writes to what a hook reads

\* None stands for JavaScript's null, which no row is.
ASSUME NoneAssumption == None \notin [key : Keys, rev : Nat]

VARIABLES
  rev, key, due, asked, state,   \* as in Latest; asked is history, the code keeps none
  runs,    \* how often each hook's effect has run
  alive,   \* the runs whose `alive` is still true
  wire     \* requests and answers on their way

hooks == <<rev, key, due, asked, state>>
net == <<runs, alive, wire>>
vars == <<rev, key, due, asked, state, runs, alive, wire>>

L == INSTANCE Latest

\* An answer: none yet, a failure (any of api.req's), or the rows as they were.
Pending == [ok |-> FALSE, rev |-> 0]
Refused == [ok |-> FALSE, rev |-> 1]
Rows(r) == [ok |-> TRUE, rev |-> r]

\* A bug to find: the effect was made before there was an id.
RequestBug(h, n, k) == [hook |-> h, run |-> n, key |-> None, got |-> Pending]

Request(h, n, k) == [hook |-> h, run |-> n, key |-> k, got |-> Pending]

NetInit == runs = [h \in Hooks |-> 0] /\ alive = [h \in Hooks |-> {}] /\ wire = {}
Init == L!Init /\ NetInit

\* A bug to find: the effect returns no cleanup.
RunEffectBug(h) ==
  /\ due[h]
  /\ runs[h] < MaxRuns
  /\ runs' = [runs EXCEPT ![h] = @ + 1]
  /\ alive' = [alive EXCEPT ![h] = @ \cup {runs'[h]}]
  /\ wire' = wire \cup {Request(h, runs'[h], key[h])}
  /\ due' = [due EXCEPT ![h] = FALSE]
  /\ asked' = [asked EXCEPT ![h] = [key |-> key[h], rev |-> rev[h]]]
  /\ state' = [state EXCEPT ![h] = L!Waiting(@)]
  /\ UNCHANGED <<rev, key>>

\* React runs the old effect's cleanup and then the new effect.
RunEffect(h) ==
  /\ due[h]
  /\ runs[h] < MaxRuns
  /\ runs' = [runs EXCEPT ![h] = @ + 1]
  /\ alive' = [alive EXCEPT ![h] = {runs'[h]}]
  /\ wire' = wire \cup {Request(h, runs'[h], key[h])}
  /\ due' = [due EXCEPT ![h] = FALSE]
  /\ asked' = [asked EXCEPT ![h] = [key |-> key[h], rev |-> rev[h]]]
  /\ state' = [state EXCEPT ![h] = L!Waiting(@)]
  /\ UNCHANGED <<rev, key>>

\* The server reads its tables, or the request fails on either side.
Serve(m) ==
  /\ m.got = Pending
  /\ \E got \in {Rows(rev[m.hook]), Refused} :
       wire' = (wire \ {m}) \cup {[m EXCEPT !.got = got]}
  /\ UNCHANGED <<rev, key, due, asked, state, runs, alive>>

\* A bug to find: a failed request leaves the hook loading.
DeliverBug(m) ==
  /\ m.got # Pending
  /\ wire' = wire \ {m}
  /\ IF m.run \in alive[m.hook]
       THEN /\ state' = [state EXCEPT ![m.hook] =
                           IF m.got.ok THEN L!Holding(m.key, m.got.rev)
                                       ELSE [L!Failed EXCEPT !.loading = TRUE]]
            /\ asked' = [asked EXCEPT ![m.hook] = None]
       ELSE UNCHANGED <<asked, state>>
  /\ UNCHANGED <<rev, key, due, runs, alive>>

Deliver(m) ==
  /\ m.got # Pending
  /\ wire' = wire \ {m}
  /\ IF m.run \in alive[m.hook]
       THEN /\ state' = [state EXCEPT ![m.hook] =
                           IF m.got.ok THEN L!Holding(m.key, m.got.rev) ELSE L!Failed]
            /\ asked' = [asked EXCEPT ![m.hook] = None]
       ELSE UNCHANGED <<asked, state>>
  /\ UNCHANGED <<rev, key, due, runs, alive>>

Reload(H) == L!Reload(H) /\ UNCHANGED net
Navigate(h, k) == L!Navigate(h, k) /\ UNCHANGED net
Write(H) == L!Write(H) /\ UNCHANGED net

\* Unmounting runs the cleanup; what is on the wire stays there.
Unmount(H) ==
  /\ L!Unmount(H)
  /\ alive' = [h \in Hooks |-> IF h \in H THEN {} ELSE alive[h]]
  /\ UNCHANGED <<runs, wire>>

Mount(H, k) == L!Mount(H, k) /\ UNCHANGED net

Step(h) ==
  \/ RunEffect(h)
  \/ \E m \in wire : m.hook = h /\ (Serve(m) \/ Deliver(m))
  \/ ~due[h] /\ Reload({h})
  \/ Unmount({h})
  \/ rev[h] < MaxRev /\ Write({h})
  \/ \E k \in Keys : Navigate(h, k) \/ Mount({h}, k)

Next == \E h \in Hooks : Step(h)

\* React runs the effects it owes; the browser ends every request one way or
\* another and hands over the outcome.  Nothing makes anybody reload or write.
Arrive(h) == \E m \in wire : m.hook = h /\ (Serve(m) \/ Deliver(m))
Fairness == \A h \in Hooks : WF_vars(RunEffect(h)) /\ WF_vars(Arrive(h))

Safety == Init /\ [][Next]_vars
Spec == Safety /\ Fairness

-----------------------------------------------------------------------------
Answers == [ok : BOOLEAN, rev : Nat]
Messages == [hook : Hooks, run : Nat, key : Keys, got : Answers]
Asks == [key : Keys, rev : Nat]
States == [data : Asks \cup {None}, error : BOOLEAN, loading : BOOLEAN]

\* Type invariant (useApi.ts).
TypeOK ==
  /\ rev \in [Hooks -> Nat]
  /\ key \in [Hooks -> Keys]
  /\ due \in [Hooks -> BOOLEAN]
  /\ asked \in [Hooks -> Asks \cup {None}]
  /\ state \in [Hooks -> States]
  /\ runs \in [Hooks -> Nat]
  /\ alive \in [Hooks -> SUBSET Nat]
  /\ wire \subseteq Messages

\* The requests and their deaths amount to Latest: a late answer to an old
\* request never lands on a newer one (useApi.ts:16-21).
ImplementsLatest == L!Spec

\* A page never goes back to an older state of the thing it shows.
NeverOlder ==
  [][\A h \in Hooks :
       LET was == state[h].data  is == state'[h].data IN
       was # None /\ is # None /\ was.key = is.key => was.rev <= is.rev]_vars

\* A page does not load for ever: the last request's outcome ends it, unless
\* another request is due.
LoadingEnds ==
  \A h \in Hooks : state[h].loading ~> (~state[h].loading \/ due[h])
=============================================================================
