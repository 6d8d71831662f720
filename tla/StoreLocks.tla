----------------------------- MODULE StoreLocks -----------------------------
(***************************************************************************)
(* The two things goroutines of the server wait for: the only connection   *)
(* of the SQLite pool (SetMaxOpenConns(1)) and the telemetry engine's      *)
(* sync.RWMutex.  A statement holds the connection while it runs, a query  *)
(* while its cursor is open; tunnelsWhere and sessionsWhere look each row  *)
(* up in the engine under an open cursor, and Reload queries the tables    *)
(* under the engine's lock.                                                *)
(*                                                                         *)
(* A goroutine is the sequence of these operations it performs; what it    *)
(* computes in between takes no part.  The pool and the mutex are Go's,    *)
(* modelled by their documented behaviour.                                 *)
(***************************************************************************)
EXTENDS Naturals, Sequences, FiniteSets

CONSTANTS
  Procs,       \* goroutines: requests, the ticker, alert evaluations
  Kinds,       \* the kinds of work they take up
  Rows,        \* rows of a listing
  Statements,  \* statements of one alert evaluation
  None

ASSUME SizeAssumption ==
  /\ Rows \in Nat
  /\ Statements \in Nat
  /\ None \notin Procs

-----------------------------------------------------------------------------
\* What each kind of goroutine does with the connection and the mutex.

\* tunnelsWhere and sessionsWhere: the cursor stays open over the lookups.
Listing ==
  [i \in 1..(2 * Rows + 2) |->
     IF i = 1 THEN "open"
     ELSE IF i = 2 * Rows + 2 THEN "close"
     ELSE IF i % 2 = 0 THEN "rlock" ELSE "runlock"]

\* A bug to find: alerts are raised under the cursor over the certificates.
EvaluationBug == <<"rlock", "runlock", "open", "open", "close", "close">>

\* evaluateAlerts: conditions under the read lock, then statements one by one.
Evaluation ==
  [i \in 1..(2 * Statements + 2) |->
     IF i = 1 THEN "rlock"
     ELSE IF i = 2 THEN "runlock"
     ELSE IF i % 2 = 1 THEN "open" ELSE "close"]

\* tick: everything under the lock; the broadcast comes after it.
Tick == <<"lock", "unlock">>

\* toggleTunnel, updateTunnel, deleteTunnel, createTunnel, disconnectSession:
\* a statement, the engine call, the audit event.
Mutation == <<"open", "close", "lock", "unlock", "open", "close">>

\* overview: counts, the engine's snapshot, alerts and audit.
Overview == <<"open", "close", "rlock", "runlock", "open", "close">>

\* deleteSite, deleteUser, deleteCloud, resetEstate, restore: statements, then
\* Reload, which reads tunnels and sessions with the lock held.
Reloading ==
  <<"open", "close", "lock", "open", "close", "open", "close", "unlock">>

Program(k) ==
  CASE k = "list"     -> Listing
    [] k = "evaluate" -> Evaluation
    [] k = "tick"     -> Tick
    [] k = "mutate"   -> Mutation
    [] k = "overview" -> Overview
    [] k = "reload"   -> Reloading

AllKinds == {"list", "evaluate", "tick", "mutate", "overview", "reload"}
ASSUME KindsAssumption == Kinds \subseteq AllKinds

-----------------------------------------------------------------------------
VARIABLES
  kind,     \* what each goroutine is doing, "idle" when it does not exist
  at,       \* index of its next operation
  conn,     \* the goroutine the connection is lent to
  readers,  \* goroutines inside the mutex as readers
  rwait,    \* readers queued behind a writer
  writer    \* the goroutine that has announced itself or is in as the writer

vars == <<kind, at, conn, readers, rwait, writer>>

Busy(p) == kind[p] # "idle"
NextOp(p) == IF Busy(p) THEN Program(kind[p])[at[p]] ELSE "none"
Last(p) == at[p] = Len(Program(kind[p]))

\* A bug to find: a goroutine that ends leaves its place to its successor.
CompleteBug(S) ==
  /\ kind' = [p \in Procs |-> IF p \in S /\ Last(p) THEN "idle" ELSE kind[p]]
  /\ at' = [p \in Procs |-> IF p \in S THEN at[p] + 1 ELSE at[p]]

\* The goroutines of S complete their current operation.
Complete(S) ==
  /\ kind' = [p \in Procs |-> IF p \in S /\ Last(p) THEN "idle" ELSE kind[p]]
  /\ at' = [p \in Procs |-> IF p \in S THEN (IF Last(p) THEN 1 ELSE at[p] + 1) ELSE at[p]]

Spawn(p, k) ==
  /\ ~Busy(p)
  /\ kind' = [kind EXCEPT ![p] = k]
  /\ UNCHANGED <<at, conn, readers, rwait, writer>>

\* DB.Query, DB.Exec, DB.QueryRow: wait for the connection.
Open(p) ==
  /\ NextOp(p) = "open"
  /\ conn = None
  /\ conn' = p
  /\ Complete({p})
  /\ UNCHANGED <<readers, rwait, writer>>

\* The statement is done, or the cursor drained or closed.
Close(p) ==
  /\ NextOp(p) = "close"
  /\ conn' = None
  /\ Complete({p})
  /\ UNCHANGED <<readers, rwait, writer>>

\* A reader gets in unless a writer is in or waiting.
RLock(p) ==
  /\ NextOp(p) = "rlock"
  /\ p \notin rwait
  /\ \/ /\ writer = None
        /\ readers' = readers \cup {p}
        /\ Complete({p})
        /\ UNCHANGED rwait
     \/ /\ writer # None
        /\ rwait' = rwait \cup {p}
        /\ UNCHANGED <<kind, at, readers>>
  /\ UNCHANGED <<conn, writer>>

RUnlock(p) ==
  /\ NextOp(p) = "runlock"
  /\ readers' = readers \ {p}
  /\ Complete({p})
  /\ UNCHANGED <<conn, rwait, writer>>

\* A writer first announces itself, which keeps new readers out...
Announce(p) ==
  /\ NextOp(p) = "lock"
  /\ writer = None
  /\ writer' = p
  /\ UNCHANGED <<kind, at, conn, readers, rwait>>

\* ...and is in when the readers before it have left.
Lock(p) ==
  /\ NextOp(p) = "lock"
  /\ writer = p
  /\ readers = {}
  /\ Complete({p})
  /\ UNCHANGED <<conn, readers, rwait, writer>>

\* A bug to find: the queued readers are not woken.
UnlockBug(p) ==
  /\ NextOp(p) = "unlock"
  /\ writer' = None
  /\ Complete({p})
  /\ UNCHANGED <<conn, readers, rwait>>

\* Unlocking lets every queued reader in before the next writer.
Unlock(p) ==
  /\ NextOp(p) = "unlock"
  /\ writer' = None
  /\ readers' = rwait
  /\ rwait' = {}
  /\ Complete({p} \cup rwait)
  /\ UNCHANGED conn

Step(p) == \/ Open(p) \/ Close(p) \/ RLock(p) \/ RUnlock(p)
           \/ Announce(p) \/ Lock(p) \/ Unlock(p)

Init ==
  /\ kind = [p \in Procs |-> "idle"]
  /\ at = [p \in Procs |-> 1]
  /\ conn = None
  /\ readers = {}
  /\ rwait = {}
  /\ writer = None

Next == \E p \in Procs : Step(p) \/ \E k \in Kinds : Spawn(p, k)

\* A runnable goroutine runs.  Those that compete for the connection or for
\* the write lock get it in turn: database/sql queues its requests, and a
\* sync.Mutex hands over to a waiter it has starved for a millisecond.
Fairness ==
  \A p \in Procs : /\ WF_vars(Close(p)) /\ WF_vars(RLock(p)) /\ WF_vars(RUnlock(p))
                   /\ WF_vars(Lock(p)) /\ WF_vars(Unlock(p))
                   /\ SF_vars(Open(p)) /\ SF_vars(Announce(p))

Spec == Init /\ [][Next]_vars
FairSpec == Spec /\ Fairness

-----------------------------------------------------------------------------
TypeOK ==
  /\ kind \in [Procs -> Kinds \cup {"idle"}]
  /\ at \in [Procs -> Nat \ {0}]
  /\ \A p \in Procs : Busy(p) => at[p] <= Len(Program(kind[p]))
  /\ conn \in Procs \cup {None}
  /\ readers \subseteq Procs
  /\ rwait \subseteq Procs
  /\ writer \in Procs \cup {None}

\* The goroutines that have to move before p can.
WaitsFor(p) ==
  CASE NextOp(p) = "open"                    -> {conn} \ {None}
    [] NextOp(p) = "rlock" /\ p \in rwait    -> {writer} \ {None}
    [] NextOp(p) = "lock" /\ writer = p      -> readers
    [] NextOp(p) = "lock" /\ writer # p      -> {writer} \ {None}
    [] OTHER                                -> {}

\* A listing waits for the mutex under its cursor, and the reload that holds
\* the mutex waits for the connection.
Wedged ==
  \E p, q \in Procs : /\ conn = p /\ kind[p] = "list" /\ NextOp(p) = "rlock"
                      /\ writer = q /\ kind[q] = "reload" /\ NextOp(q) = "open"

\* No goroutines wait for one another in a circle, between the single
\* connection and the mutex, but a listing and a reload: every other way of
\* taking the two, cursors of certificates and audit events included, is safe.
NoDeadlock ==
  \A S \in SUBSET Procs :
    S # {} /\ (\A p \in S : WaitsFor(p) \cap S # {}) => Wedged

\* Every goroutine completes, unless a listing and a reload have wedged the
\* server: no request, tick or evaluation is starved by the others.
EverythingCompletes == \A p \in Procs : Busy(p) ~> ~Busy(p) \/ Wedged

\* An alert evaluation completes and gives the connection back
\* (engine_test.go: "assert evaluation completes and the connection is
\* released for a subsequent query").
EvaluationCompletes ==
  \A p \in Procs : kind[p] = "evaluate" ~> (~Busy(p) /\ conn # p)
=============================================================================
