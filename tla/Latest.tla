------------------------------- MODULE Latest -------------------------------
(***************************************************************************)
(* What useResource (src/web/src/hooks/useApi.ts) promises a page: a hook  *)
(* shows what the server held at one moment between its newest request and *)
(* its answer, or that request's failure.  No answers, no order of         *)
(* delivery: Fetch, which has them, is shown to implement this.            *)
(***************************************************************************)
EXTENDS Naturals

CONSTANTS
  Hooks,   \* the useResource calls a page may make
  Keys,    \* what a page may be about: the id in its address
  None

VARIABLES
  rev,     \* the server: how many writes have touched what the hook reads
  key,     \* the id the hook's last render asked for
  due,     \* the effect must run: mounted, id changed, or reload()
  asked,   \* what the newest request asked for, and when; None: nothing is out
  state    \* the hook's state

hooks == <<rev, key, due, asked, state>>

Off == [data |-> None, error |-> FALSE, loading |-> FALSE]
Fresh == [data |-> None, error |-> FALSE, loading |-> TRUE]
Failed == [data |-> None, error |-> TRUE, loading |-> FALSE]
Holding(k, r) == [data |-> [key |-> k, rev |-> r], error |-> FALSE, loading |-> FALSE]
Waiting(s) == [s EXCEPT !.loading = TRUE, !.error = FALSE]

Mounted == {h \in Hooks : state[h] # Off}

InitOn(H) ==
  /\ rev = [h \in Hooks |-> 0]
  /\ key \in [Hooks -> Keys]
  /\ due = [h \in Hooks |-> h \in H]
  /\ asked = [h \in Hooks |-> None]
  /\ state = [h \in Hooks |-> IF h \in H THEN Fresh ELSE Off]

Init == \E H \in SUBSET Hooks : InitOn(H)

\* The effect: a new request, the old data still on display.
Ask(h) ==
  /\ due[h]
  /\ due' = [due EXCEPT ![h] = FALSE]
  /\ asked' = [asked EXCEPT ![h] = [key |-> key[h], rev |-> rev[h]]]
  /\ state' = [state EXCEPT ![h] = Waiting(@)]
  /\ UNCHANGED <<rev, key>>

Show(h) ==
  /\ asked[h] # None
  /\ \E r \in asked[h].rev .. rev[h] :
       state' = [state EXCEPT ![h] = Holding(asked[h].key, r)]
  /\ asked' = [asked EXCEPT ![h] = None]
  /\ UNCHANGED <<rev, key, due>>

Fail(h) ==
  /\ asked[h] # None
  /\ state' = [state EXCEPT ![h] = Failed]
  /\ asked' = [asked EXCEPT ![h] = None]
  /\ UNCHANGED <<rev, key, due>>

\* reload(), of one hook or of several: Retry, or a handler after its write.
Reload(H) ==
  /\ H \subseteq Mounted
  /\ due' = [h \in Hooks |-> h \in H \/ due[h]]
  /\ UNCHANGED <<rev, key, asked, state>>

\* The address changes and the page does not: a dependency of the effect.
Navigate(h, k) ==
  /\ h \in Mounted
  /\ k # key[h]
  /\ key' = [key EXCEPT ![h] = k]
  /\ due' = [due EXCEPT ![h] = TRUE]
  /\ UNCHANGED <<rev, asked, state>>

\* The page is left: its hooks and their data go.
Unmount(H) ==
  /\ H \subseteq Mounted
  /\ due' = [h \in Hooks |-> h \notin H /\ due[h]]
  /\ asked' = [h \in Hooks |-> IF h \in H THEN None ELSE asked[h]]
  /\ state' = [h \in Hooks |-> IF h \in H THEN Off ELSE state[h]]
  /\ UNCHANGED <<rev, key>>

Mount(H, k) ==
  /\ H \cap Mounted = {}
  /\ key' = [h \in Hooks |-> IF h \in H THEN k ELSE key[h]]
  /\ due' = [h \in Hooks |-> h \in H \/ due[h]]
  /\ state' = [h \in Hooks |-> IF h \in H THEN Fresh ELSE state[h]]
  /\ UNCHANGED <<rev, asked>>

\* A write reaches the tables that the hooks of H read.
Write(H) ==
  /\ rev' = [h \in Hooks |-> IF h \in H THEN rev[h] + 1 ELSE rev[h]]
  /\ UNCHANGED <<key, due, asked, state>>

Next ==
  \/ \E h \in Hooks : Ask(h) \/ Show(h) \/ Fail(h) \/ \E k \in Keys : Navigate(h, k)
  \/ \E H \in SUBSET Hooks :
       Reload(H) \/ Unmount(H) \/ Write(H) \/ \E k \in Keys : Mount(H, k)

Spec == Init /\ [][Next]_hooks
=============================================================================
