------------------------------- MODULE Fanout -------------------------------
(***************************************************************************)
(* What the live-telemetry channel promises a dashboard: it sees snapshots *)
(* published since it joined, in the order they were published and each at *)
(* most once; it may miss some.                                            *)
(***************************************************************************)
EXTENDS Naturals

CONSTANT Clients

VARIABLES
  published,  \* number of snapshots published so far
  joined,     \* dashboards that have connected
  seen        \* the last snapshot each has shown

fvars == <<published, joined, seen>>

FanoutInit ==
  /\ published = 0
  /\ joined = {}
  /\ seen = [c \in Clients |-> 0]

Publish ==
  /\ published' = published + 1
  /\ UNCHANGED <<joined, seen>>

\* A dashboard that joins sees nothing older.
Connect(c) ==
  /\ c \notin joined
  /\ joined' = joined \cup {c}
  /\ seen' = [seen EXCEPT ![c] = published]
  /\ UNCHANGED published

Deliver(c) ==
  /\ c \in joined
  /\ \E n \in (seen[c] + 1)..published : seen' = [seen EXCEPT ![c] = n]
  /\ UNCHANGED <<published, joined>>

FanoutNext == Publish \/ \E c \in Clients : Connect(c) \/ Deliver(c)

FanoutSpec == FanoutInit /\ [][FanoutNext]_fvars
=============================================================================
