------------------------------- MODULE MCHub --------------------------------
(***************************************************************************)
(* Two dashboards, a channel that three snapshots overflow.                *)
(***************************************************************************)
EXTENDS Hub

CONSTANTS c1, c2

MCClients == {c1, c2}
=============================================================================
