---------------------------- MODULE MCStoreLocks ----------------------------
(***************************************************************************)
(* Three goroutines that take up any kind of work, again and again.        *)
(***************************************************************************)
EXTENDS StoreLocks

CONSTANTS g1, g2, g3

MCProcs == {g1, g2, g3}
WedgeKinds == {"list", "reload", "evaluate"}
=============================================================================
