------------------------------ MODULE MCAlerts ------------------------------
(***************************************************************************)
(* A tunnel, a certificate and two evaluations that overlap.               *)
(***************************************************************************)
EXTENDS Alerts

CONSTANTS t1, c1, e1, e2

MCTunnels == {t1}
MCCerts == {c1}
MCEvals == {e1, e2}
=============================================================================
