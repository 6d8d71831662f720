\* Two overlapping evaluations over a tunnel and a certificate, one every
\* second tick, with resolutions and resets.
CONSTANTS
  t1 = t1
  c1 = c1
  e1 = e1
  e2 = e2
  Tunnels <- MCTunnels
  Certs <- MCCerts
  Evals <- MCEvals
  Every = 2
  None = None
SPECIFICATION FairSpec
INVARIANTS TypeOK OnePerEvaluation
PROPERTIES TroubleIsReported QuietAfterRecovery
