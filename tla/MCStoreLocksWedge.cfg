\* A listing and a reload, then an evaluation.
CONSTANTS
  g1 = g1
  g2 = g2
  g3 = g3
  None = None
  Procs <- MCProcs
  Kinds <- WedgeKinds
  Rows = 2
  Statements = 1
SPECIFICATION FairSpec
PROPERTIES EvaluationCompletes
CHECK_DEADLOCK FALSE
