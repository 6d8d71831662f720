\* Every kind of goroutine, under fair scheduling.
CONSTANTS
  g1 = g1
  g2 = g2
  g3 = g3
  None = None
  Procs <- MCProcs
  Kinds <- AllKinds
  Rows = 2
  Statements = 1
SPECIFICATION FairSpec
INVARIANTS TypeOK NoDeadlock
PROPERTIES EverythingCompletes
\* A listing, a reload and a third goroutine may wait for ever.
CHECK_DEADLOCK FALSE
