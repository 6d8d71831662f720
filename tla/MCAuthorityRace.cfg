\* Two requests create the authority together.
CONSTANTS
  r1 = r1
  r2 = r2
  ca1 = ca1
  ca2 = ca2
  ca3 = ca3
  l1 = l1
  l2 = l2
  Requests <- MCRequests
  CAs <- MCCAs
  Leaves <- MCLeaves
  None = None
SPECIFICATION Spec
INVARIANTS ReloadedCAIssues
