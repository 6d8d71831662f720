\* Two clients that read slowly or vanish, their pumps and the ticker, under
\* fair scheduling.
CONSTANTS
  c1 = c1
  c2 = c2
  Clients <- MCClients
  Buffer = 2
  MaxTicks = 3
SPECIFICATION FairSpec
INVARIANTS TypeOK NoSendOnClosed
PROPERTIES ImplementsFanout BroadcastEnds ClientReleased
\* The ticker is bounded, and clients need not come.
CHECK_DEADLOCK FALSE
