\* Three requests on the factor; a tab with two of them; a tab with three sockets;
\* two alerts and two reads of the bell; two pointers on the map.
\* A tab may stop: with nobody typing nothing happens.
CONSTANTS
  r1 = r1
  r2 = r2
  r3 = r3
  s1 = s1
  s2 = s2
  s3 = s3
  Requests <- MCRequests
  Secrets <- MCSecrets
  Slots <- MCSlots
  None = None
  AlertIds = {a1, a2}
  Polls <- MCPolls
  Urls = {"", "u", "v"}
  NoUrl = NoUrl
  Pointers = {p1, p2}
  Aims <- MCAims
  NoNode = NoNode
SPECIFICATION MCSpec
INVARIANTS TypeOK OwnerCanSignIn OneSocket WebhookShows AtRestSaved InCanvas Spread
PROPERTIES OwnerGetsIn ScreenMovesOn FeedReturns BellCatchesUp
CHECK_DEADLOCK FALSE
