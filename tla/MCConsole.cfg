\* Two writes on three of the pages, one on the others; one change of address.
\* Three pages run with the requests of their hooks as well.
\* A page may stop: nobody has to press anything.
CONSTANTS
  Hooks <- MCHooks
  Keys = {a, b}
  Homes = {a}
  None = None
  MaxRuns = 3
  MaxRev = 2
  Jobs <- MCJobs
  Long <- MCLong
SPECIFICATION MCSpec
INVARIANTS TypeOK OwnDraft OncePerForm
PROPERTIES ImplementsLatest NeverOlder LoadingEnds BusyEnds EffectShown
CHECK_DEADLOCK FALSE
