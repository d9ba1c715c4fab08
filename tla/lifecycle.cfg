\* Three calls in turn, two of them cancelled anywhere, under the fairness of the
\* event loop.
SPECIFICATION FairSpec
CONSTANTS
  None = None
  MaxCalls = 3
  MaxCancels = 2
  MaxLongLines = 0
  Notifications = {TRUE}
  Autostart = TRUE
  Orderly = TRUE
INVARIANTS
  TypeOK
  NoOrphans
  FailedLeavesNothing
  DisconnectedIsQuiet
  ConnectedIsWatching
  PollsItsOwn
PROPERTIES
  LoopStopsItsOwn
  DeathIsNoticed
  CallsReturn
CHECK_DEADLOCK FALSE
