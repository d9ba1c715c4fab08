\* A bridge whose database fails once, after a replaying first run.
SPECIFICATION FairSpec
CONSTANTS
  None = None
  a = a
  b = b
  Threads = {a, b}
  HistoryWindow = 1
  Arriving <- MCSound
  MayReplay = TRUE
  MayScan = FALSE
  PageSize = 1
  MaxPages = 3
  MaxInbox = 2
  MaxFailures = 1
  MaxStops = 1
PROPERTIES
  BridgeFailsOpen
CHECK_DEADLOCK FALSE
