\* Posts whose notice line is between the limit of the stream and the cap, in a
\* replaying first run; no other failure.
SPECIFICATION FairSpec
CONSTANTS
  None = None
  a = a
  b = b
  Threads = {a, b}
  HistoryWindow = 1
  Arriving <- MCOverlong
  MayReplay = TRUE
  MayScan = FALSE
  PageSize = 1
  MaxPages = 3
  MaxInbox = 2
  MaxFailures = 0
  MaxStops = 0
PROPERTIES
  CappedLinesAreHandled
CHECK_DEADLOCK FALSE
