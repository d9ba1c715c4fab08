\* First runs that scan, two notices per page, or replay, and what follows them:
\* own posts, peers' posts and overlong lines, under the fairness of the loop and
\* of Hermes' reconnects.
SPECIFICATION FairSpec
CONSTANTS
  None = None
  a = a
  b = b
  Threads = {a, b}
  HistoryWindow = 1
  Arriving <- MCArriving
  MayReplay = TRUE
  MayScan = TRUE
  PageSize = 2
  MaxPages = 3
  MaxInbox = 4
  MaxFailures = 1
  MaxStops = 1
INVARIANTS
  TypeOK
  NoNoticeLost
  OneUncommitted
  RepeatsNeedInterruption
  HeadStart
PROPERTIES
  CursorNeverBack
  FeedSpec
  EventuallyHandled
CHECK_DEADLOCK FALSE
