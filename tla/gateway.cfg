\* Two notices, two turns, a failure, a disconnect or a crash, and tables of one
\* entry; the first run replays the inbox.
SPECIFICATION GatewaySpec
CONSTANTS
  None = None
  a = a
  hi = hi
  err = err
  empty = empty
  Empty = empty
  w1 = w1
  w2 = w2
  Threads = {a}
  HistoryWindow = 2
  Arriving <- MCArriving
  MayReplay = TRUE
  MayScan = FALSE
  PageSize = 1
  MaxPages = 1
  MaxInbox = 2
  MaxFailures = 1
  MaxStops = 1
  Operational = {err}
  ThreadOf <- MCThreadOf
  Contents = {hi, err, empty}
  SuppliedKeys = {}
  Metadata <- MCMetadata
  Workers = {w1, w2}
  MaxDrafts = 1
  MaxReplies = 1
  MaxRecent = 1
  Window = 1
  MaxDraftSeq = 2
  MaxTime = 1
SYMMETRY TurnSymmetry
INVARIANTS
  DroppedOnlyAfterReset
  RefusedOnlyAfterEviction
  NoReplyLoop
PROPERTIES
  LogSpec
CHECK_DEADLOCK FALSE
