\* Three calls of one text compete for the lock, nothing is forgotten, under
\* the fairness of the event loop.
SPECIFICATION FairSpec
CONSTANTS
  None = None
  a = a
  b = b
  o1 = o1
  hi = hi
  err = err
  empty = empty
  Empty = empty
  k1 = k1
  t1 = t1
  t2 = t2
  t3 = t3
  Operational = {err}
  Threads = {a}
  Objects = {o1}
  ThreadOf <- MCOneThread
  Contents = {hi}
  SuppliedKeys = {k1}
  Metadata <- MCMarkedMetadata
  Tasks = {t1, t2, t3}
  MaxDrafts = 1
  MaxReplies = 1
  MaxRecent = 1
  Window = 1
  MaxDraftSeq = 0
  MaxTime = 2
  MaxDisconnects = 0
INVARIANTS
  CloseDeliveriesReuse
PROPERTIES
  PublishReturns
CHECK_DEADLOCK FALSE
