\* A first post that takes longer than the window, nothing forgotten.
SPECIFICATION Spec
CONSTANTS
  None = None
  a = a
  b = b
  o1 = o1
  hi = hi
  err = err
  empty = empty
  Empty = empty
  k1 = k1
  t1 = t1
  t2 = t2
  t3 = t3
  Operational = {err}
  Threads = {a}
  Objects = {o1}
  ThreadOf <- MCOneThread
  Contents = {hi}
  SuppliedKeys = {k1}
  Metadata <- MCDirectMetadata
  Tasks = {t1, t2}
  MaxDrafts = 1
  MaxReplies = 1
  MaxRecent = 2
  Window = 1
  MaxDraftSeq = 0
  MaxTime = 4
  MaxDisconnects = 0

INVARIANTS
  IdenticalDeliveriesReuse
CHECK_DEADLOCK FALSE
