\* Previews, edits, direct sends and retries over two threads, with one accepted
\* post, tables of one entry, a disconnect, and a clock that crosses a bucket.
SPECIFICATION Spec
CONSTANTS
  None = None
  a = a
  b = b
  o1 = o1
  hi = hi
  err = err
  empty = empty
  Empty = empty
  k1 = k1
  t1 = t1
  t2 = t2
  t3 = t3
  Operational = {err}
  Threads = {a, b}
  Objects = {o1}
  ThreadOf <- MCOneThread
  Contents = {hi, err}
  SuppliedKeys = {k1}
  Metadata <- MCEveryMetadata
  Tasks = {t1, t2}
  MaxDrafts = 1
  MaxReplies = 1
  MaxRecent = 1
  Window = 1
  MaxDraftSeq = 2
  MaxTime = 1
  MaxDisconnects = 1
SYMMETRY TaskSymmetry
INVARIANTS
  TypeOK
  FailClosed
  AnswerSignedOnce
  AckedIsPosted
PROPERTIES
  LogSpec
CHECK_DEADLOCK FALSE
