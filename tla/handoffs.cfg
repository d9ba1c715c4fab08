\* Three answers in two threads, two turns, a table of two rows.
SPECIFICATION Spec
CONSTANTS
  None = None
  a = a
  b = b
  o1 = o1
  o2 = o2
  o3 = o3
  s1 = s1
  s2 = s2
  g = g
  w1 = w1
  w2 = w2
  w3 = w3
  t1 = t1
  t2 = t2
  Threads = {a, b}
  Objects = {o1, o2, o3}
  ThreadOf <- MCThreadOf
  TextOf <- MCTextOf
  Sessions = {s1, s2}
  Gateway = {g}
  Workers = {w1, w2, w3}
  Turns = {t1, t2}
  MaxPerTurn = 2
  MaxStored = 2
  MaxContextChars = 10
  Header = 1
  Prefix = 1
  Separator = 1
SYMMETRY BridgeSymmetry
INVARIANTS
  TypeOK
  OldestFirst
  ClaimedFits
  OnlyToForeground
  DeliveredWasClaimed
  InjectedOnce
  KeptUntilFull
CHECK_DEADLOCK FALSE
