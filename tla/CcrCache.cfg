SPECIFICATION Spec
CONSTANTS
  p1 = p1
  p2 = p2
  t1 = t1
  t2 = t2
  t3 = t3
  a1 = a1
  a2 = a2
  b1 = b1
  None = None
  Processes = {p1, p2}
  Threads = {t1, t2, t3}
  Home <- MCHome
  Hashes = {h1, h2}
  Bodies = {a1, a2, b1}
  ContentOf <- MCContentOf
  MaxLocal = 1
  Ttl = 0
  MaxTime = 1
  MaxCalls = 3
SYMMETRY Symmetric
CHECK_DEADLOCK FALSE
INVARIANTS
  TypeOK
  NothingOnlyLocal
  RetrievalsAreReal
  LoneRetrievalsAreReported
