SPECIFICATION Spec
CONSTANTS
  p1 = p1
  p2 = p2
  t1 = t1
  t2 = t2
  t3 = t3
  a1 = a1
  a2 = a2
  b1 = b1
  None = None
  Processes = {p1}
  Threads = {t1}
  Home <- MCHome
  Hashes = {h1}
  Bodies = {a1}
  ContentOf <- MCContentOf
  MaxLocal = 1
  Ttl = 1
  MaxTime = 2
  MaxCalls = 2
CHECK_DEADLOCK FALSE
INVARIANT
  StoredIsRetrievable
