SPECIFICATION Spec
CONSTANTS
  e1 = e1
  e2 = e2
  e3 = e3
  r1 = r1
  r2 = r2
  g1 = g1
  g2 = g2
  p1 = p1
  None = None
  Events = {e1, e2, e3}
  Requests = {r1, r2}
  Configs = {g1, g2}
  Calls = {p1}
  RequestOf <- MCRequestOf
  ConfigOf <- MCConfigOf
  CallOf <- MCCallOf
  Handlers = {h1}
  MaxFaults = 1
INVARIANT
  AckedIsStored
