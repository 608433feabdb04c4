SPECIFICATION Spec
CONSTANTS
  Commands = {c1, c2}
  Workers = {w1}
  Flushers = {}
  Closers = {k1}
  MaxQueueSize = 2
  MaxAttempts = 2
  NoCommand = NoCommand
CHECK_DEADLOCK FALSE
INVARIANT
  LossIsRecorded
