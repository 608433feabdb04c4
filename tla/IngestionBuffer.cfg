SPECIFICATION FairSpec
CONSTANTS
  Commands = {c1, c2}
  Workers = {w1, w2}
  Flushers = {f1}
  Closers = {k1, k2}
  MaxQueueSize = 1
  MaxAttempts = 2
  NoCommand = NoCommand
CHECK_DEADLOCK FALSE
INVARIANTS
  TypeOK
  BooksBalance
  CountersMatchTheWire
  FlushSettles
  CloseQuiesces
  DrainingCloseLosesNothing
PROPERTIES
  ImplementsBestEffort
  CallersReturn
  CommandsSettle
