CONSTANTS
  Task = {t1, t2}
  Nil = Nil
  Junk = Junk
  Unbounded = Unbounded
  WaitingSize = 4
  CondSize = 4
  Cond <- Conds
  UnlockWords = {"UNLOCK", "UNLOCK-NO-RELOCK", "UNLOCK-COUNT-RELOCK"}
  CountLimits = {0, 1, 2}
  Message = {m1, m2}
  MaxSizes = {1, 3, Unbounded}
  QueueSize = 2
  SendCount = 1
  RecvCount = 2
  Words <- NoWaitingPeek
  MaxQueued = 3
SPECIFICATION ChanSpec
SYMMETRY Symmetry
INVARIANTS
  ChanTypeOK
  SignalsHeard
  NoneStranded
PROPERTIES
  ImplementsQueue
CHECK_DEADLOCK FALSE
