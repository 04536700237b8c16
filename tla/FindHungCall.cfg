CONSTANTS
  Task = {t1, t2}
  Nil = Nil
  Junk = Junk
  Unbounded = Unbounded
  WaitingSize = 4
  CondSize = 4
  Cond <- Conds
  UnlockWords = {"UNLOCK", "UNLOCK-NO-RELOCK", "UNLOCK-COUNT-RELOCK"}
  CountLimits = {0, 1, 2}
  Message = {m1}
  MaxSizes = {1, Unbounded}
  QueueSize = 2
  SendCount = 1
  RecvCount = 2
  Words <- NoWaitingPeek
  MaxQueued = 2
SPECIFICATION ChanSpec
SYMMETRY Symmetry
INVARIANTS
  CallsServed
CHECK_DEADLOCK FALSE
