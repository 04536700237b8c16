CONSTANTS
  Task = {t1, t2, t3}
  Nil = Nil
  Junk = Junk
  WaitingSize = 2
  UnlockWords = {"UNLOCK", "UNLOCK-NO-RELOCK", "UNLOCK-COUNT-RELOCK"}
  CountLimits = {1}
SPECIFICATION FairSpec
INVARIANTS
  TypeOK
  MutualExclusion
  OutsideOwnsNothing
  OwnerHeard
  WaitersQueued
PROPERTIES
  LockReturns
CHECK_DEADLOCK FALSE
