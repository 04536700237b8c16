CONSTANTS
  Task = {t1, t2}
  Nil = Nil
  Action = {a1, a2}
  Fd = {f1}
  Stdin = stdin
  Pipes = {f1}
  Types = {"READ", "WRITE", "CLOSE", "SLEEP"}
  Counts = {0, 1}
  MaxData = 1
  MaxBreaks = 1
  Leftover = 0

SPECIFICATION FairSpec
INVARIANTS
  TypeOK
  InUseKept
  CountsExact
  ServedInOrder
  ResumesWhenDone
PROPERTIES
  OthersResume
  MonitorWoken
CHECK_DEADLOCK FALSE
