CONSTANTS
  Task = {t1, t2, t3}
  Nil = Nil
  DefaultCycles = 1
  MaxCycles = 2
  MaxExtra = 2
  MaxCell = 7
  Words <- MonitorWords
  Liberties <- NoLiberties
SPECIFICATION Spec
CHECK_DEADLOCK FALSE
SYMMETRY TaskSymmetry
INVARIANTS
  NoStrandedTask
  NoDanglingPointer
CONSTRAINT NestingBound
