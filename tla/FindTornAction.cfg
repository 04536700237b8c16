CONSTANTS
  Task = {t1, t2}
  Nil = Nil
  Action = {a1, a2}
  Fd = {f1}
  Stdin = stdin
  Pipes = {}
  Types = {"READ", "WRITE", "SLEEP"}
  Counts = {1}
  MaxData = 1
  MaxBreaks = 2
  Leftover = 0

SPECIFICATION Spec
PROPERTIES DestructionDeferred
CHECK_DEADLOCK FALSE
