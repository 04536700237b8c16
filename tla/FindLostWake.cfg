CONSTANTS
  Task = {t1, t2, t3}
  Nil = Nil
  Junk = Junk
  WaitingSize = 2
  UnlockWords = {"UNLOCK"}
  CountLimits = {1}
SPECIFICATION Spec
SYMMETRY TaskSymmetry
INVARIANTS
  OwnerAwake
