CONSTANTS
  Task = {t1, t2}
  Nil = Nil
  DefaultCycles = 1
  MaxCycles = 2
  MaxExtra = 2
  MaxCell = 7
  Words <- RoundRobinWords
  Liberties <- NoLiberties
SPECIFICATION FairSpec
CHECK_DEADLOCK FALSE
PROPERTIES
  AwakeTaskRuns
  IoTaskResumes
  ExitsWhenAllKilled
