CONSTANTS
  t1 = t1
  t2 = t2
  a = a
  forth = forth
  Tasks <- TwoTasks
  Names = {a}
  Lists = {forth}
  Order <- ForthOnly
  NoData <- TwoTasks
  FreeOnExit = {}
  HeaderCells = 1
  MinGuaranteed = 4
  ChunkCells = 6
  MaxWords = 2
  MaxChunks = 2
  DataCells = 3
  MaxCode = 4
SYMMETRY Alike
SPECIFICATION Spec
INVARIANTS
  DictionaryTypeOK
  CodeEnds
  CompilesRecent
  CellsApart
PROPERTIES
  NamesKept
CHECK_DEADLOCK FALSE
