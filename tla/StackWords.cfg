CONSTANTS
  Width = 3
  DataSize = 4
  FloatSize = 3
  RetSize = 3
  CodeSize = 3
  Space = 8
  DataBase = 5
  FloatBase = 4
  Given = {0, 1, 4}
  Debug = TRUE
  Vocabularies <- AllVocabularies
SPECIFICATION Spec
INVARIANTS
  ChecksSuffice
  ProgramsAgree
  CallsComeBack
CHECK_DEADLOCK FALSE
