CONSTANTS
  Width = 4
  Bases <- SomeBases
  Alphabet <- SomeCharacters
  MaxText = 4
SPECIFICATION Spec
INVARIANTS
  TextFits
  RoundTrip
  ReadsNumerals
  ReadsNothingElse
CHECK_DEADLOCK FALSE
