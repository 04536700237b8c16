---------------------------- MODULE MCStackMachine ----------------------------
(* StackMachine with small stacks, for TLC.                                 *)
EXTENDS StackMachine

CellWords == ShuffleWords \cup ArithmeticWords \cup LogicWords
              \cup ComparisonWords \cup {"(LITERAL)", "BRANCH"}
DoubleWords == DoubleArithmeticWords \cup DoubleLogicWords
                \cup DoubleComparisonWords \cup {"(LITERAL)", "BRANCH"}
FloatWords == FloatShuffleWords \cup ConversionWords \cup FloatArithmeticWords
               \cup FloatComparisonWords \cup {"(LITERAL)", "(FLITERAL)", "F@", "F!", "BRANCH"}
ControlledWords == ReturnWords \cup (ControlWords \ {"(FLITERAL)"})
                    \cup (MemoryWords \ {"F@", "F!"})
                    \cup {"DROP", "(LITERAL)", "EXECUTE"}

AllVocabularies == {CellWords, DoubleWords, FloatWords, ControlledWords}
=============================================================================
