----------------------------- MODULE MCDictionary -----------------------------
(* Dictionary with two tasks and small chunks, for TLC.                     *)
EXTENDS Dictionary, TLC

CONSTANTS t1, t2, a, forth

TwoTasks == {t1, t2}
Alike == Permutations(TwoTasks)
ForthOnly == <<forth>>
=============================================================================
