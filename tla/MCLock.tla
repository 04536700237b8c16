-------------------------------- MODULE MCLock --------------------------------
(* Lock on a few tasks, for TLC.                                           *)
EXTENDS Lock, TLC

TaskSymmetry == Permutations(Task)
=============================================================================
