------------------------------ MODULE MCIoManager ------------------------------
(* Instances of IoManager for TLC.                                          *)
EXTENDS IoManager, TLC

Symmetry == Permutations(Action)

=============================================================================
