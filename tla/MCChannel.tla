------------------------------- MODULE MCChannel -------------------------------
(* Channel on a few tasks, for TLC.                                         *)
EXTENDS Channel, TLC

Symmetry == Permutations(Task) \cup Permutations(Message)

Conds == {"recv", "send"}

\* all but PEEK, which takes a signal and leaves the message it is for, and
\* TRY-RECV, which takes like RECV and takes nothing like TRY-PEEK
NoWaitingPeek == Sends \cup {"RECV", "TRY-PEEK"}
=============================================================================
