------------------------------ MODULE MCNumbers -------------------------------
(* Numbers of four bits, and the texts of up to four characters, for TLC.   *)
EXTENDS Numbers

SomeBases == {0, 2, 3, 10, 11, 36, 37}
SomeCharacters == {0, 1, 3, 10, Minus, Dot, 38, 41, Other}
=============================================================================
