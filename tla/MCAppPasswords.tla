--------------------------- MODULE MCAppPasswords ---------------------------
(***************************************************************************)
(* Instances of AppPasswords for TLC.                                      *)
(***************************************************************************)
EXTENDS AppPasswords, TLC

CONSTANTS p1, p2, r1, r2

TwoPasswords == {p1, p2}
TwoRequests == {r1, r2}
Symmetry == Permutations(TwoPasswords) \cup Permutations(TwoRequests)
=============================================================================
