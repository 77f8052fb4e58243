------------------------------ MODULE MCSignIn ------------------------------
(***************************************************************************)
(* Instances of SignIn for TLC.                                            *)
(***************************************************************************)
EXTENDS SignIn, TLC

CONSTANTS p1, p2, n1, n2, n3, c1, c2, c3

TwoPeople == {p1, p2}
ThreeNames == {n1, n2, n3}
ThreeCallbacks == {c1, c2, c3}
Symmetry == Permutations(Person) \cup Permutations(Name) \cup Permutations(Callback)
=============================================================================
