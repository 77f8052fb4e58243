----------------------------- MODULE MCLoginFlow -----------------------------
(***************************************************************************)
(* Instances of LoginFlow for TLC.                                         *)
(***************************************************************************)
EXTENDS LoginFlow

CONSTANTS u1, u2, r1, r2, r3

TwoUsers == {u1, u2}
ThreeRequests == {r1, r2, r3}
=============================================================================
