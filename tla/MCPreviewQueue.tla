--------------------------- MODULE MCPreviewQueue ---------------------------
(***************************************************************************)
(* Instances of PreviewQueue for TLC.                                      *)
(***************************************************************************)
EXTENDS PreviewQueue, TLC

CONSTANTS f1, f2

TwoFiles == {f1, f2}
BothTwice == [f \in File |-> 2]
FirstTwice == [f \in File |-> IF f = f1 THEN 2 ELSE 1]
FileSymmetry == Permutations(TwoFiles)

\* The faults after which previews are still made, and all that leave queue.json
\* intact.
Worlds == {{"save", "kill"}, {"stop"}, {"kill", "database", "tool"}}
OnlyStops == {{"stop"}}
=============================================================================
