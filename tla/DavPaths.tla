------------------------------ MODULE DavPaths ------------------------------
(***************************************************************************)
(* The canonical relative paths of one user's WebDAV tree.  The code keeps *)
(* them as strings without leading or trailing slash, "" being the root;   *)
(* here a path is the sequence of its components and the root is << >>.    *)
(***************************************************************************)
EXTENDS Naturals, Sequences

CONSTANT Path    \* the canonical paths in use, closed under taking ancestors

Root == << >>

\* davPathIsDescendant: child lies strictly below parent.
Descendant(parent, child) ==
    /\ Len(parent) < Len(child)
    /\ SubSeq(child, 1, Len(parent)) = parent

\* utils.ParentPaths: every strict ancestor, the root included.
ParentPaths(p) == {SubSeq(p, 1, n) : n \in 0..Len(p) - 1}

\* The path of the parent collection (path.Dir).
Parent(p) == SubSeq(p, 1, Len(p) - 1)

\* Two paths overlap when one is the other or an ancestor of it.
Overlap(p, q) == p = q \/ Descendant(p, q) \/ Descendant(q, p)

SetsOverlap(T, U) == \E p \in T, q \in U : Overlap(p, q)

ASSUME PathAssumption ==
    /\ Root \in Path
    /\ \A p \in Path : p \in Seq(Nat) /\ \A n \in 0..Len(p) : SubSeq(p, 1, n) \in Path
=============================================================================
