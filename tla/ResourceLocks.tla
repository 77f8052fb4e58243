---------------------------- MODULE ResourceLocks ----------------------------
(***************************************************************************)
(* What class-2 locks promise (RFC 4918, section 6): a lock protects the   *)
(* resource it was taken on or, with depth infinity, all below it as well, *)
(* and of the locks in force that protect the same resource either all are *)
(* shared or there is one.  A lock comes into force in one step, against   *)
(* all that are in force then.                                             *)
(***************************************************************************)
EXTENDS DavPaths

CONSTANT Token

VARIABLE held     \* the locks in force

AllLocks == [token : Token, path : Path, depth : {"0", "infinity"}, scope : {"exclusive", "shared"}]

Protects(l, p) == p = l.path \/ (l.depth = "infinity" /\ Descendant(l.path, p))

Excludes(k, l) ==
    /\ k.scope = "exclusive" \/ l.scope = "exclusive"
    /\ \E p \in Path : Protects(k, p) /\ Protects(l, p)

Init == held = {}

Grant(l) ==
    /\ \A k \in held : k.token # l.token /\ ~ Excludes(k, l)
    /\ held' = held \cup {l}

\* Locks are given back, or run out.
End(S) == held' = held \ S

Next ==
    /\ held' # held
    /\ (\E l \in AllLocks : Grant(l)) \/ (\E S \in SUBSET held : End(S))

Spec == Init /\ [][Next]_held
=============================================================================
