--------------------------- MODULE MCAdvisoryLocks ---------------------------
(***************************************************************************)
(* Instances of AdvisoryLocks for TLC: small trees, the requests that meet *)
(* in them, and the string order of their paths.                           *)
(***************************************************************************)
EXTENDS AdvisoryLocks

CONSTANTS r1, r2, r3

TwoRequests == {r1, r2}
ThreeRequests == {r1, r2, r3}

\* Components are numbered in string order: a = 1, b = 2, x = 3.
SmallTree == {<<>>, <<1>>, <<1, 2>>, <<3>>, <<3, 2>>}

\* Base-4 reading of a path padded with zeros: lexicographic order.
Digit(p, i) == IF i \in DOMAIN p THEN p[i] ELSE 0
StringOrder == [p \in Path |-> 16 * Digit(p, 1) + 4 * Digit(p, 2) + Digit(p, 3)]

\* One path (PUT, MKCOL, DELETE, PROPPATCH; PROPPATCH also takes the root)
\* or the two paths of a MOVE or COPY.
SingleTargets == {{p} : p \in Path}
AllTargets == SingleTargets \cup {{p, q} : p, q \in Path \ {Root}}

\* Two MOVEs that take their locks in opposite directions, a DELETE of a collection
\* both of them work in, and a PUT below it.
DeepTree == SmallTree \cup {<<3, 2, 2>>}
MixedTargets == {{<<1, 2>>, <<3>>}, {<<1>>, <<3, 2, 2>>}, {<<3>>}, {<<3, 2>>}}
=============================================================================
