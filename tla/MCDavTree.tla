------------------------------ MODULE MCDavTree ------------------------------
(***************************************************************************)
(* Instances of DavTree and DavReads for TLC: two top-level names, one     *)
(* name below each.                                                        *)
(***************************************************************************)
EXTENDS DavReads, TLC

CONSTANTS r1, r2, c1

TwoHandlers == {r1, r2}
HandlerSymmetry == Permutations(TwoHandlers)

\* Requests name a = 1, b = 2, a/f = 1/1 and b/f = 2/1; moving and copying
\* collections into each other makes deeper paths.
Targets == {<<1>>, <<2>>, <<1, 1>>, <<2, 1>>}
DeepPaths == UNION {[1..n -> {1, 2}] : n \in 0..5}

\* A collection with a file beside an empty one; a file beside a collection.
TreeAB == <<>> :> Dir @@ <<1>> :> Dir @@ <<1, 1>> :> 4 @@ <<2>> :> Dir
TreeFB == <<>> :> Dir @@ <<1>> :> 4 @@ <<2>> :> Dir @@ <<2, 1>> :> 5
BothTrees == {TreeAB, TreeFB}

\* Contents 1 to 3 are uploaded; 4 and 5, an empty file, are there at the start.
Sizes == <<2, 1, 1, 1, 0>>

\* An empty tree, and requests below one new collection.
EmptyTree == {<<>> :> Dir}
BelowOne == {<<1>>, <<1, 1>>, <<1, 2>>}

On(k, P) == {[kind |-> k, path |-> p, dest |-> p] : p \in P}
Single(k) == On(k, Targets)
Paired(k) == {o \in [kind : {k}, path : Targets, dest : Targets] :
                 o.path # o.dest /\ ~ Descendant(o.path, o.dest)}
AllWrites == Single("PUT") \cup Single("MKCOL") \cup Single("DELETE")
             \cup Paired("MOVE") \cup Paired("COPY") \cup Paired("COPY0")
Uploads == Single("PUT")
Renames == Paired("MOVE")
BuildUp == On("MKCOL", BelowOne) \cup On("PUT", BelowOne)
AllRequests == AllWrites \cup On("PROPPATCH", Targets \cup {Root})

\* Requests on one collection and a file beside it, one at a time.
OneHandler == {r1}
OneByOne == On("MKCOL", {<<1>>, <<1, 2>>}) \cup On("PUT", {<<1, 1>>, <<2>>})
            \cup On("DELETE", {<<1>>, <<1, 1>>})
SixUploads == <<1, 2, 1, 1, 2, 1>>

OneClient == {c1}
NoClient == {}
AnyName == Targets \cup {Root}

\* Nothing fails; transactions fail; sessions are lost.
NoFaults == {{}}
Transactions == {{"tx"}}
Adrift == {{"session"}}
\* Nothing fails; transactions fail and the server stops; everything may fail.
Worlds == {{}, {"tx", "crash"}, {"tx", "session", "reply", "crash"}}
=============================================================================
