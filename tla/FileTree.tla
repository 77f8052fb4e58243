------------------------------ MODULE FileTree ------------------------------
(***************************************************************************)
(* What the WebDAV handlers promise about one user's files: a tree of      *)
(* names on which every request that changes it is one atomic operation    *)
(* (the statements of handlers/webdav.go on table files, seen from the     *)
(* outside).  DavTree implements it, with the disk, versions, sizes, locks *)
(* and transactions left out.                                              *)
(***************************************************************************)
EXTENDS DavPaths

CONSTANTS Content,  \* what may be uploaded
          Dir       \* what a collection has in place of content

VARIABLE tree       \* a collection or a content for each name

IsTree(t) ==
    /\ t[Root] = Dir
    /\ \A p \in DOMAIN t \ {Root} : Parent(p) \in DOMAIN t /\ t[Parent(p)] = Dir

Init == IsTree(tree)

\* The names below p, seen from p, and what is there.
Below(p) == {SubSeq(q, Len(p) + 1, Len(q)) : q \in {k \in DOMAIN tree : k = p \/ Descendant(p, k)}}
Subtree(p) == [k \in Below(p) |-> tree[p \o k]]

\* t without the subtree at p; with the tree sub at p in place of what is there.
Without(t, p) == [q \in {k \in DOMAIN t : k # p /\ ~ Descendant(p, k)} |-> t[q]]
With(t, p, sub) ==
    LET new == {p \o k : k \in DOMAIN sub}
    IN [q \in DOMAIN Without(t, p) \cup new |->
           IF q \in new THEN sub[SubSeq(q, Len(p) + 1, Len(q))] ELSE t[q]]

Collection(p) == p \in DOMAIN tree /\ tree[p] = Dir
Leaf(c) == [k \in {Root} |-> c]

Put(p, c) ==
    /\ Collection(Parent(p)) /\ ~ Collection(p)
    /\ tree' = With(tree, p, Leaf(c))

Mkcol(p) ==
    /\ Collection(Parent(p)) /\ p \notin DOMAIN tree
    /\ tree' = With(tree, p, Leaf(Dir))

Delete(p) ==
    /\ p \in DOMAIN tree
    /\ tree' = Without(tree, p)

Move(s, d) ==
    /\ s \in DOMAIN tree /\ Collection(Parent(d)) /\ ~ Overlap(s, d)
    /\ tree' = With(Without(tree, s), d, Subtree(s))

Copy(s, d) ==
    /\ s \in DOMAIN tree /\ Collection(Parent(d)) /\ ~ Overlap(s, d)
    /\ tree' = With(tree, d, Subtree(s))

CopyAlone(s, d) ==
    /\ s \in DOMAIN tree /\ Collection(Parent(d)) /\ ~ Overlap(s, d)
    /\ tree' = With(tree, d, Leaf(tree[s]))

Names == UNION {{q, Parent(q)} : q \in (DOMAIN tree \cup DOMAIN tree') \ {Root}}

Next ==
    \E p \in Names \ {Root} :
        \/ \E c \in Content : Put(p, c)
        \/ Mkcol(p) \/ Delete(p)
        \/ \E d \in Names \ {Root} : Move(p, d) \/ Copy(p, d) \/ CopyAlone(p, d)

Spec == Init /\ [][Next]_tree
=============================================================================
