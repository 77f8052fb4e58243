---------------------------- MODULE DavRowsProofs ----------------------------
(***************************************************************************)
(* More proofs about DavTree, on top of DavTreeProofs, about what table    *)
(* files says besides what there is: no two rows have the same id, an ETag *)
(* names one state, dead properties follow their resources, and the sizes  *)
(* of collections are those of their contents.  Last, about DavReads: all  *)
(* that is proved of the tree holds beside clients that read it, and what  *)
(* they learn is right for as long as they are shown the same ETag.        *)
(*                                                                         *)
(* Ids, ETags and properties take, of every row after a transaction, the   *)
(* row it was before; sizes, what the change adds to the sums above its    *)
(* paths; a client, that no version goes down and no id is given twice.    *)
(***************************************************************************)
EXTENDS DavReads, DavTreeProofs

-----------------------------------------------------------------------------
(* What a transaction does to the ids and versions of the rows.            *)

\* Where r keeps what belongs at a collection and at something below it, the one is below
\* the other as well.
LEMMA SpotBelow ==
    ASSUME IInv, Types, NEW r \in Req, Working(r), NEW p \in Plain, NEW k \in Plain,
           Descendant(p, k), Concerns(r, p)
    PROVE  Descendant(Spot(r, p), Spot(r, k)) /\ Spot(r, p) \in Seq(Nat)
<1> DEFINE s == Source(r)
           d == Target(r)
           b == Backup(r)
<1>1. p \in Seq(Nat) /\ k \in Seq(Nat)
  BY PlainPaths
<1>2. CASE Past(r) /\ Op(r).kind # "PROPPATCH"
  <2>1. /\ s \in Seq(Nat) /\ d \in Seq(Nat) /\ b \in Seq(Nat)
        /\ s # d => \A q \in Seq(Nat) : ~ (Within(s, q) /\ Within(d, q))
    BY <1>2, OwnApart
  <2>2. /\ Within(s, p) => Within(s, k)
        /\ Within(d, p) => Within(d, k)
    BY <1>1, <2>1, WithinOrder DEF Within
  <2>3. Op(r).kind = "MOVE" => s # d
    BY <1>2, <2>1, PastOp DEF Pairs, Within
  <2>4. ASSUME NEW a \in Seq(Nat), NEW c \in Seq(Nat), Within(a, p), Within(a, k)
        PROVE  /\ Descendant(c \o Suffix(p, a), c \o Suffix(k, a))
               /\ c \o Suffix(p, a) \in Seq(Nat)
    <3> DEFINE y == Suffix(p, a)
               x == Suffix(k, a)
    <3>1. y \in Seq(Nat) /\ a \o y = p /\ x \in Seq(Nat) /\ a \o x = k
      BY <1>1, <2>4, WhatIsLeft
    <3> HIDE DEF x, y
    <3>2. Within(a \o y, a \o x)
      BY <3>1 DEF Within
    <3>3. Within(c \o y, c \o x)
      BY <2>4, <3>1, <3>2, BelowCarried
    <3>4. c \o y # c \o x
      <4>1. Suffix(c \o y, c) = y /\ Suffix(c \o x, c) = x
        BY <2>4, <3>1, Followed
      <4>2. p # k
        BY <1>1 DEF Descendant
      <4>3. QED
        BY <3>1, <4>1, <4>2
    <3>5. c \o y \in Seq(Nat)
      BY <2>4, <3>1
    <3>6. QED
      BY <3>3, <3>4, <3>5 DEF Within, x, y
  <2>5. CASE Aside(r) /\ Within(d, p)
    <3>1. Spot(r, p) = b \o Suffix(p, d) /\ Spot(r, k) = b \o Suffix(k, d)
      BY <2>2, <2>5 DEF Spot
    <3>2. QED
      BY <2>1, <2>2, <2>4, <2>5, <3>1
  <2>6. CASE ~ (Aside(r) /\ Within(d, p)) /\ MovedOver(r) /\ Within(s, p)
    <3>1. ~ Within(d, k)
      BY <1>1, <2>1, <2>2, <2>3, <2>6 DEF MovedOver
    <3>2. Spot(r, p) = d \o Suffix(p, s) /\ Spot(r, k) = d \o Suffix(k, s)
      BY <2>2, <2>6, <3>1 DEF Spot
    <3>3. QED
      BY <2>1, <2>2, <2>4, <2>6, <3>2
  <2>7. CASE ~ (Aside(r) /\ Within(d, p)) /\ ~ (MovedOver(r) /\ Within(s, p))
    <3>1. ~ (Aside(r) /\ Within(d, k))
      BY <1>1, <2>1, <2>2, <2>7 DEF Concerns
    <3>2. ~ (MovedOver(r) /\ Within(s, k))
      BY <1>1, <2>1, <2>2, <2>3, <2>7 DEF Concerns, MovedOver
    <3>3. Spot(r, p) = p /\ Spot(r, k) = k
      BY <2>7, <3>1, <3>2 DEF Spot
    <3>4. QED
      BY <1>1, <3>3
  <2>8. QED
    BY <2>5, <2>6, <2>7
<1>3. CASE ~ (Past(r) /\ Op(r).kind # "PROPPATCH")
  <2>1. ~ Aside(r) /\ ~ MovedOver(r)
    BY <1>3 DEF Types, Sorted, Aside, MovedOver, Past
  <2>2. QED
    BY <1>1, <2>1 DEF Spot
<1>4. QED
  BY <1>2, <1>3

\* What has rows below it is listed as a collection.
LEMMA DirsAbove ==
    ASSUME IInv, Types, Safe, NEW p \in DOMAIN rows, NEW k \in DOMAIN rows, Descendant(p, k)
    PROVE  rows[p].data = Dir
<1>1. /\ p \in Plain /\ k \in Plain /\ p \in Seq(Nat) /\ k \in Seq(Nat) /\ IsTree(fs) /\ Backed
      /\ p # k
  BY PlainPaths DEF Types, Safe, Descendant
<1>2. CASE \E r \in Req : Working(r) /\ Concerns(r, p)
  <2>1. PICK r \in Req : Working(r) /\ Concerns(r, p)
    BY <1>2
  <2>2. Descendant(Spot(r, p), Spot(r, k)) /\ Spot(r, p) \in Seq(Nat)
    BY <1>1, <2>1, SpotBelow
  <2>3. Concerns(r, k)
    <3>1. Source(r) \in Seq(Nat) /\ Target(r) \in Seq(Nat)
      BY <2>1, OpPaths DEF IInv, Good, Typed, Working
    <3>2. QED
      BY <1>1, <2>1, <3>1, WithinOrder DEF Concerns, Within
  <2>4. At(Spot(r, p), rows[p].data) /\ At(Spot(r, k), rows[k].data)
    BY <1>1, <2>1, <2>3 DEF Backed
  <2>5. IsDir(fs, Spot(r, p))
    BY <1>1, <2>2, <2>4, AboveIsDir DEF At
  <2>6. QED
    BY <2>4, <2>5 DEF IsDir, At
<1>3. CASE \A r \in Req : ~ (Working(r) /\ Concerns(r, p))
  <2>1. At(p, rows[p].data)
    BY <1>1, <1>3 DEF Backed
  <2>2. IsDir(fs, p)
    <3>1. CASE \E r \in Req : Working(r) /\ Concerns(r, k)
      <4>1. PICK r \in Req : Working(r) /\ Concerns(r, k)
        BY <3>1
      <4>2. CASE Past(r) /\ Op(r).kind # "PROPPATCH"
        <5>1. /\ Source(r) \in Seq(Nat) /\ Target(r) \in Seq(Nat) /\ Source(r) # Root /\ Target(r) # Root
              /\ IsDir(fs, Parent(Source(r))) /\ IsDir(fs, Parent(Target(r)))
          BY <4>1, <4>2, PastOp DEF Safe, Fit, DiskFits
        <5>2. PICK z \in {Source(r), Target(r)} : Within(z, k)
          BY <4>1 DEF Concerns
        <5>3. /\ z \in Seq(Nat) /\ z # Root /\ IsDir(fs, Parent(z)) /\ ~ Within(z, p)
          BY <1>3, <4>1, <5>1, <5>2 DEF Concerns
        <5>4. Within(p, z) /\ p # z
          BY <1>1, <5>2, <5>3, WithinOrder DEF Within
        <5>5. Within(p, Parent(z)) /\ Parent(z) \in Seq(Nat)
          BY <1>1, <5>3, <5>4, WithinParent
        <5>6. QED
          BY <1>1, <5>3, <5>5, AboveIsDir DEF Within, IsDir
      <4>3. CASE ~ (Past(r) /\ Op(r).kind # "PROPPATCH")
        <5>1. ~ Aside(r) /\ ~ MovedOver(r)
          BY <4>1, <4>3 DEF Types, Sorted, Aside, MovedOver, Past
        <5>2. At(k, rows[k].data)
          BY <1>1, <4>1, <5>1 DEF Backed, Spot
        <5>3. QED
          BY <1>1, <5>2, AboveIsDir DEF At
      <4>4. QED
        BY <4>2, <4>3
    <3>2. CASE \A r \in Req : ~ (Working(r) /\ Concerns(r, k))
      <4>1. At(k, rows[k].data)
        BY <1>1, <3>2 DEF Backed
      <4>2. QED
        BY <1>1, <4>1, AboveIsDir DEF At
    <3>3. QED
      BY <3>1, <3>2
  <2>3. QED
    BY <2>1, <2>2 DEF IsDir, At
<1>4. QED
  BY <1>2, <1>3

\* Rows that have an ETag.
Versioned(R) == \A k \in DOMAIN R : {"data", "id", "ver"} \subseteq DOMAIN R[k] /\ R[k].ver \in Nat

\* y is the row x, or the same row after some changes below it.
Later(x, y) == y.id = x.id /\ y.data = x.data /\ y.ver \in Nat /\ y.ver >= x.ver

\* The rows of S are those of R, with new versions only above p.
Touched(R, S, p) ==
    /\ DOMAIN S = DOMAIN R
    /\ \A k \in DOMAIN R : /\ Later(R[k], S[k])
                           /\ ~ Descendant(k, p) => S[k] = R[k]
                           /\ Descendant(k, p) /\ R[k].data = Dir => S[k].ver > R[k].ver

\* Typed rows have versions.
LEMMA TypedVersioned ==
    ASSUME NEW R, RowsTyped(R)
    PROVE  Versioned(R)
BY DEF RowsTyped, IsRow, Versioned

\* Every collection above p has a new version, every other row is as it was.
LEMMA BumpedVersions ==
    ASSUME NEW R, Versioned(R), NEW p, NEW delta
    PROVE  Versioned(Bumped(R, p, delta)) /\ Touched(R, Bumped(R, p, delta), p)
<1> DEFINE S == Bumped(R, p, delta)
           up(k) == Descendant(k, p) /\ IsDirRow(R, k)
<1>1. /\ DOMAIN S = DOMAIN R
      /\ \A k \in DOMAIN R : S[k] = IF up(k) THEN [R[k] EXCEPT !.size = @ + delta, !.ver = @ + 1] ELSE R[k]
  BY DEF Bumped
<1> HIDE DEF S
<1>2. ASSUME NEW k \in DOMAIN R
      PROVE  /\ {"data", "id", "ver"} \subseteq DOMAIN S[k] /\ Later(R[k], S[k])
             /\ up(k) => S[k].ver > R[k].ver
             /\ ~ up(k) => S[k] = R[k]
  <2>1. {"data", "id", "ver"} \subseteq DOMAIN R[k] /\ R[k].ver \in Nat
    BY DEF Versioned
  <2>2. CASE up(k)
    <3>1. /\ DOMAIN S[k] = DOMAIN R[k]
          /\ S[k].id = R[k].id /\ S[k].data = R[k].data /\ S[k].ver = R[k].ver + 1
      BY <1>1, <2>1, <2>2
    <3>2. S[k].ver \in Nat /\ S[k].ver >= R[k].ver /\ S[k].ver > R[k].ver
      BY <2>1, <3>1
    <3>3. QED
      BY <2>1, <2>2, <3>1, <3>2 DEF Later
  <2>3. CASE ~ up(k)
    <3>1. S[k] = R[k]
      BY <1>1, <2>3
    <3>2. R[k].ver >= R[k].ver
      BY <2>1
    <3>3. QED
      BY <2>1, <2>3, <3>1, <3>2 DEF Later
  <2>4. QED
    BY <2>2, <2>3
<1>3. Versioned(S)
  BY <1>1, <1>2 DEF Versioned, Later
<1>4. Touched(R, S, p)
  BY <1>1, <1>2 DEF Touched, IsDirRow
<1>5. QED
  BY <1>3, <1>4 DEF S

\* One change after the other.
LEMMA LaterChain ==
    ASSUME NEW x, NEW y, NEW z, x.ver \in Nat, Later(x, y), Later(y, z)
    PROVE  Later(x, z) /\ (y.ver > x.ver \/ z.ver > y.ver => z.ver > x.ver)
BY DEF Later

\* k is a new row of the transaction under way.
Fresh(S, k) == S[k].id = <<serial + 1, k>>

\* What a transaction does to the rows above z: every collection there has a new version.
Raised(R, S, z) ==
    \A k \in Seq(Nat) : Descendant(k, z) =>
        /\ k \in DOMAIN R => /\ k \in DOMAIN S /\ Later(R[k], S[k])
                             /\ R[k].data = Dir => S[k].ver > R[k].ver
        /\ k \in DOMAIN S /\ k \notin DOMAIN R => Fresh(S, k)

\* The paths above which a transaction leaves new versions.
Zone(r) == IF Op(r).kind = "MOVE" THEN {Source(r), Target(r)} ELSE {Target(r)}

\* What a transaction leaves at and below its target: fresh rows, the row of the file it has
\* written anew with a higher version, or the rows it has moved there.
Leaves(r, S) ==
    LET s == Source(r)
        d == Target(r)
    IN /\ Op(r).kind = "PUT" =>
             /\ \A k \in DOMAIN S : Within(d, k) => k = d
             /\ d \notin DOMAIN rows => Fresh(S, d)
             /\ d \in DOMAIN rows => S[d].id = rows[d].id /\ S[d].ver > rows[d].ver
       /\ Op(r).kind = "MKCOL" => \A k \in DOMAIN rows : ~ Within(d, k)
       /\ Op(r).kind \in {"MKCOL", "DELETE", "COPY", "COPY0"} => \A k \in DOMAIN S : Within(d, k) => Fresh(S, k)
       /\ Op(r).kind = "DELETE" => \A k \in DOMAIN S : ~ Within(d, k)
       /\ Op(r).kind \in {"COPY", "COPY0"} =>
             \A k \in DOMAIN S : Within(d, k) => s \o Suffix(k, d) \in Taken(r)
       /\ Op(r).kind = "MOVE" => Taking(rows, s, S, d) /\ \A k \in DOMAIN S : ~ Within(s, k)

Changes(r, S) ==
    /\ SameApart(rows, S, Zone(r))
    /\ \A z \in Zone(r) : Raised(rows, S, z)
    /\ Leaves(r, S)

\* Rows that are all new.
FreshRows(N) ==
    \A k \in DOMAIN N : Fresh(N, k) /\ {"data", "id", "ver"} \subseteq DOMAIN N[k] /\ N[k].ver \in Nat

\* S is R with the rows N added and what is above p raised.
Adds(R, N, p, S) == \E delta : S = Bumped(Inserted(R, N), p, delta)

\* Adding rows, fresh ones, and then raising what is above p.
LEMMA RaisedAdded ==
    ASSUME NEW R, Versioned(R), NEW N, NEW p, FreshRows(N), NEW S, Adds(R, N, p, S)
    PROVE  /\ Versioned(S) /\ Raised(R, S, p) /\ DOMAIN S = DOMAIN R \cup DOMAIN N
           /\ \A k \in DOMAIN N : k \notin DOMAIN R => Fresh(S, k)
<1> DEFINE T == Inserted(R, N)
<1>1. DOMAIN T = DOMAIN R \cup DOMAIN N /\ \A k \in DOMAIN T : T[k] = IF k \in DOMAIN R THEN R[k] ELSE N[k]
  BY DEF Inserted
<1>0. PICK delta : S = Bumped(T, p, delta)
  BY DEF Adds
<1> HIDE DEF T
<1>2. Versioned(T)
  BY <1>1 DEF Versioned, FreshRows
<1>3. Versioned(S) /\ Touched(T, S, p)
  BY <1>0, <1>2, BumpedVersions
<1>4. DOMAIN S = DOMAIN R \cup DOMAIN N
  BY <1>1, <1>3 DEF Touched
<1>5. \A k \in DOMAIN N : k \notin DOMAIN R => Fresh(S, k)
  BY <1>1, <1>3 DEF Touched, Later, Fresh, FreshRows
<1>6. Raised(R, S, p)
  BY <1>1, <1>3, <1>4, <1>5 DEF Touched, Raised
<1>7. QED
  BY <1>3, <1>4, <1>5, <1>6

\* A row the transaction makes.
LEMMA NewRowFresh ==
    ASSUME NEW k, NEW x, NEW y
    PROVE  LET w == NewRow(k, x, y)
           IN /\ w.id = <<serial + 1, k>> /\ w.ver = 1 /\ w.data = x
              /\ {"data", "id", "ver"} \subseteq DOMAIN w
BY DEF NewRow

\* publishFile writes the row of its file anew, or makes it.
LEMMA PutChanged ==
    ASSUME IInv, Types, NEW r \in Req, Safe, Commit(r), Op(r).kind = "PUT"
    PROVE  Changes(r, rows')
<1> DEFINE p == Source(r)
           size == Size[Body(r)]
           delta == size - TreeSize(rows, p)
           S == PutRows(r)
<1>1. /\ RowsTyped(rows) /\ DOMAIN rows \subseteq Seq(Nat) /\ p = Target(r) /\ RowsFit(r) /\ p \in Seq(Nat)
      /\ req[r].pc = "committing" /\ Requested(r) /\ rows' = NewRows(r)
  BY CommitReady DEF Pairs, IInv, RowsTyped
<1>2. rows' = S
  BY <1>1 DEF NewRows
<1>3. SameApart(rows, S, {p})
  BY <1>1, PutEffect
<1>4. Versioned(rows) /\ ~ Descendant(p, p)
  BY <1>1, TypedVersioned DEF Descendant
<1>5. \A k \in DOMAIN rows : ~ Descendant(p, k)
  BY <1>1 DEF RowsFit
<1>6. /\ Raised(rows, S, p) /\ DOMAIN S = DOMAIN rows \cup {p}
      /\ p \notin DOMAIN rows => Fresh(S, p)
      /\ p \in DOMAIN rows => S[p].id = rows[p].id /\ S[p].ver > rows[p].ver
  <2>1. CASE p \in DOMAIN rows
    <3> DEFINE T == Rewritten(rows, p, Body(r), size)
    <3>1. S = Bumped(T, p, delta)
      BY <2>1 DEF PutRows
    <3>2. /\ DOMAIN T = DOMAIN rows /\ \A k \in DOMAIN rows \ {p} : T[k] = rows[k]
          /\ {"data", "id", "ver"} \subseteq DOMAIN T[p] /\ T[p].id = rows[p].id /\ T[p].ver = rows[p].ver + 1
      BY <1>4, <2>1 DEF Rewritten, Versioned
    <3> HIDE DEF T, p, delta, S
    <3>3. Versioned(T)
      BY <1>4, <2>1, <3>2 DEF Versioned
    <3>4. Touched(T, S, p)
      BY <3>1, <3>3, BumpedVersions
    <3>5. Raised(rows, S, p)
      BY <1>4, <3>2, <3>4 DEF Raised, Touched
    <3>6. S[p] = T[p]
      BY <1>4, <2>1, <3>2, <3>4 DEF Touched
    <3>7. rows[p].ver \in Nat
      BY <1>4, <2>1 DEF Versioned
    <3>8. S[p].id = rows[p].id /\ S[p].ver > rows[p].ver
      BY <3>2, <3>6, <3>7
    <3>9. QED
      BY <2>1, <3>2, <3>4, <3>5, <3>8 DEF Touched
  <2>2. CASE p \notin DOMAIN rows
    <3> DEFINE N == [q \in {p} |-> NewRow(q, Body(r), size)]
    <3>1. S = Bumped(Inserted(rows, N), p, delta)
      BY <2>2 DEF PutRows
    <3>2. DOMAIN N = {p} /\ \A k \in DOMAIN N : N[k] = NewRow(k, Body(r), size)
      OBVIOUS
    <3>3. FreshRows(N)
      BY <3>2, NewRowFresh DEF Fresh, FreshRows
    <3> HIDE DEF N, p, delta, S, size
    <3>4. Adds(rows, N, p, S)
      BY <3>1 DEF Adds
    <3>5. Raised(rows, S, p) /\ DOMAIN S = DOMAIN rows \cup DOMAIN N
      BY <1>4, <3>3, <3>4, RaisedAdded
    <3>6. \A k \in DOMAIN N : k \notin DOMAIN rows => Fresh(S, k)
      BY <1>4, <3>3, <3>4, RaisedAdded
    <3>7. QED
      BY <2>2, <3>2, <3>5, <3>6
  <2>3. QED
    BY <2>1, <2>2
<1> HIDE DEF p, S
<1>7. Zone(r) = {p}
  BY <1>1 DEF Zone
<1>8. \A k \in DOMAIN S : Within(p, k) => k = p
  BY <1>5, <1>6 DEF Within
<1>9. Leaves(r, S)
  BY <1>1, <1>6, <1>8 DEF Leaves
<1>10. QED
  BY <1>2, <1>3, <1>6, <1>7, <1>9 DEF Changes

\* MKCOL makes rows and changes no other.
LEMMA MkcolChanged ==
    ASSUME IInv, Types, NEW r \in Req, Safe, Commit(r), Op(r).kind = "MKCOL"
    PROVE  Changes(r, rows')
<1> DEFINE p == Source(r)
           X == ParentPaths(p) \cup {p}
           N == [q \in X |-> NewRow(q, Dir, 0)]
           S == MkcolRows(r)
<1>1. /\ RowsTyped(rows) /\ p = Target(r) /\ RowsFit(r) /\ p \in Seq(Nat)
      /\ req[r].pc = "committing" /\ Requested(r) /\ rows' = NewRows(r)
  BY CommitReady DEF Pairs
<1>2. rows' = S
  BY <1>1 DEF NewRows
<1>3. SameApart(rows, S, {p})
  BY <1>1, MkcolEffect
<1>4. Versioned(rows)
  BY <1>1, TypedVersioned
<1>5. \A k \in DOMAIN rows : ~ Within(p, k)
  BY <1>1 DEF RowsFit
<1>6. Adds(rows, N, p, S)
  BY DEF MkcolRows, Adds
<1>7. DOMAIN N = X /\ \A k \in DOMAIN N : N[k] = NewRow(k, Dir, 0)
  OBVIOUS
<1> HIDE DEF N, X, p, S
<1>8. FreshRows(N)
  BY <1>7, NewRowFresh DEF Fresh, FreshRows
<1>9. /\ Raised(rows, S, p) /\ DOMAIN S = DOMAIN rows \cup DOMAIN N
      /\ \A k \in DOMAIN N : k \notin DOMAIN rows => Fresh(S, k)
  BY <1>4, <1>6, <1>8, RaisedAdded
<1>10. \A k \in DOMAIN S : Within(p, k) => Fresh(S, k)
  BY <1>5, <1>9
<1>11. Zone(r) = {p}
  BY <1>1 DEF Zone
<1>12. Leaves(r, S)
  BY <1>1, <1>5, <1>10 DEF Leaves
<1>13. QED
  BY <1>2, <1>3, <1>9, <1>11, <1>12 DEF Changes

\* DELETE leaves no row at and below its path.
LEMMA DeleteChanged ==
    ASSUME IInv, Types, NEW r \in Req, Safe, Commit(r), Op(r).kind = "DELETE"
    PROVE  Changes(r, rows')
<1> DEFINE p == Source(r)
           X == IF req[r].isDir THEN Entries(rows, p) ELSE {p}
           T == [k \in DOMAIN rows \ X |-> rows[k]]
           delta == - rows[p].size
           S == DeleteRows(r)
<1>1. /\ RowsTyped(rows) /\ p = Target(r) /\ RowsFit(r) /\ p \in Seq(Nat) /\ DOMAIN rows \subseteq Seq(Nat)
      /\ req[r].pc = "committing" /\ Requested(r) /\ rows' = NewRows(r) /\ RowsThere(r)
  BY CommitReady DEF Pairs, RowsTyped
<1>2. rows' = S
  BY <1>1 DEF NewRows
<1>3. SameApart(rows, S, {p})
  BY <1>1, DeleteEffect
<1>4. Versioned(rows)
  BY <1>1, TypedVersioned
<1>5. \A k \in DOMAIN rows : k \in X <=> Within(p, k)
  BY <1>1, EntriesAt DEF RowsFit, Within
<1>6. S = Bumped(T, p, delta)
  BY DEF DeleteRows, Removed
<1>7. DOMAIN T = DOMAIN rows \ X /\ \A k \in DOMAIN T : T[k] = rows[k]
  OBVIOUS
<1> HIDE DEF T, X, p, S, delta
<1>8. Versioned(T)
  BY <1>4, <1>7 DEF Versioned
<1>9. Touched(T, S, p)
  BY <1>6, <1>8, BumpedVersions
<1>10. \A k \in DOMAIN S : ~ Within(p, k)
  BY <1>5, <1>7, <1>9 DEF Touched
<1>11. \A k \in Seq(Nat) : Descendant(k, p) => ~ Within(p, k)
  BY <1>1, WithinOrder DEF Within, Descendant
<1>12. Raised(rows, S, p)
  BY <1>5, <1>7, <1>9, <1>11 DEF Raised, Touched
<1>13. Zone(r) = {p}
  BY <1>1 DEF Zone
<1>14. Leaves(r, S)
  BY <1>1, <1>10 DEF Leaves
<1>15. QED
  BY <1>2, <1>3, <1>12, <1>13, <1>14 DEF Changes

\* f has nothing at and below d.
Bare(f, d) == \A k \in DOMAIN f : ~ Within(d, k)

\* T is what f has at and below s.
Branch(f, s, T) == \A k \in DOMAIN f : k \in T <=> Within(s, k)

\* No path is at or below both s and d.
Apart(s, d) == \A k \in Seq(Nat) : ~ (Within(s, k) /\ Within(d, k))

\* g is f with the branch at s carried to d, where f has nothing.
Renames(f, s, g, d) ==
    /\ \A k \in Seq(Nat) : ~ Within(d, k) =>
          /\ k \in DOMAIN g <=> k \in DOMAIN f /\ ~ Within(s, k)
          /\ k \in DOMAIN g => g[k] = f[k]
    /\ Taking(f, s, g, d) /\ DOMAIN g \subseteq Seq(Nat)

\* The branch at s is carried to d, the rest stays: as a rename does.
LEMMA CarriedBranch ==
    ASSUME NEW f, DOMAIN f \subseteq Seq(Nat), NEW s \in Seq(Nat), NEW d \in Seq(Nat),
           Apart(s, d), NEW T, Branch(f, s, T), Bare(f, d), NEW g, g = Carried(f, T, s, d)
    PROVE  Renames(f, s, g, d)
<1> DEFINE S == T \cap DOMAIN f
           new == {d \o Suffix(q, s) : q \in S}
<1>1. /\ DOMAIN g = (DOMAIN f \ T) \cup new
      /\ \A k \in DOMAIN g : g[k] = IF k \in new THEN f[s \o Suffix(k, d)] ELSE f[k]
  BY DEF Carried
<1>2. /\ \A q \in S : q \in DOMAIN f /\ q \in Seq(Nat) /\ Within(s, q)
      /\ \A k \in DOMAIN f : k \in S <=> Within(s, k)
      /\ \A k \in DOMAIN f : k \in T <=> Within(s, k)
  BY DEF Branch
<1> HIDE DEF S
<1>3. /\ \A k \in new : k \in Seq(Nat) /\ Within(d, k)
      /\ \A x \in Seq(Nat) : d \o x \in new <=> s \o x \in S
  <2>1. \A q \in S : q \in Seq(Nat) /\ Within(s, q)
    BY <1>2
  <2>2. \A k : k \in new <=> \E q \in S : k = d \o Suffix(q, s)
    OBVIOUS
  <2> HIDE DEF new
  <2>3. QED
    BY <2>1, <2>2, CarriedSet
<1> HIDE DEF new
<1>4. DOMAIN g \subseteq Seq(Nat)
  BY <1>1, <1>3
<1>5. \A k \in Seq(Nat) : ~ Within(d, k) =>
         /\ k \in DOMAIN g <=> k \in DOMAIN f /\ ~ Within(s, k)
         /\ k \in DOMAIN g => g[k] = f[k]
  BY <1>1, <1>2, <1>3
<1>6. ASSUME NEW x \in Seq(Nat)
      PROVE  /\ d \o x \in DOMAIN g <=> s \o x \in DOMAIN f
             /\ s \o x \in DOMAIN f => g[d \o x] = f[s \o x]
  <2> DEFINE a == s \o x
             b == d \o x
  <2>1. Within(s, a) /\ Within(d, b) /\ b \in Seq(Nat)
    BY OtherBranch DEF Apart
  <2>2. b \in new <=> a \in S
    BY <1>3
  <2>3. s \o Suffix(b, d) = a
    <3>1. Suffix(d \o x, d) = x
      BY Followed
    <3>2. QED
      BY <3>1
  <2> HIDE DEF a, b
  <2>4. a \in S <=> a \in DOMAIN f
    BY <1>2, <2>1
  <2>5. b \in DOMAIN g <=> b \in new
    BY <1>1, <2>1 DEF Bare
  <2>6. b \in new => g[b] = f[a]
    BY <1>1, <2>3, <2>5
  <2>7. QED
    BY <2>2, <2>4, <2>5, <2>6 DEF a, b
<1>7. QED
  BY <1>4, <1>5, <1>6 DEF Taking, Renames

\* The rows without those of what is replaced; above it there are new versions.
LEMMA ClearedVersions ==
    ASSUME IInv, Types, NEW r \in Req, Safe, Commit(r), Op(r).kind \in Pairs, NEW R, R = Cleared(r)
    PROVE  /\ Versioned(R) /\ RowsTyped(R) /\ Bare(R, Target(r))
           /\ \A k \in DOMAIN rows : k \in DOMAIN R <=> ~ Within(Target(r), k)
           /\ \A k \in DOMAIN R : /\ k \in DOMAIN rows /\ Later(rows[k], R[k])
                                  /\ ~ Descendant(k, Target(r)) => R[k] = rows[k]
<1> DEFINE d == Target(r)
           T == Removed(rows, d)
           delta == - TreeSize(rows, d)
<1>1. RowsTyped(rows) /\ RowsFit(r) /\ req[r].pc = "committing" /\ Requested(r) /\ d \in Seq(Nat)
  BY CommitReady DEF Pairs
<1>2. Versioned(rows)
  BY <1>1, TypedVersioned
<1>3. RowsTyped(R)
  BY <1>1, ClearedEffect
<1>4. CASE req[r].saved
  <2>1. R = Bumped(T, d, delta)
    BY <1>4 DEF Cleared
  <2>2. /\ \A k : k \in DOMAIN T <=> k \in DOMAIN rows /\ ~ Within(d, k)
        /\ \A k \in DOMAIN T : T[k] = rows[k]
    BY RemovedAt
  <2> HIDE DEF T, delta, d
  <2>3. Versioned(T)
    BY <1>2, <2>2 DEF Versioned
  <2>4. Versioned(R) /\ Touched(T, R, d)
    BY <2>1, <2>3, BumpedVersions
  <2>5. Bare(R, d)
    BY <2>2, <2>4 DEF Bare, Touched
  <2>6. \A k \in DOMAIN rows : k \in DOMAIN R <=> ~ Within(d, k)
    BY <2>2, <2>4 DEF Touched
  <2>7. \A k \in DOMAIN R : /\ k \in DOMAIN rows /\ Later(rows[k], R[k])
                            /\ ~ Descendant(k, d) => R[k] = rows[k]
    BY <2>2, <2>4 DEF Touched
  <2>8. QED
    BY <1>3, <2>4, <2>5, <2>6, <2>7 DEF d
<1>5. CASE ~ req[r].saved
  <2>1. R = rows
    BY <1>5 DEF Cleared
  <2>2. \A k \in DOMAIN rows : ~ Within(d, k)
    BY <1>1, <1>5 DEF RowsFit
  <2>3. \A k \in DOMAIN rows : Later(rows[k], rows[k])
    BY <1>2 DEF Later, Versioned
  <2>4. QED
    BY <1>2, <1>3, <2>1, <2>2, <2>3 DEF Bare
<1>6. QED
  BY <1>4, <1>5

\* The rows a request takes are those at and below its source, or the one at its source.
LEMMA TakenBranch ==
    ASSUME IInv, Types, NEW r \in Req, Safe, Commit(r), Op(r).kind \in {"MOVE", "COPY"}
    PROVE  Branch(rows, Source(r), Taken(r) \cap DOMAIN rows)
<1>1. RowsFit(r) /\ req[r].pc = "committing" /\ Source(r) \in Seq(Nat)
  BY CommitReady DEF Pairs
<1>2. CASE req[r].isDir
  BY <1>2, EntriesAt DEF Taken, Branch
<1>3. CASE ~ req[r].isDir
  BY <1>1, <1>3 DEF Taken, Within, RowsFit, Branch
<1>4. QED
  BY <1>2, <1>3

\* New versions above s and above d.
LEMMA TouchedTwice ==
    ASSUME NEW C, Versioned(C), NEW Q, NEW S, NEW s, NEW d, Touched(C, Q, s), Touched(Q, S, d)
    PROVE  /\ DOMAIN S = DOMAIN C
           /\ \A k \in DOMAIN C :
                 /\ Later(C[k], S[k])
                 /\ ~ Descendant(k, s) /\ ~ Descendant(k, d) => S[k] = C[k]
                 /\ (Descendant(k, s) \/ Descendant(k, d)) /\ C[k].data = Dir => S[k].ver > C[k].ver
<1>1. DOMAIN S = DOMAIN C /\ DOMAIN Q = DOMAIN C
  BY DEF Touched
<1>2. ASSUME NEW k \in DOMAIN C
      PROVE  /\ Later(C[k], S[k])
             /\ ~ Descendant(k, s) /\ ~ Descendant(k, d) => S[k] = C[k]
             /\ (Descendant(k, s) \/ Descendant(k, d)) /\ C[k].data = Dir => S[k].ver > C[k].ver
  <2>1. Later(C[k], Q[k]) /\ Later(Q[k], S[k]) /\ C[k].ver \in Nat
    BY <1>1 DEF Touched, Versioned
  <2>2. Later(C[k], S[k]) /\ (Q[k].ver > C[k].ver \/ S[k].ver > Q[k].ver => S[k].ver > C[k].ver)
    BY <2>1, LaterChain
  <2>3. Q[k].data = C[k].data
    BY <2>1 DEF Later
  <2>4. ~ Descendant(k, s) /\ ~ Descendant(k, d) => S[k] = C[k]
    BY <1>1 DEF Touched
  <2>5. (Descendant(k, s) \/ Descendant(k, d)) /\ C[k].data = Dir => Q[k].ver > C[k].ver \/ S[k].ver > Q[k].ver
    BY <1>1, <2>3 DEF Touched
  <2>6. QED
    BY <2>2, <2>4, <2>5
<1>3. QED
  BY <1>1, <1>2

\* MOVE carries the rows at and below its source to its target as they are.
LEMMA MoveChanged ==
    ASSUME IInv, Types, NEW r \in Req, Safe, Commit(r), Op(r).kind = "MOVE"
    PROVE  Changes(r, rows')
<1> DEFINE s == Source(r)
           d == Target(r)
           R == Cleared(r)
           E == Taken(r)
           C == Carried(R, E, s, d)
           S == MoveRows(r)
           bytes == IF req[r].isDir THEN FileBytes(rows, s) ELSE rows[s].size
           minus == - bytes
<1>1. /\ RowsTyped(rows) /\ DOMAIN rows \subseteq Seq(Nat) /\ RowsThere(r)
      /\ s \in Seq(Nat) /\ d \in Seq(Nat) /\ req[r].pc = "committing" /\ Requested(r) /\ rows' = NewRows(r)
      /\ \A k \in Seq(Nat) : ~ (Within(s, k) /\ Within(d, k))
  BY CommitReady DEF Pairs, RowsTyped
<1>2. rows' = S /\ s # Root /\ d # Root
  BY <1>1, OpPaths DEF NewRows
<1>3. SameApart(rows, S, {s, d})
  BY <1>1, MoveEffect
<1>4. Versioned(rows)
  BY <1>1, TypedVersioned
<1>5. /\ Versioned(R) /\ RowsTyped(R) /\ Bare(R, d)
      /\ \A k \in DOMAIN rows : k \in DOMAIN R <=> ~ Within(d, k)
      /\ \A k \in DOMAIN R : /\ k \in DOMAIN rows /\ Later(rows[k], R[k])
                             /\ ~ Descendant(k, d) => R[k] = rows[k]
  BY ClearedVersions DEF Pairs
<1>6. Branch(R, s, E)
  <2>1. Branch(rows, s, E \cap DOMAIN rows)
    BY TakenBranch
  <2> HIDE DEF R, E, s
  <2>2. QED
    BY <1>5, <2>1 DEF Branch
<1>7. S = IF Parent(s) # Parent(d) THEN Bumped(Bumped(C, s, minus), d, bytes) ELSE Bumped(C, s, 0)
  BY DEF MoveRows
<1>8. C = Carried(R, E, s, d)
  OBVIOUS
<1> HIDE DEF C, E, R, S, bytes, minus, s, d
<1>9. /\ \A k \in Seq(Nat) : ~ Within(d, k) =>
            /\ k \in DOMAIN C <=> k \in DOMAIN R /\ ~ Within(s, k)
            /\ k \in DOMAIN C => C[k] = R[k]
      /\ Taking(R, s, C, d) /\ DOMAIN C \subseteq Seq(Nat)
  <2>1. DOMAIN R \subseteq Seq(Nat)
    BY <1>5 DEF RowsTyped
  <2>2. Apart(s, d)
    BY <1>1 DEF Apart
  <2>3. Renames(R, s, C, d)
    BY <1>1, <1>5, <1>6, <1>8, <2>1, <2>2, CarriedBranch
  <2>4. QED
    BY <2>3 DEF Renames
<1>10. Versioned(C)
  <2>1. ASSUME NEW k \in DOMAIN C PROVE \E q \in DOMAIN R : C[k] = R[q]
    <3>1. CASE Within(d, k)
      <4>1. PICK x \in Seq(Nat) : k = d \o x
        BY <1>1, <1>9, <3>1, WhatIsLeft
      <4>2. s \o x \in DOMAIN R /\ C[k] = R[s \o x]
        BY <1>9, <4>1 DEF Taking
      <4>3. QED
        BY <4>2
    <3>2. CASE ~ Within(d, k)
      BY <1>9, <3>2
    <3>3. QED
      BY <3>1, <3>2
  <2>2. QED
    BY <1>5, <2>1 DEF Versioned
<1>11. /\ DOMAIN S = DOMAIN C
       /\ \A k \in DOMAIN C :
             /\ Later(C[k], S[k])
             /\ ~ Descendant(k, s) /\ ~ Descendant(k, d) => S[k] = C[k]
             /\ (Descendant(k, s) \/ Descendant(k, d)) /\ C[k].data = Dir => S[k].ver > C[k].ver
  <2>1. CASE Parent(s) # Parent(d)
    <3> DEFINE Q == Bumped(C, s, minus)
    <3>1. S = Bumped(Q, d, bytes)
      BY <1>7, <2>1
    <3>2. Versioned(Q) /\ Touched(C, Q, s)
      BY <1>10, BumpedVersions
    <3> HIDE DEF Q
    <3>3. Touched(Q, S, d)
      BY <3>1, <3>2, BumpedVersions
    <3>4. QED
      BY <1>10, <3>2, <3>3, TouchedTwice
  <2>2. CASE Parent(s) = Parent(d)
    <3>1. S = Bumped(C, s, 0)
      BY <1>7, <2>2
    <3>2. Touched(C, S, s)
      BY <1>10, <3>1, BumpedVersions
    <3>3. \A k \in Seq(Nat) : Descendant(k, s) <=> Descendant(k, d)
      BY <1>1, <1>2, <2>2, WithinParent
    <3>4. QED
      BY <1>9, <3>2, <3>3 DEF Touched
  <2>3. QED
    BY <2>1, <2>2
<1>12. \A k \in Seq(Nat) : Descendant(k, s) \/ Descendant(k, d) => ~ Within(d, k) /\ ~ Within(s, k)
  <2>1. ASSUME NEW k \in Seq(Nat), NEW z \in {s, d}, Descendant(k, z), NEW y \in {s, d}, Within(y, k) PROVE FALSE
    <3>0. z \in Seq(Nat) /\ y \in Seq(Nat)
      BY <1>1
    <3>9. Within(k, z) /\ k # z
      BY <2>1 DEF Within, Descendant
    <3>1. z \in Seq(Nat) /\ y \in Seq(Nat) /\ Within(k, z) /\ k # z /\ Within(z, z) /\ Within(y, z)
      BY <2>1, <3>0, <3>9, WithinOrder
    <3>2. y = z
      BY <1>1, <3>1
    <3>3. QED
      BY <2>1, <3>1, <3>2, WithinOrder
  <2>2. QED
    BY <2>1
<1>13. ASSUME NEW z \in {s, d} PROVE Raised(rows, S, z)
  <2>1. ASSUME NEW k \in Seq(Nat), Descendant(k, z)
        PROVE  /\ k \in DOMAIN S <=> k \in DOMAIN rows
               /\ k \in DOMAIN rows => Later(rows[k], S[k])
               /\ k \in DOMAIN rows => (rows[k].data = Dir => S[k].ver > rows[k].ver)
    <3>1. ~ Within(d, k) /\ ~ Within(s, k)
      BY <1>12, <1>13, <2>1
    <3>2. k \in DOMAIN S <=> k \in DOMAIN rows
      BY <1>5, <1>9, <1>11, <3>1
    <3>3. ASSUME k \in DOMAIN rows
          PROVE  Later(rows[k], S[k]) /\ (rows[k].data = Dir => S[k].ver > rows[k].ver)
      <4>1. /\ Later(rows[k], R[k]) /\ Later(R[k], S[k]) /\ C[k] = R[k]
            /\ R[k].data = Dir => S[k].ver > R[k].ver
        BY <1>5, <1>9, <1>11, <1>13, <2>1, <3>1, <3>2, <3>3
      <4>2. rows[k].ver \in Nat /\ R[k].data = rows[k].data
        BY <1>4, <3>3, <4>1 DEF Versioned, Later
      <4>3. QED
        BY <4>1, <4>2, LaterChain
    <3>4. QED
      BY <3>2, <3>3
  <2>2. QED
    BY <2>1 DEF Raised
<1>14. Taking(rows, s, S, d)
  <2>1. ASSUME NEW x \in Seq(Nat)
        PROVE  /\ d \o x \in DOMAIN S <=> s \o x \in DOMAIN rows
               /\ s \o x \in DOMAIN rows => S[d \o x] = rows[s \o x]
    <3> DEFINE a == s \o x
               b == d \o x
    <3>1. /\ a \in Seq(Nat) /\ b \in Seq(Nat) /\ Within(s, a) /\ Within(d, b) /\ ~ Within(d, a)
          /\ b \in DOMAIN C <=> a \in DOMAIN R
          /\ a \in DOMAIN R => C[b] = R[a]
      BY <1>1, <1>9, OtherBranch DEF Taking
    <3> HIDE DEF a, b
    <3>2. /\ ~ Descendant(a, d) /\ ~ Descendant(b, s) /\ ~ Descendant(b, d)
      BY <1>12, <3>1
    <3>3. a \in DOMAIN R <=> a \in DOMAIN rows
      BY <1>5, <3>1
    <3>4. (b \in DOMAIN S <=> a \in DOMAIN rows) /\ (a \in DOMAIN rows => S[b] = rows[a])
      BY <1>5, <1>11, <3>1, <3>2, <3>3
    <3>5. QED
      BY <3>4 DEF a, b
  <2>2. QED
    BY <2>1 DEF Taking
<1>15. \A k \in DOMAIN S : ~ Within(s, k)
  BY <1>1, <1>9, <1>11
<1>16. Leaves(r, S)
  BY <1>14, <1>15 DEF Leaves, s, d
<1>17. Zone(r) = {s, d}
  BY DEF Zone, s, d
<1>18. QED
  BY <1>2, <1>3, <1>13, <1>16, <1>17 DEF Changes

\* COPY makes new rows at and below its target.
LEMMA CopyChanged ==
    ASSUME IInv, Types, NEW r \in Req, Safe, Commit(r), Op(r).kind \in {"COPY", "COPY0"}
    PROVE  Changes(r, rows')
<1> DEFINE s == Source(r)
           d == Target(r)
           R == Cleared(r)
           E == Taken(r)
           S == CopyRows(r)
           copy(k) == LET row == rows[s \o Suffix(k, d)] IN NewRow(k, row.data, row.size)
           X == {d \o Suffix(q, s) : q \in E}
<1>1. /\ RowsTyped(rows) /\ DOMAIN rows \subseteq Seq(Nat) /\ RowsThere(r)
      /\ s \in Seq(Nat) /\ d \in Seq(Nat) /\ req[r].pc = "committing" /\ Requested(r) /\ rows' = NewRows(r)
  BY CommitReady DEF Pairs, RowsTyped
<1>2. rows' = S
  BY <1>1 DEF NewRows
<1>3. SameApart(rows, S, {d})
  BY <1>1, CopyEffect
<1>4. Versioned(rows)
  BY <1>1, TypedVersioned
<1>5. /\ Versioned(R) /\ RowsTyped(R) /\ Bare(R, d)
      /\ \A k \in DOMAIN rows : k \in DOMAIN R <=> ~ Within(d, k)
      /\ \A k \in DOMAIN R : /\ k \in DOMAIN rows /\ Later(rows[k], R[k])
                             /\ ~ Descendant(k, d) => R[k] = rows[k]
  BY ClearedVersions DEF Pairs
<1>6. d \o Suffix(s, s) = d /\ Within(d, d)
  BY <1>1, EmptySuffix DEF Within
<1>7. \E N : Adds(R, N, d, S) /\ FreshRows(N) /\ DOMAIN N = X
  <2>1. ASSUME NEW N, \A k \in DOMAIN N : \E x, y : N[k] = NewRow(k, x, y)
        PROVE  FreshRows(N)
    <3>1. ASSUME NEW k \in DOMAIN N
          PROVE  N[k].id = <<serial + 1, k>> /\ {"data", "id", "ver"} \subseteq DOMAIN N[k] /\ N[k].ver = 1
      <4>1. PICK x, y : N[k] = NewRow(k, x, y)
        BY <2>1
      <4>2. QED
        BY <4>1, NewRowFresh
    <3>2. QED
      BY <3>1 DEF FreshRows, Fresh
  <2>2. CASE ~ req[r].isDir
    <3> DEFINE N == [k \in {d} |-> copy(k)]
               delta == rows[s].size
    <3>1. d \notin DOMAIN R
      BY <1>5, <1>6 DEF Bare
    <3>2. Adds(R, N, d, S)
      BY <2>2, <3>1 DEF CopyRows, Adds
    <3>3. DOMAIN N = X
      BY <1>6, <2>2 DEF Taken
    <3>4. \A k \in DOMAIN N : \E x, y : N[k] = NewRow(k, x, y)
      OBVIOUS
    <3> HIDE DEF N
    <3>5. QED
      BY <2>1, <3>2, <3>3, <3>4
  <2>3. CASE req[r].isDir /\ Op(r).kind = "COPY0"
    <3> DEFINE N == [k \in {d} |-> NewRow(k, Dir, 0)]
    <3>2. Adds(R, N, d, S)
      BY <2>3 DEF CopyRows, Adds
    <3>3. DOMAIN N = X
      BY <1>6, <2>3 DEF Taken
    <3>4. \A k \in DOMAIN N : \E x, y : N[k] = NewRow(k, x, y)
      OBVIOUS
    <3> HIDE DEF N
    <3>5. QED
      BY <2>1, <3>2, <3>3, <3>4
  <2>4. CASE req[r].isDir /\ Op(r).kind # "COPY0"
    <3> DEFINE N == [k \in {d \o Suffix(q, s) : q \in Entries(rows, s)} |-> copy(k)]
               delta == TreeSize(rows, s)
    <3>2. Adds(R, N, d, S)
      BY <2>4 DEF CopyRows, Adds
    <3>3. DOMAIN N = X
      BY <2>4 DEF Taken
    <3>4. \A k \in DOMAIN N : \E x, y : N[k] = NewRow(k, x, y)
      OBVIOUS
    <3> HIDE DEF N
    <3>5. QED
      BY <2>1, <3>2, <3>3, <3>4
  <2>5. QED
    BY <2>2, <2>3, <2>4
<1>8. \A k \in X : s \o Suffix(k, d) \in E
  BY <1>1, TakenRows
<1>9. PICK N : Adds(R, N, d, S) /\ FreshRows(N) /\ DOMAIN N = X
  BY <1>7
<1> HIDE DEF R, S, E, X
<1>10. /\ Raised(R, S, d)
       /\ \A k \in DOMAIN N : k \notin DOMAIN R => Fresh(S, k)
  <2>1. Raised(R, S, d)
    BY <1>5, <1>9, RaisedAdded
  <2>2. \A k \in DOMAIN N : k \notin DOMAIN R => Fresh(S, k)
    BY <1>5, <1>9, RaisedAdded
  <2>3. QED
    BY <2>1, <2>2
<1>11. DOMAIN S = DOMAIN R \cup X
  BY <1>9 DEF Adds, Bumped, Inserted
<1>12. \A k \in DOMAIN S : Within(d, k) => Fresh(S, k) /\ s \o Suffix(k, d) \in E
  BY <1>5, <1>8, <1>9, <1>10, <1>11 DEF Bare
<1> HIDE DEF s, d
<1>13. Raised(rows, S, d)
  <2>1. ASSUME NEW k \in Seq(Nat), Descendant(k, d)
        PROVE  /\ k \in DOMAIN rows => k \in DOMAIN S /\ Later(rows[k], S[k])
               /\ k \in DOMAIN rows => (rows[k].data = Dir => S[k].ver > rows[k].ver)
               /\ k \in DOMAIN S /\ k \notin DOMAIN rows => Fresh(S, k)
    <3>1. ~ Within(d, k)
      BY <1>1, <2>1, WithinOrder DEF Within, Descendant
    <3>2. k \in DOMAIN R <=> k \in DOMAIN rows
      BY <1>5, <3>1
    <3>3. ASSUME k \in DOMAIN rows
          PROVE  /\ k \in DOMAIN S /\ Later(rows[k], S[k])
                 /\ rows[k].data = Dir => S[k].ver > rows[k].ver
      <4>1. /\ k \in DOMAIN S /\ Later(rows[k], R[k]) /\ Later(R[k], S[k])
            /\ R[k].data = Dir => S[k].ver > R[k].ver
        BY <1>5, <1>10, <2>1, <3>2, <3>3 DEF Raised
      <4>2. rows[k].ver \in Nat /\ R[k].data = rows[k].data
        BY <1>4, <3>3, <4>1 DEF Versioned, Later
      <4>3. QED
        BY <4>1, <4>2, LaterChain
    <3>4. k \in DOMAIN S /\ k \notin DOMAIN rows => Fresh(S, k)
      BY <1>10, <2>1, <3>2 DEF Raised
    <3>5. QED
      BY <3>3, <3>4
  <2>2. QED
    BY <2>1 DEF Raised
<1>14. Leaves(r, S)
  BY <1>12 DEF Leaves, s, d, E
<1>15. Zone(r) = {d}
  BY DEF Zone, d
<1>16. QED
  BY <1>2, <1>3, <1>13, <1>14, <1>15 DEF Changes

\* What has rows below it is listed as a collection: DirsAbove as a state formula.
DirsHold == \A p, k \in DOMAIN rows : Descendant(p, k) => rows[p].data = Dir

\* No two rows have the same id, and no row has one of a transaction to come.
Identified ==
    /\ \A p \in DOMAIN rows : rows[p].id[1] \in 0..serial
    /\ \A p, q \in DOMAIN rows : rows[p].id = rows[q].id => p = q

\* Where the row at q was before r's transaction.
Old(r, q) ==
    IF Op(r).kind = "MOVE" /\ Within(Target(r), q) THEN Source(r) \o Suffix(q, Target(r)) ELSE q

\* Every transaction but that of a PROPPATCH.
LEMMA CommitChanges ==
    ASSUME IInv, Types, NEW r \in Req, Safe, Commit(r), Op(r).kind # "PROPPATCH"
    PROVE  /\ Changes(r, rows') /\ Op(r).kind \in Kinds \ {"PROPPATCH"}
           /\ Source(r) \in Seq(Nat) /\ Target(r) \in Seq(Nat) /\ DOMAIN rows \subseteq Seq(Nat)
           /\ Op(r).kind = "MOVE" => Apart(Source(r), Target(r))
           /\ Op(r).kind \notin Pairs => Source(r) = Target(r)
<1>1. /\ Op(r).kind \in Kinds \ {"PROPPATCH"}
      /\ Source(r) \in Seq(Nat) /\ Target(r) \in Seq(Nat) /\ DOMAIN rows \subseteq Seq(Nat)
      /\ Op(r).kind = "MOVE" => Apart(Source(r), Target(r))
      /\ Op(r).kind \notin Pairs => Source(r) = Target(r)
  BY CommitReady DEF RowsTyped, Apart, Pairs
<1>2. Changes(r, rows')
  BY <1>1, PutChanged, MkcolChanged, DeleteChanged, MoveChanged, CopyChanged DEF Kinds
<1>3. QED
  BY <1>1, <1>2

\* Where a path lies: apart from what r changes, above it, at or below its target, or
\* at or below what it moves.
LEMMA Whereabouts ==
    ASSUME NEW r, Source(r) \in Seq(Nat), Target(r) \in Seq(Nat), NEW q \in Seq(Nat)
    PROVE  \/ \A z \in Zone(r) : ~ Overlap(q, z)
           \/ ~ Within(Target(r), q) /\ \E z \in Zone(r) : Descendant(q, z)
           \/ Within(Target(r), q)
           \/ Op(r).kind = "MOVE" /\ Within(Source(r), q)
BY DEF Zone, Overlap, Within

\* Every row after a transaction is fresh or was there before, at no higher version; with the
\* same version it has the same content, and no collection with it was above what has changed.
LEMMA Origin ==
    ASSUME IInv, IInv', Types, NEW r \in Req, Safe, Commit(r), Op(r).kind # "PROPPATCH", NEW q \in DOMAIN rows'
    PROVE  \/ Fresh(rows', q)
           \/ LET p == Old(r, q)
              IN /\ p \in DOMAIN rows /\ rows'[q].id = rows[p].id /\ rows'[q].ver >= rows[p].ver
                 /\ rows'[q].ver = rows[p].ver =>
                       /\ rows'[q].data = rows[p].data
                       /\ \/ \A z \in Zone(r) : ~ Overlap(q, z)
                          \/ rows[p].data # Dir
                          \/ Op(r).kind = "MOVE" /\ Within(Target(r), q)
<1> DEFINE s == Source(r)
           d == Target(r)
           p == Old(r, q)
<1> SUFFICES ASSUME ~ Fresh(rows', q)
             PROVE  /\ p \in DOMAIN rows /\ rows'[q].id = rows[p].id /\ rows'[q].ver >= rows[p].ver
                    /\ rows'[q].ver = rows[p].ver =>
                          /\ rows'[q].data = rows[p].data
                          /\ \/ \A z \in Zone(r) : ~ Overlap(q, z)
                             \/ rows[p].data # Dir
                             \/ Op(r).kind = "MOVE" /\ Within(d, q)
  OBVIOUS
<1>1. /\ Changes(r, rows') /\ Op(r).kind \in Kinds \ {"PROPPATCH"}
      /\ s \in Seq(Nat) /\ d \in Seq(Nat) /\ DOMAIN rows \subseteq Seq(Nat)
      /\ q \in Seq(Nat)
  BY CommitChanges DEF IInv, RowsTyped
<1>2. Op(r).kind = "MOVE" => ~ Within(s, q)
  BY <1>1 DEF Changes, Leaves
<1>7. ASSUME NEW k \in DOMAIN rows PROVE rows[k].ver \in Nat /\ rows[k].ver >= rows[k].ver
  BY DEF IInv, RowsTyped, IsRow
<1>3. CASE \A z \in Zone(r) : ~ Overlap(q, z)
  <2>1. q \in DOMAIN rows /\ rows'[q] = rows[q]
    BY <1>1, <1>3 DEF Changes, SameApart
  <2>2. d \in Zone(r)
    BY DEF Zone
  <2>3. ~ Within(d, q)
    BY <1>3, <2>2 DEF Within, Overlap
  <2>4. p = q
    BY <2>3 DEF Old
  <2>5. QED
    BY <1>3, <1>7, <2>1, <2>4
<1>4. CASE ~ Within(d, q) /\ \E z \in Zone(r) : Descendant(q, z)
  <2>1. PICK z \in Zone(r) : Descendant(q, z)
    BY <1>4
  <2>2. Raised(rows, rows', z)
    BY <1>1 DEF Changes
  <2>3. /\ q \in DOMAIN rows /\ Later(rows[q], rows'[q])
        /\ rows[q].data = Dir => rows'[q].ver > rows[q].ver
    BY <1>1, <2>1, <2>2 DEF Raised
  <2>4. p = q
    BY <1>4 DEF Old
  <2>5. rows[q].ver \in Nat
    BY <1>7, <2>3
  <2>6. rows'[q].ver = rows[q].ver => rows[q].data # Dir
    BY <2>3, <2>5
  <2>7. rows'[q].id = rows[q].id /\ rows'[q].data = rows[q].data /\ rows'[q].ver >= rows[q].ver
    BY <2>3 DEF Later
  <2>8. QED
    BY <2>3, <2>4, <2>6, <2>7
<1>5. CASE Within(d, q)
  <2>1. CASE Op(r).kind = "MOVE"
    <3>1. PICK x \in Seq(Nat) : q = d \o x
      BY <1>1, <1>5, WhatIsLeft
    <3>2. Suffix(q, d) = x
      BY <1>1, <3>1, Followed
    <3>3. p = s \o x
      BY <1>5, <2>1, <3>2 DEF Old
    <3>4. Taking(rows, s, rows', d)
      BY <1>1, <2>1 DEF Changes, Leaves
    <3>5. s \o x \in DOMAIN rows /\ rows'[q] = rows[s \o x]
      BY <3>1, <3>4 DEF Taking
    <3>6. QED
      BY <1>5, <1>7, <2>1, <3>3, <3>5
  <2>2. CASE Op(r).kind = "PUT"
    <3>1. /\ q = d /\ d \in DOMAIN rows /\ rows'[d].id = rows[d].id /\ rows'[d].ver > rows[d].ver
          /\ rows'[d].ver \in Nat
      BY <1>1, <1>5, <2>2 DEF Changes, Leaves, IInv, RowsTyped, IsRow
    <3>2. p = q
      BY <2>2 DEF Old
    <3>3. rows'[d].ver >= rows[d].ver /\ rows'[d].ver # rows[d].ver
      BY <1>7, <3>1
    <3>4. QED
      BY <3>1, <3>2, <3>3
  <2>3. CASE Op(r).kind \in {"MKCOL", "DELETE", "COPY", "COPY0"}
    BY <1>1, <1>5, <2>3 DEF Changes, Leaves
  <2>4. QED
    BY <1>1, <2>1, <2>2, <2>3 DEF Kinds
<1>6. QED
  BY <1>1, <1>2, <1>3, <1>4, <1>5, Whereabouts

\* No two rows come from the same row.
LEMMA OldInjective ==
    ASSUME IInv, IInv', Types, NEW r \in Req, Safe, Commit(r), Op(r).kind # "PROPPATCH",
           NEW q1 \in DOMAIN rows', NEW q2 \in DOMAIN rows', Old(r, q1) = Old(r, q2)
    PROVE  q1 = q2
<1> DEFINE s == Source(r)
           d == Target(r)
<1>1. /\ s \in Seq(Nat) /\ d \in Seq(Nat) /\ q1 \in Seq(Nat) /\ q2 \in Seq(Nat)
      /\ Op(r).kind = "MOVE" => ~ Within(s, q1) /\ ~ Within(s, q2)
  BY CommitChanges DEF IInv, RowsTyped, Changes, Leaves
<1>2. ASSUME NEW q \in Seq(Nat), Within(d, q)
      PROVE  Within(s, s \o Suffix(q, d)) /\ d \o Suffix(s \o Suffix(q, d), s) = q
  <2> DEFINE x == Suffix(q, d)
  <2>1. x \in Seq(Nat) /\ d \o x = q
    BY <1>1, <1>2, WhatIsLeft
  <2> HIDE DEF x, s, d
  <2>2. Within(s, s \o x) /\ Suffix(s \o x, s) = x
    BY <1>1, <2>1, Followed
  <2>3. Within(s, s \o x) /\ d \o Suffix(s \o x, s) = q
    BY <2>1, <2>2
  <2>4. QED
    BY <2>3 DEF x
<1> HIDE DEF s, d
<1>3. CASE Op(r).kind = "MOVE"
  <2>1. CASE Within(d, q1) /\ Within(d, q2)
    <3>1. s \o Suffix(q1, d) = s \o Suffix(q2, d)
      BY <1>3, <2>1 DEF Old, s, d
    <3>2. QED
      BY <1>1, <1>2, <2>1, <3>1
  <2>2. CASE Within(d, q1) /\ ~ Within(d, q2)
    <3>1. s \o Suffix(q1, d) = q2
      BY <1>3, <2>2 DEF Old, s, d
    <3>2. QED
      BY <1>1, <1>2, <1>3, <2>2, <3>1
  <2>3. CASE ~ Within(d, q1) /\ Within(d, q2)
    <3>1. s \o Suffix(q2, d) = q1
      BY <1>3, <2>3 DEF Old, s, d
    <3>2. QED
      BY <1>1, <1>2, <1>3, <2>3, <3>1
  <2>4. CASE ~ Within(d, q1) /\ ~ Within(d, q2)
    BY <2>4 DEF Old, d
  <2>5. QED
    BY <2>1, <2>2, <2>3, <2>4
<1>4. CASE Op(r).kind # "MOVE"
  BY <1>4 DEF Old
<1>5. QED
  BY <1>3, <1>4

\* The ids stay different.
LEMMA StaysIdentified ==
    ASSUME IInv, IInv', Types, NEW r \in Req, Safe, Commit(r), Identified
    PROVE  Identified'
<1>1. serial' = serial + 1 /\ serial \in Nat /\ serial + 1 \in Nat
  BY DEF Commit, Apply, Types
<1>2. CASE Op(r).kind = "PROPPATCH"
  <2>1. rows' = rows
    BY <1>2 DEF Commit, Apply, NewRows
  <2>2. \A n \in 0..serial : n \in 0..serial'
    BY <1>1
  <2>3. QED
    BY <2>1, <2>2 DEF Identified
<1>3. CASE Op(r).kind # "PROPPATCH"
  <2>1. ASSUME NEW q \in DOMAIN rows'
        PROVE  \/ rows'[q].id = <<serial + 1, q>>
               \/ Old(r, q) \in DOMAIN rows /\ rows'[q].id = rows[Old(r, q)].id
    BY <1>3, Origin DEF Fresh
  <2>2. ASSUME NEW q \in DOMAIN rows' PROVE rows'[q].id[1] \in 0..serial'
    <3>1. CASE rows'[q].id = <<serial + 1, q>>
      BY <1>1, <3>1
    <3>2. CASE Old(r, q) \in DOMAIN rows /\ rows'[q].id = rows[Old(r, q)].id
      BY <1>1, <3>2 DEF Identified
    <3>3. QED
      BY <2>1, <3>1, <3>2
  <2>3. \A q \in DOMAIN rows : rows[q].id[1] # serial + 1
    BY <1>1 DEF Identified
  <2>4. ASSUME NEW q1 \in DOMAIN rows', NEW q2 \in DOMAIN rows', rows'[q1].id = rows'[q2].id
        PROVE  q1 = q2
    <3>1. CASE rows'[q1].id = <<serial + 1, q1>>
      <4>1. rows'[q2].id[1] = serial + 1
        BY <2>4, <3>1
      <4>2. rows'[q2].id = <<serial + 1, q2>>
        BY <2>1, <2>3, <4>1
      <4>3. rows'[q1].id[2] = q1 /\ rows'[q2].id[2] = q2
        BY <3>1, <4>2
      <4>4. QED
        BY <2>4, <4>3
    <3>2. CASE Old(r, q1) \in DOMAIN rows /\ rows'[q1].id = rows[Old(r, q1)].id
      <4>1. rows'[q2].id # <<serial + 1, q2>>
        BY <2>3, <2>4, <3>2
      <4>2. Old(r, q2) \in DOMAIN rows /\ rows'[q2].id = rows[Old(r, q2)].id
        BY <2>1, <4>1
      <4>3. Old(r, q1) = Old(r, q2)
        BY <2>4, <3>2, <4>2 DEF Identified
      <4>4. QED
        BY <1>3, <4>3, OldInjective
    <3>3. QED
      BY <2>1, <3>1, <3>2
  <2>5. QED
    BY <2>2, <2>4 DEF Identified
<1>4. QED
  BY <1>2, <1>3

\* The rows of R below p are those of S below q.
SameBelow(R, p, S, q) ==
    \A x \in Seq(Nat) : x # Root =>
        /\ p \o x \in DOMAIN R <=> q \o x \in DOMAIN S
        /\ p \o x \in DOMAIN R => R[p \o x] = S[q \o x]

\* A function of paths.
Keyed(R) == DOMAIN R \subseteq Seq(Nat)

\* A path in three parts.
LEMMA ThreeParts ==
    ASSUME NEW a \in Seq(Nat), NEW b \in Seq(Nat), NEW c \in Seq(Nat)
    PROVE  b \o c \in Seq(Nat) /\ (a \o b) \o c = a \o (b \o c)
BY SMTT(40), ConcatAssociative

\* Then the two collections list the same.
LEMMA SameListing ==
    ASSUME NEW R, Keyed(R), NEW S, Keyed(S),
           NEW p \in Seq(Nat), NEW q \in Seq(Nat), SameBelow(R, p, S, q)
    PROVE  Listing(R, p) = Listing(S, q)
<1>1. ASSUME NEW A, Keyed(A), NEW a \in Seq(Nat), NEW v
      PROVE  v \in Listing(A, a) <=>
                \E x \in Seq(Nat) : x # Root /\ a \o x \in DOMAIN A /\ v = <<x, ETag(A[a \o x])>>
  <2>1. ASSUME NEW k \in Entries(A, a) \ {a}, v = <<Suffix(k, a), ETag(A[k])>>
        PROVE  \E x \in Seq(Nat) : x # Root /\ a \o x \in DOMAIN A /\ v = <<x, ETag(A[a \o x])>>
    <3>1. k \in DOMAIN A /\ Within(a, k) /\ k \in Seq(Nat)
      BY <1>1, <2>1, EntriesAt DEF Keyed
    <3> DEFINE x == Suffix(k, a)
    <3>2. x \in Seq(Nat) /\ a \o x = k
      BY <1>1, <3>1, WhatIsLeft
    <3> HIDE DEF x
    <3>3. x # Root
      <4>1. a \o x = a <=> x = Root
        BY <1>1, <3>2, Followed
      <4>2. k # a
        BY <2>1
      <4>3. QED
        BY <3>2, <4>1, <4>2
    <3>4. v = <<x, ETag(A[a \o x])>>
      BY <2>1, <3>2 DEF x
    <3>5. QED
      BY <3>1, <3>2, <3>3, <3>4
  <2>2. ASSUME NEW x \in Seq(Nat), x # Root, a \o x \in DOMAIN A, v = <<x, ETag(A[a \o x])>>
        PROVE  \E k \in Entries(A, a) \ {a} : v = <<Suffix(k, a), ETag(A[k])>>
    <3>1. Within(a, a \o x) /\ Suffix(a \o x, a) = x /\ a \o x # a
      BY <1>1, <2>2, Followed
    <3> DEFINE k == a \o x
    <3>2. k \in Entries(A, a) \ {a} /\ v = <<Suffix(k, a), ETag(A[k])>>
      BY <2>2, <3>1, EntriesAt
    <3>3. QED
      BY <3>2
  <2>3. QED
    BY <2>1, <2>2 DEF Listing
<1>2. \A v : v \in Listing(R, p) <=>
         \E x \in Seq(Nat) : x # Root /\ p \o x \in DOMAIN R /\ v = <<x, ETag(R[p \o x])>>
  BY <1>1
<1>3. \A v : v \in Listing(S, q) <=>
         \E x \in Seq(Nat) : x # Root /\ q \o x \in DOMAIN S /\ v = <<x, ETag(S[q \o x])>>
  BY <1>1
<1>4. \A v : v \in Listing(R, p) <=> v \in Listing(S, q)
  BY <1>2, <1>3 DEF SameBelow
<1>5. QED
  BY <1>4

\* What has no rows below it lists nothing.
LEMMA FileBelow ==
    ASSUME DirsHold, DOMAIN rows \subseteq Seq(Nat), NEW p \in DOMAIN rows, rows[p].data # Dir,
           NEW x \in Seq(Nat), x # Root
    PROVE  p \o x \notin DOMAIN rows
<1>1. Descendant(p, p \o x)
  BY Followed DEF Within
<1>2. QED
  BY <1>1 DEF DirsHold

\* The ETag of a row that is still there names its content and its listing.
LEMMA CommitETag ==
    ASSUME IInv, IInv', Types, NEW r \in Req, Safe, Commit(r), Op(r).kind # "PROPPATCH",
           Identified, DirsHold, DirsHold',
           NEW p \in DOMAIN rows, NEW q \in DOMAIN rows', ETag(rows[p]) = ETag(rows'[q])
    PROVE  rows[p].data = rows'[q].data /\ Listing(rows, p) = Listing(rows', q)
<1> DEFINE s == Source(r)
           d == Target(r)
<1>1. /\ Changes(r, rows') /\ s \in Seq(Nat) /\ d \in Seq(Nat)
      /\ DOMAIN rows \subseteq Seq(Nat) /\ DOMAIN rows' \subseteq Seq(Nat)
      /\ p \in Seq(Nat) /\ q \in Seq(Nat)
  BY CommitChanges DEF IInv, RowsTyped
<1>2. rows'[q].id = rows[p].id /\ rows'[q].ver = rows[p].ver
  BY DEF ETag
<1>3. ~ Fresh(rows', q)
  <2>1. rows[p].id[1] # serial + 1
    BY DEF Identified, Types
  <2>2. QED
    BY <1>2, <2>1 DEF Fresh
<1>4. /\ Old(r, q) \in DOMAIN rows /\ rows'[q].id = rows[Old(r, q)].id
      /\ rows'[q].ver = rows[Old(r, q)].ver =>
            /\ rows'[q].data = rows[Old(r, q)].data
            /\ \/ \A z \in Zone(r) : ~ Overlap(q, z)
               \/ rows[Old(r, q)].data # Dir
               \/ Op(r).kind = "MOVE" /\ Within(d, q)
  BY <1>3, Origin
<1>5. Old(r, q) = p
  BY <1>2, <1>4 DEF Identified
<1>6. /\ rows'[q].data = rows[p].data
      /\ \/ \A z \in Zone(r) : ~ Overlap(q, z)
         \/ rows[p].data # Dir
         \/ Op(r).kind = "MOVE" /\ Within(d, q)
  BY <1>2, <1>4, <1>5
<1>7. SameBelow(rows, p, rows', q)
  <2>1. CASE rows[p].data # Dir
    <3>1. ASSUME NEW x \in Seq(Nat), x # Root PROVE p \o x \notin DOMAIN rows /\ q \o x \notin DOMAIN rows'
      <4>1. Descendant(p, p \o x) /\ Descendant(q, q \o x)
        BY <1>1, <3>1, Followed DEF Within
      <4>2. QED
        BY <1>6, <2>1, <4>1 DEF DirsHold
    <3>2. QED
      BY <3>1 DEF SameBelow
  <2>2. CASE \A z \in Zone(r) : ~ Overlap(q, z)
    <3>1. d \in Zone(r)
      BY DEF Zone
    <3>2. p = q
      BY <1>5, <2>2, <3>1 DEF Old, Within, Overlap
    <3>3. ASSUME NEW x \in Seq(Nat)
          PROVE  /\ q \o x \in DOMAIN rows <=> q \o x \in DOMAIN rows'
                 /\ q \o x \in DOMAIN rows => rows[q \o x] = rows'[q \o x]
      <4> DEFINE k == q \o x
      <4>1. k \in Seq(Nat) /\ Within(q, k)
        BY <1>1, Followed
      <4> HIDE DEF k
      <4>2. ASSUME NEW z \in Zone(r), Overlap(k, z) PROVE FALSE
        <5>1. z \in Seq(Nat)
          BY <1>1 DEF Zone
        <5>2. Within(k, z) \/ Within(z, k)
          BY <4>1, <4>2, <5>1, WithinOrder
        <5>3. Within(q, z) \/ Within(z, q)
          BY <1>1, <4>1, <5>1, <5>2, WithinOrder
        <5>4. QED
          BY <1>1, <2>2, <5>1, <5>3, WithinOrder
      <4>3. /\ k \in DOMAIN rows <=> k \in DOMAIN rows'
            /\ k \in DOMAIN rows => rows[k] = rows'[k]
        BY <1>1, <4>1, <4>2 DEF Changes, SameApart
      <4>4. QED
        BY <4>3 DEF k
    <3>4. QED
      BY <3>2, <3>3 DEF SameBelow
  <2>3. CASE Op(r).kind = "MOVE" /\ Within(d, q)
    <3>1. PICK y \in Seq(Nat) : q = d \o y
      BY <1>1, <2>3, WhatIsLeft
    <3>2. p = s \o y
      <4>1. Suffix(q, d) = y
        BY <1>1, <3>1, Followed
      <4>2. QED
        BY <1>5, <2>3, <4>1 DEF Old
    <3>3. Taking(rows, s, rows', d)
      BY <1>1, <2>3 DEF Changes, Leaves
    <3>4. ASSUME NEW x \in Seq(Nat)
          PROVE  /\ p \o x \in DOMAIN rows <=> q \o x \in DOMAIN rows'
                 /\ p \o x \in DOMAIN rows => rows[p \o x] = rows'[q \o x]
      <4> DEFINE z == y \o x
      <4>1. z \in Seq(Nat) /\ p \o x = s \o z /\ q \o x = d \o z
        <5>1. x \in Seq(Nat) /\ y \in Seq(Nat)
          BY <3>1, <3>4
        <5>2. z \in Seq(Nat)
          BY <5>1
        <5>3. ASSUME NEW a \in Seq(Nat) PROVE (a \o y) \o x = a \o z
          BY <5>1, <5>3, ThreeParts
        <5>4. (s \o y) \o x = s \o z /\ (d \o y) \o x = d \o z
          BY <1>1, <5>3
        <5>5. QED
          BY <3>1, <3>2, <5>2, <5>4
      <4> HIDE DEF z
      <4>2. /\ d \o z \in DOMAIN rows' <=> s \o z \in DOMAIN rows
            /\ s \o z \in DOMAIN rows => rows'[d \o z] = rows[s \o z]
        BY <3>3, <4>1 DEF Taking
      <4>3. QED
        BY <4>1, <4>2
    <3>5. QED
      BY <3>4 DEF SameBelow
  <2>4. QED
    BY <1>6, <2>1, <2>2, <2>3
<1>8. Listing(rows, p) = Listing(rows', q)
  <2>1. ASSUME NEW S, S = rows' PROVE Listing(rows, p) = Listing(S, q)
    <3>1. Keyed(rows) /\ Keyed(S)
      BY <1>1, <2>1 DEF Keyed
    <3>2. SameBelow(rows, p, S, q)
      BY <1>7, <2>1
    <3>3. p \in Seq(Nat) /\ q \in Seq(Nat)
      BY <1>1
    <3>4. QED
      BY <3>1, <3>2, <3>3, SameListing
  <2>2. QED
    BY <2>1
<1>9. QED
  BY <1>6, <1>8

IdInv == SessionsKept => Identified
DInv == SessionsKept /\ ~ crashed => DirsHold

\* The trees a run starts from have no two rows with the same id.
LEMMA InitIdentified == Init => IdInv
<1> SUFFICES ASSUME Init PROVE Identified
  BY DEF IdInv
<1>1. \A p \in DOMAIN rows : rows[p].id = <<0, p>>
  BY DEF Init
<1>2. serial = 0
  BY DEF Init
<1>3. ASSUME NEW p \in DOMAIN rows PROVE rows[p].id[1] = 0 /\ rows[p].id[2] = p
  BY <1>1, <1>3
<1>4. \A p, q \in DOMAIN rows : rows[p].id = rows[q].id => p = q
  BY <1>3
<1>5. \A p \in DOMAIN rows : rows[p].id[1] \in 0..serial
  BY <1>2, <1>3
<1>6. QED
  BY <1>4, <1>5 DEF Identified

\* While the server is up the rows above a row are those of collections.
LEMMA DirsHeld ==
    ASSUME IInv, Types, SInv
    PROVE  DInv
<1> SUFFICES ASSUME SessionsKept, ~ crashed PROVE DirsHold
  BY DEF DInv
<1>1. Safe
  BY DEF SInv
<1>2. QED
  BY <1>1, DirsAbove DEF DirsHold

\* What the database holds changes when a transaction commits, and only then.
LEMMA OneCommits ==
    ASSUME IInv, SInv, [Next]_vars, SessionsKept, rows' # rows \/ props' # props \/ serial' # serial
    PROVE  /\ \E r \in Req : Commit(r)
           /\ Safe /\ ~ crashed /\ ~ crashed' /\ faults' = faults
<1>1. PICK r \in Req : Apply(r) /\ (Commit(r) \/ LoseReply(r))
  BY RowsChange
<1>2. ~ LoseReply(r)
  BY DEF LoseReply, SessionsKept
<1>3. Commit(r)
  BY <1>1, <1>2
<1>4. ~ crashed
  <2>1. req[r].pc = "committing"
    BY <1>3 DEF Commit, Apply
  <2>2. QED
    BY <2>1 DEF SInv, Stopped
<1>5. Safe
  BY <1>4 DEF SInv
<1>6. crashed' = crashed
  BY <1>3 DEF Commit
<1>7. faults' = faults
  BY DEF Next, Done, vars
<1>8. QED
  BY <1>3, <1>4, <1>5, <1>6, <1>7

\* Every step keeps the ids different.
LEMMA NextKeepsIds ==
    ASSUME IInv, IInv', Types, SInv, IdInv, [Next]_vars
    PROVE  IdInv'
<1> SUFFICES ASSUME SessionsKept' PROVE Identified'
  BY DEF IdInv
<1>1. faults' = faults
  BY DEF Next, Done, vars
<1>2. SessionsKept /\ Identified
  BY <1>1 DEF SessionsKept, IdInv
<1>3. CASE rows' # rows \/ serial' # serial
  BY <1>2, <1>3, OneCommits, StaysIdentified
<1>4. CASE rows' = rows /\ serial' = serial
  BY <1>2, <1>4 DEF Identified
<1>5. QED
  BY <1>3, <1>4

\* A step after which the ETags that are still there name what they named before.
NamesKept ==
    \A p \in DOMAIN rows, q \in DOMAIN rows' :
       SessionsKept /\ ETag(rows[p]) = ETag(rows'[q])
           => rows[p].data = rows'[q].data /\ Listing(rows, p) = Listing(rows', q)

\* Every step is one.
LEMMA NextKeepsNames ==
    ASSUME IInv, IInv', Types, SInv, IdInv, DInv, DInv', [Next]_vars
    PROVE  [NamesKept]_rows
<1> SUFFICES ASSUME rows' # rows, SessionsKept, NEW p \in DOMAIN rows, NEW q \in DOMAIN rows',
                    ETag(rows[p]) = ETag(rows'[q])
             PROVE  rows[p].data = rows'[q].data /\ Listing(rows, p) = Listing(rows', q)
  BY DEF NamesKept
<1>1. /\ Safe /\ ~ crashed /\ ~ crashed' /\ faults' = faults
  BY OneCommits
<1>2. PICK r \in Req : Commit(r)
  BY OneCommits
<1>3. Op(r).kind # "PROPPATCH"
  BY <1>2 DEF Commit, Apply, NewRows
<1>4. Identified /\ DirsHold /\ DirsHold'
  BY <1>1 DEF IdInv, DInv, SessionsKept
<1>5. QED
  BY <1>1, <1>2, <1>3, <1>4, CommitETag
\* The ids of resources never meet: no two rows have the same one, and no row has one that a
\* transaction to come will give out, as long as sessions are kept.
THEOREM IdsStayApart == Spec => []IdInv
<1>1. IInv /\ IInv' /\ Types /\ SInv /\ IdInv /\ [Next]_vars => IdInv'
  BY NextKeepsIds
<1>2. Spec => []Types
  BY TypesHold
<1>3. QED
  BY Invariant, RowsStayBacked, InitIdentified, <1>1, <1>2, PTL DEF Spec

\* An ETag names one state: a resource that has the ETag another one had a step before has its
\* content, and a collection the same entries with the same ETags below it, whatever uploads,
\* deletes, copies and moves of it or of what is above it commit.
THEOREM ETagsHold == Spec => ETagsNameStates
<1>1. IInv /\ IInv' /\ Types /\ SInv /\ IdInv /\ DInv /\ DInv' /\ [Next]_vars => [NamesKept]_rows
  BY NextKeepsNames
<1>2. Spec => []Types
  BY TypesHold
<1>3. IInv /\ Types /\ SInv => DInv
  BY DirsHeld
<1>4. [][NamesKept]_rows <=> ETagsNameStates
  BY DEF NamesKept, ETagsNameStates
<1>5. QED
  BY Invariant, RowsStayBacked, IdsStayApart, <1>1, <1>2, <1>3, <1>4, PTL DEF Spec

-----------------------------------------------------------------------------
(* Where the properties go.                                                *)

\* What g has at l is what f has at k.
LEMMA SameValue ==
    ASSUME NEW f, NEW g, NEW k, NEW l, k \in DOMAIN f <=> l \in DOMAIN g, k \in DOMAIN f => f[k] = g[l]
    PROVE  Value(g, l) = Value(f, k)
<1>1. CASE k \in DOMAIN f
  <2>1. DOMAIN f \cap {k} = {k} /\ DOMAIN g \cap {l} = {l}
    BY <1>1
  <2>2. QED
    BY <1>1, <2>1 DEF Value
<1>2. CASE k \notin DOMAIN f
  <2>1. DOMAIN f \cap {k} = {} /\ DOMAIN g \cap {l} = {}
    BY <1>2
  <2>2. QED
    BY <2>1 DEF Value
<1>3. QED
  BY <1>1, <1>2

\* What is nowhere has no value.
LEMMA NoValue ==
    ASSUME NEW f, NEW k, k \notin DOMAIN f
    PROVE  Value(f, k) = {}
BY DEF Value

\* A row with a new id is at a path that had none, but where a copy has replaced something.
LEMMA FreshIsNew ==
    ASSUME IInv, IInv', Types, NEW r \in Req, Safe, Commit(r), Op(r).kind # "PROPPATCH", Identified,
           NEW q \in DOMAIN rows', Fresh(rows', q), q \in DOMAIN rows
    PROVE  Op(r).kind \in {"COPY", "COPY0"} /\ Within(Target(r), q)
<1> DEFINE s == Source(r)
           d == Target(r)
<1>1. /\ Changes(r, rows') /\ Op(r).kind \in Kinds \ {"PROPPATCH"}
      /\ s \in Seq(Nat) /\ d \in Seq(Nat) /\ DOMAIN rows \subseteq Seq(Nat)
      /\ q \in Seq(Nat)
  BY CommitChanges DEF IInv, RowsTyped
<1>2. \A k \in DOMAIN rows : rows'[q].id # rows[k].id
  <2>1. serial \in Nat
    BY DEF Types
  <2>2. rows'[q].id[1] = serial + 1
    BY DEF Fresh
  <2>3. ASSUME NEW k \in DOMAIN rows PROVE rows[k].id[1] # serial + 1
    BY <2>1 DEF Identified
  <2>4. QED
    BY <2>2, <2>3
<1>3. CASE \A z \in Zone(r) : ~ Overlap(q, z)
  <2>1. rows'[q] = rows[q]
    BY <1>1, <1>3 DEF Changes, SameApart
  <2>2. QED
    BY <1>2, <2>1
<1>4. CASE ~ Within(d, q) /\ \E z \in Zone(r) : Descendant(q, z)
  <2>1. PICK z \in Zone(r) : Descendant(q, z)
    BY <1>4
  <2>2. Raised(rows, rows', z)
    BY <1>1 DEF Changes
  <2>3. Later(rows[q], rows'[q])
    BY <1>1, <2>1, <2>2 DEF Raised
  <2>4. QED
    BY <1>2, <2>3 DEF Later
<1>5. CASE Within(d, q)
  <2>1. CASE Op(r).kind = "MOVE"
    <3>1. PICK x \in Seq(Nat) : q = d \o x
      BY <1>1, <1>5, WhatIsLeft
    <3>2. Taking(rows, s, rows', d)
      BY <1>1, <2>1 DEF Changes, Leaves
    <3>3. s \o x \in DOMAIN rows /\ rows'[q] = rows[s \o x]
      BY <3>1, <3>2 DEF Taking
    <3>4. QED
      BY <1>2, <3>3
  <2>2. CASE Op(r).kind = "PUT"
    <3>1. q = d
      BY <1>1, <1>5, <2>2 DEF Changes, Leaves
    <3>2. rows'[d].id = rows[d].id
      BY <1>1, <2>2, <3>1 DEF Changes, Leaves
    <3>3. QED
      BY <1>2, <3>1, <3>2
  <2>3. CASE Op(r).kind = "MKCOL"
    BY <1>1, <1>5, <2>3 DEF Changes, Leaves
  <2>4. CASE Op(r).kind = "DELETE"
    BY <1>1, <1>5, <2>4 DEF Changes, Leaves
  <2>5. CASE Op(r).kind \in {"COPY", "COPY0"}
    BY <1>5, <2>5
  <2>6. QED
    BY <1>1, <2>1, <2>2, <2>3, <2>4, <2>5 DEF Kinds
<1>6. CASE Op(r).kind = "MOVE" /\ Within(s, q)
  BY <1>1, <1>6 DEF Changes, Leaves
<1>7. QED
  BY <1>1, <1>3, <1>4, <1>5, <1>6, Whereabouts

\* What the properties are after r's transaction, by where the row was before: what a row that
\* was there before had, what the original of a copy has, and nothing otherwise.
Follows(r, q) ==
    /\ ~ Fresh(rows', q) => Value(props', q) = Value(props, Old(r, q))
    /\ Fresh(rows', q) => Value(props', q) =
          IF Op(r).kind \in {"COPY", "COPY0"} /\ Within(Target(r), q)
          THEN Value(props, Source(r) \o Suffix(q, Target(r))) ELSE {}

\* The foreign key: PUT, MKCOL and DELETE leave the properties to it.
LEMMA PlainFollows ==
    ASSUME IInv, IInv', Types, NEW r \in Req, Safe, Commit(r), Op(r).kind \in {"PUT", "MKCOL", "DELETE"},
           Identified, NEW q \in DOMAIN rows'
    PROVE  Follows(r, q)
<1>1. props' = Surviving(rows')
  BY DEF Commit, Apply, NewProps
<1>2. DOMAIN props \subseteq DOMAIN rows
  BY DEF Types
<1>3. Old(r, q) = q
  BY DEF Old
<1>4. /\ q \in DOMAIN props <=> q \in DOMAIN props'
      /\ q \in DOMAIN props => props[q] = props'[q]
  BY <1>1 DEF Surviving
<1>5. ASSUME ~ Fresh(rows', q) PROVE Value(props', q) = Value(props, q)
  BY <1>4, SameValue
<1>6. ASSUME Fresh(rows', q) PROVE Value(props', q) = {}
  <2>1. q \notin DOMAIN rows
    BY <1>6, FreshIsNew
  <2>2. q \notin DOMAIN props'
    BY <1>2, <1>4, <2>1
  <2>3. QED
    BY <2>2, NoValue
<1>7. QED
  BY <1>3, <1>5, <1>6 DEF Follows

\* What is left of the properties when MOVE and COPY have removed what they replace.
LEMMA ClearedProps ==
    ASSUME IInv, Types, NEW r \in Req, Safe, Commit(r), Op(r).kind \in Pairs,
           NEW P, P = Surviving(Cleared(r))
    PROVE  /\ DOMAIN P \subseteq DOMAIN props /\ DOMAIN P \subseteq DOMAIN rows /\ DOMAIN P \subseteq Seq(Nat)
           /\ Bare(P, Target(r))
           /\ \A k : k \in DOMAIN P <=> k \in DOMAIN props /\ ~ Within(Target(r), k)
           /\ \A k \in DOMAIN P : P[k] = props[k]
<1> DEFINE R == Cleared(r)
<1>1. /\ Bare(R, Target(r))
      /\ \A k \in DOMAIN rows : k \in DOMAIN R <=> ~ Within(Target(r), k)
  BY ClearedVersions
<1>2. DOMAIN props \subseteq DOMAIN rows /\ DOMAIN rows \subseteq Seq(Nat)
  BY DEF Types, IInv, RowsTyped
<1> HIDE DEF R
<1>3. P = [k \in DOMAIN props \cap DOMAIN R |-> props[k]]
  BY DEF Surviving, R
<1>4. QED
  BY <1>1, <1>2, <1>3 DEF Bare

\* MOVE renames the properties with the rows.
LEMMA MoveFollows ==
    ASSUME IInv, IInv', Types, NEW r \in Req, Safe, Commit(r), Op(r).kind = "MOVE",
           Identified, NEW q \in DOMAIN rows'
    PROVE  Follows(r, q)
<1> DEFINE s == Source(r)
           d == Target(r)
           P == Surviving(Cleared(r))
           E == Taken(r)
<1>1. /\ Changes(r, rows') /\ s \in Seq(Nat) /\ d \in Seq(Nat) /\ DOMAIN rows \subseteq Seq(Nat)
      /\ q \in Seq(Nat) /\ Apart(s, d)
  BY CommitChanges DEF IInv, RowsTyped
<1>2. /\ DOMAIN P \subseteq DOMAIN props /\ DOMAIN P \subseteq DOMAIN rows /\ DOMAIN P \subseteq Seq(Nat)
      /\ Bare(P, d)
      /\ \A k : k \in DOMAIN P <=> k \in DOMAIN props /\ ~ Within(d, k)
      /\ \A k \in DOMAIN P : P[k] = props[k]
  BY ClearedProps DEF Pairs
<1>3. Branch(P, s, E)
  <2>1. Branch(rows, s, E \cap DOMAIN rows)
    BY TakenBranch
  <2> HIDE DEF P, E, s
  <2>2. QED
    BY <1>2, <2>1 DEF Branch
<1>4. props' = Carried(P, E, s, d)
  BY DEF Commit, Apply, NewProps
<1> HIDE DEF P, E
<1>5. Renames(P, s, props', d)
  BY <1>1, <1>2, <1>3, <1>4, CarriedBranch
<1>6. ~ Within(s, q) /\ Taking(rows, s, rows', d)
  BY <1>1 DEF Changes, Leaves
<1>7. ASSUME Within(d, q) PROVE Value(props', q) = Value(props, Old(r, q)) /\ ~ Fresh(rows', q)
  <2>1. PICK x \in Seq(Nat) : q = d \o x
    BY <1>1, <1>7, WhatIsLeft
  <2>2. Old(r, q) = s \o x
    <3>1. Suffix(q, d) = x
      BY <1>1, <2>1, Followed
    <3>2. QED
      BY <1>7, <3>1 DEF Old
  <2> DEFINE k == s \o x
  <2>3. k \in Seq(Nat) /\ Within(s, k)
    BY <1>1, Followed
  <2>4. /\ q \in DOMAIN props' <=> k \in DOMAIN P
        /\ k \in DOMAIN P => props'[q] = P[k]
    BY <1>5, <2>1 DEF Renames, Taking
  <2>5. k \in DOMAIN rows /\ rows'[q] = rows[k]
    BY <1>6, <2>1 DEF Taking
  <2>6. Old(r, q) = k
    BY <2>2
  <2> HIDE DEF k
  <2>7. ~ Within(d, k)
    BY <1>1, <2>3 DEF Apart
  <2>8. /\ k \in DOMAIN props <=> q \in DOMAIN props'
        /\ k \in DOMAIN props => props[k] = props'[q]
    BY <1>2, <2>4, <2>7
  <2>9. ~ Fresh(rows', q)
    <3>1. rows[k].id[1] # serial + 1
      BY <2>5 DEF Identified, Types
    <3>2. QED
      BY <2>5, <3>1 DEF Fresh
  <2>10. QED
    BY <2>6, <2>8, <2>9, SameValue
<1>8. ASSUME ~ Within(d, q)
      PROVE  /\ Value(props', q) = Value(props, Old(r, q))
             /\ Fresh(rows', q) => Value(props', q) = {}
  <2>1. Old(r, q) = q
    BY <1>8 DEF Old
  <2>2. /\ q \in DOMAIN props' <=> q \in DOMAIN P
        /\ q \in DOMAIN P => props'[q] = P[q]
    BY <1>1, <1>5, <1>6, <1>8 DEF Renames
  <2>3. /\ q \in DOMAIN props <=> q \in DOMAIN props'
        /\ q \in DOMAIN props => props[q] = props'[q]
    BY <1>2, <1>8, <2>2
  <2>4. Value(props', q) = Value(props, q)
    BY <2>3, SameValue
  <2>5. ASSUME Fresh(rows', q) PROVE Value(props', q) = {}
    <3>1. q \notin DOMAIN rows
      BY <2>5, FreshIsNew
    <3>2. q \notin DOMAIN props'
      BY <1>2, <2>2, <3>1
    <3>3. QED
      BY <3>2, NoValue
  <2>6. QED
    BY <2>1, <2>4, <2>5
<1>9. QED
  BY <1>7, <1>8 DEF Follows

\* COPY gives the copies the properties of their originals.
LEMMA CopyFollows ==
    ASSUME IInv, IInv', Types, NEW r \in Req, Safe, Commit(r), Op(r).kind \in {"COPY", "COPY0"},
           Identified, NEW q \in DOMAIN rows'
    PROVE  Follows(r, q)
<1> DEFINE s == Source(r)
           d == Target(r)
           P == Surviving(Cleared(r))
           E == Taken(r)
           N == [k \in {d \o Suffix(p, s) : p \in E \cap DOMAIN props} |-> props[s \o Suffix(k, d)]]
<1>1. /\ Changes(r, rows') /\ s \in Seq(Nat) /\ d \in Seq(Nat) /\ DOMAIN rows \subseteq Seq(Nat)
      /\ q \in Seq(Nat)
  BY CommitChanges DEF IInv, RowsTyped
<1>2. /\ DOMAIN P \subseteq DOMAIN props /\ DOMAIN P \subseteq DOMAIN rows
      /\ \A k : k \in DOMAIN P <=> k \in DOMAIN props /\ ~ Within(d, k)
      /\ \A k \in DOMAIN P : P[k] = props[k]
  BY ClearedProps DEF Pairs
<1>3. props' = Inserted(P, N)
  BY DEF Commit, Apply, NewProps
<1>4. RowsTyped(rows) /\ Requested(r)
  BY CommitReady DEF Pairs
<1>5. \A p \in E : Within(d, d \o Suffix(p, s)) /\ s \o Suffix(d \o Suffix(p, s), d) = p
  BY <1>4, TakenRows
<1>6. \A k : k \in DOMAIN N <=> \E p \in E \cap DOMAIN props : k = d \o Suffix(p, s)
  OBVIOUS
<1>7. \A k \in DOMAIN N : N[k] = props[s \o Suffix(k, d)]
  OBVIOUS
<1>8. /\ \A k : k \in DOMAIN props' <=> k \in DOMAIN P \/ k \in DOMAIN N
      /\ \A k \in DOMAIN P : props'[k] = P[k]
      /\ \A k \in DOMAIN N : k \notin DOMAIN P => props'[k] = N[k]
  <2> HIDE DEF P, N
  <2>1. QED
    BY <1>3 DEF Inserted
<1> HIDE DEF P, N, E
<1>9. \A k \in DOMAIN N : Within(d, k)
  BY <1>5, <1>6
<1>10. Old(r, q) = q
  BY DEF Old
<1>11. ASSUME Within(d, q)
       PROVE  Fresh(rows', q) /\ Value(props', q) = Value(props, s \o Suffix(q, d))
  <2>1. Fresh(rows', q) /\ s \o Suffix(q, d) \in E
    BY <1>1, <1>11 DEF Changes, Leaves, E
  <2> DEFINE p == s \o Suffix(q, d)
  <2>2. q \notin DOMAIN P
    BY <1>2, <1>11
  <2>3. q = d \o Suffix(p, s)
    <3>1. Suffix(q, d) \in Seq(Nat) /\ d \o Suffix(q, d) = q
      BY <1>1, <1>11, WhatIsLeft
    <3>2. Suffix(p, s) = Suffix(q, d)
      BY <1>1, <3>1, Followed
    <3>3. QED
      BY <3>1, <3>2
  <2>4. p \in E
    BY <2>1
  <2>6. q \in DOMAIN N => N[q] = props[p]
    BY <1>7
  <2> HIDE DEF p
  <2>7. q \in DOMAIN N <=> p \in DOMAIN props
    <3>1. ASSUME q \in DOMAIN N PROVE p \in DOMAIN props
      <4>1. PICK z \in E \cap DOMAIN props : q = d \o Suffix(z, s)
        BY <1>6, <3>1
      <4>2. s \o Suffix(q, d) = z
        BY <1>5, <4>1
      <4>3. QED
        BY <4>1, <4>2 DEF p
    <3>2. ASSUME p \in DOMAIN props PROVE q \in DOMAIN N
      BY <1>6, <2>3, <2>4, <3>2
    <3>3. QED
      BY <3>1, <3>2
  <2>8. /\ p \in DOMAIN props <=> q \in DOMAIN props'
        /\ p \in DOMAIN props => props[p] = props'[q]
    BY <1>8, <2>2, <2>6, <2>7
  <2>9. Value(props', q) = Value(props, p)
    BY <2>8, SameValue
  <2>10. QED
    BY <2>1, <2>9 DEF p
<1>12. ASSUME ~ Within(d, q)
       PROVE  /\ Value(props', q) = Value(props, q)
              /\ Fresh(rows', q) => Value(props', q) = {}
  <2>1. q \notin DOMAIN N
    BY <1>9, <1>12
  <2>2. /\ q \in DOMAIN props <=> q \in DOMAIN props'
        /\ q \in DOMAIN props => props[q] = props'[q]
    BY <1>2, <1>8, <1>12, <2>1
  <2>3. Value(props', q) = Value(props, q)
    BY <2>2, SameValue
  <2>4. ASSUME Fresh(rows', q) PROVE Value(props', q) = {}
    <3>1. q \notin DOMAIN rows
      BY <1>12, <2>4, FreshIsNew
    <3>2. q \notin DOMAIN props'
      BY <1>2, <1>8, <2>1, <3>1
    <3>3. QED
      BY <3>2, NoValue
  <2>5. QED
    BY <2>3, <2>4
<1>13. QED
  BY <1>10, <1>11, <1>12 DEF Follows

\* PROPPATCH changes nothing but the property of its own resource.
LEMMA PatchFollows ==
    ASSUME NEW r \in Req, Commit(r), Op(r).kind = "PROPPATCH", NEW q, q # Source(r)
    PROVE  Value(props', q) = Value(props, q)
<1>1. props' \in Patched(r)
  BY DEF Commit, Apply, NewProps
<1>2. /\ q \in DOMAIN props <=> q \in DOMAIN props'
      /\ q \in DOMAIN props => props[q] = props'[q]
  BY <1>1 DEF Patched
<1>3. QED
  BY <1>2, SameValue

\* A commit, for the rows after it by the rows they come from.
LEMMA CommitFollows ==
    ASSUME IInv, IInv', Types, NEW r \in Req, Safe, Commit(r), Identified, NEW q \in DOMAIN rows',
           NEW olds, olds = {p \in DOMAIN rows : rows[p].id = rows'[q].id}
    PROVE  IF olds # {}
           THEN \/ \A p \in olds : Value(props', q) = Value(props, p)
                \/ Op(r).kind = "PROPPATCH" /\ q = Source(r)
           ELSE Value(props', q) =
                   IF Op(r).kind \in {"COPY", "COPY0"} /\ (q = Target(r) \/ Descendant(Target(r), q))
                   THEN Value(props, Source(r) \o Suffix(q, Target(r))) ELSE {}
<1>1. CASE Op(r).kind = "PROPPATCH"
  <2>1. rows' = rows
    BY <1>1 DEF Commit, Apply, NewRows
  <2>2. olds = {q}
    BY <2>1 DEF Identified
  <2>3. q # Source(r) => Value(props', q) = Value(props, q)
    BY <1>1, PatchFollows
  <2>4. QED
    BY <1>1, <2>2, <2>3
<1>2. CASE Op(r).kind # "PROPPATCH"
  <2>1. Op(r).kind \in Kinds \ {"PROPPATCH"}
    BY <1>2, CommitChanges
  <2>2. Follows(r, q)
    BY <2>1, PlainFollows, MoveFollows, CopyFollows DEF Kinds
  <2>3. CASE Fresh(rows', q)
    <3>1. rows'[q].id[1] = serial + 1
      BY <2>3 DEF Fresh
    <3>2. ASSUME NEW p \in DOMAIN rows PROVE rows[p].id[1] # serial + 1
      BY DEF Identified, Types
    <3>3. olds = {}
      BY <3>1, <3>2
    <3>4. QED
      BY <2>2, <2>3, <3>3 DEF Follows, Within
  <2>4. CASE ~ Fresh(rows', q)
    <3>1. Old(r, q) \in DOMAIN rows /\ rows'[q].id = rows[Old(r, q)].id
      BY <1>2, <2>4, Origin
    <3>2. olds = {Old(r, q)}
      BY <3>1 DEF Identified
    <3>3. Value(props', q) = Value(props, Old(r, q))
      BY <2>2, <2>4 DEF Follows
    <3>4. QED
      BY <3>2, <3>3
  <2>5. QED
    BY <2>3, <2>4
<1>3. QED
  BY <1>1, <1>2

\* A step after which the properties have followed the resources.
AllFollow ==
    \A q \in DOMAIN rows' :
       LET olds == {p \in DOMAIN rows : rows[p].id = rows'[q].id}
       IN \A r \in Req : SessionsKept /\ serial' # serial /\ req[r].pc = "committing" /\ req'[r].pc # "committing" =>
             IF olds # {}
             THEN \/ \A p \in olds : Value(props', q) = Value(props, p)
                  \/ Op(r).kind = "PROPPATCH" /\ q = Source(r)
             ELSE Value(props', q) =
                     IF Op(r).kind \in {"COPY", "COPY0"} /\ (q = Target(r) \/ Descendant(Target(r), q))
                     THEN Value(props, Source(r) \o Suffix(q, Target(r))) ELSE {}

\* Every step is one of those.
LEMMA NextFollows ==
    ASSUME IInv, IInv', Types, SInv, IdInv, [Next]_vars
    PROVE  AllFollow
<1> SUFFICES ASSUME NEW q \in DOMAIN rows', NEW r \in Req, SessionsKept, serial' # serial,
                    req[r].pc = "committing", req'[r].pc # "committing",
                    NEW olds, olds = {p \in DOMAIN rows : rows[p].id = rows'[q].id}
             PROVE  IF olds # {}
                    THEN \/ \A p \in olds : Value(props', q) = Value(props, p)
                         \/ Op(r).kind = "PROPPATCH" /\ q = Source(r)
                    ELSE Value(props', q) =
                            IF Op(r).kind \in {"COPY", "COPY0"} /\ (q = Target(r) \/ Descendant(Target(r), q))
                            THEN Value(props, Source(r) \o Suffix(q, Target(r))) ELSE {}
  BY DEF AllFollow
<1>1. Safe
  BY OneCommits
<1>2. PICK x \in Req : Commit(x)
  BY OneCommits
<1>3. x = r
  <2>1. req' = [req EXCEPT ![x].pc = "cleaning"]
    BY <1>2 DEF Commit, Goto
  <2>2. x # r => req'[r] = req[r]
    BY <2>1 DEF IInv
  <2>3. QED
    BY <2>2
<1>4. Identified
  BY DEF IdInv
<1>5. QED
  BY <1>1, <1>2, <1>3, <1>4, CommitFollows

\* Properties follow their resources: a row that stays, moved or not, keeps its property unless a
\* PROPPATCH of it commits, a copy has its original's, and whatever else is new has none,
\* although file_properties ties a property to nothing but a path.
THEOREM PropertiesStay == Spec => PropertiesFollow
<1>1. IInv /\ IInv' /\ Types /\ SInv /\ IdInv /\ [Next]_vars => [AllFollow]_vars
  BY NextFollows
<1>2. Spec => []Types
  BY TypesHold
<1>3. [][AllFollow]_vars <=> PropertiesFollow
  BY DEF AllFollow, PropertiesFollow
<1>4. QED
  BY Invariant, RowsStayBacked, IdsStayApart, <1>1, <1>2, <1>3, PTL DEF Spec

-----------------------------------------------------------------------------
(* Sums over finite sets of rows.                                          *)

\* A finite sum, one element after the other.
LEMMA SumPicked ==
    ASSUME NEW w, NEW S, IsFiniteSet(S)
    PROVE  /\ S = {} => SumOf(w, S) = 0
           /\ S # {} => SumOf(w, S) = w[Pick(S)] + SumOf(w, Rest(S))
<1> DEFINE g == TheSums(w, S)
<1>1. Sums(w, g, S)
  BY SumsExist DEF TheSums
<1>2. SumOf(w, S) = g[S]
  BY DEF SumOf
<1> HIDE DEF g
<1>3. g[S] = IF S = {} THEN 0 ELSE w[Pick(S)] + g[Rest(S)]
  BY <1>1 DEF Sums, Rest
<1>4. ASSUME S # {} PROVE g[Rest(S)] = SumOf(w, Rest(S))
  <2> DEFINE T == Rest(S)
             h == [s \in SUBSET T |-> g[s]]
  <2>1. IsFiniteSet(T) /\ T \in SUBSET S
    BY <1>4, RestSmaller
  <2> HIDE DEF T
  <2>2. Sums(w, h, T)
    BY <1>1, <2>1, SumsRestricted
  <2>3. Sums(w, TheSums(w, T), T)
    BY <2>1, SumsExist DEF TheSums
  <2>4. h[T] = g[T]
    OBVIOUS
  <2> HIDE DEF h
  <2>5. h = TheSums(w, T)
    BY <2>1, <2>2, <2>3, SumsUnique
  <2>6. QED
    BY <2>4, <2>5 DEF SumOf, T
<1>5. QED
  BY <1>2, <1>3, <1>4

\* Any element may be taken out first: a smallest set where that makes a difference has two
\* elements that can be taken out in either order.
LEMMA SumWithout ==
    ASSUME NEW w, NEW S, IsFiniteSet(S), \A x \in S : w[x] \in Int, NEW e \in S
    PROVE  SumOf(w, S) = w[e] + SumOf(w, S \ {e})
<1> DEFINE Bad(s, x) == x \in s /\ SumOf(w, s) # w[x] + SumOf(w, s \ {x})
           D == {s \in SUBSET S : \E x \in s : Bad(s, x)}
<1>1. ASSUME D # {} PROVE FALSE
  <2>1. PICK s \in D : \A t \in D : ~ (Cardinality(t) < Cardinality(s))
    BY <1>1, SmallestSet, FS_Subset
  <2>2. PICK x \in s : Bad(s, x)
    BY <2>1
  <2>3. IsFiniteSet(s) /\ s \subseteq S /\ s # {}
    BY <2>1, <2>2, FS_Subset
  <2> DEFINE p == Pick(s)
             b == s \ {p, x}
  <2>4. /\ p \in s /\ SumOf(w, s) = w[p] + SumOf(w, s \ {p})
    BY <2>3, SumPicked, RestSmaller DEF Rest
  <2>5. p # x
    BY <2>2, <2>4
  <2> HIDE DEF p
  <2>6. ASSUME NEW t \in SUBSET s, t # s, NEW y \in t PROVE SumOf(w, t) = w[y] + SumOf(w, t \ {y})
    <3>1. IsFiniteSet(t) /\ Cardinality(t) < Cardinality(s)
      <4>1. IsFiniteSet(t) /\ Cardinality(t) <= Cardinality(s) /\ Cardinality(t) # Cardinality(s)
        BY <2>3, <2>6, FS_Subset
      <4>2. QED
        BY <2>3, <4>1, FS_CardinalityType
    <3>2. t \notin D /\ t \in SUBSET S
      BY <2>1, <2>3, <3>1
    <3>3. QED
      BY <2>6, <3>2
  <2>7. SumOf(w, s \ {p}) = w[x] + SumOf(w, b)
    <3> DEFINE t == s \ {p}
    <3>1. t \in SUBSET s /\ t # s /\ x \in t /\ t \ {x} = b
      BY <2>4, <2>5
    <3> HIDE DEF t, b
    <3>2. SumOf(w, t) = w[x] + SumOf(w, t \ {x})
      BY <2>6, <3>1
    <3>3. QED
      BY <3>1, <3>2 DEF t
  <2>8. SumOf(w, s \ {x}) = w[p] + SumOf(w, b)
    <3> DEFINE t == s \ {x}
    <3>1. t \in SUBSET s /\ t # s /\ p \in t /\ t \ {p} = b
      BY <2>4, <2>5
    <3> HIDE DEF t, b
    <3>2. SumOf(w, t) = w[p] + SumOf(w, t \ {p})
      BY <2>6, <3>1
    <3>3. QED
      BY <3>1, <3>2 DEF t
  <2>9. SumOf(w, b) \in Int /\ w[x] \in Int /\ w[p] \in Int
    <3>1. IsFiniteSet(b) /\ b \subseteq S /\ x \in S /\ p \in S
      BY <2>3, <2>4, FS_Subset
    <3> HIDE DEF b
    <3>2. SumOf(w, b) \in Int
      BY <3>1, SumInt
    <3>3. QED
      BY <3>1, <3>2
  <2>10. SumOf(w, s) # w[x] + SumOf(w, s \ {x})
    BY <2>2
  <2> HIDE DEF b
  <2>11. QED
    BY <2>4, <2>7, <2>8, <2>9, <2>10
<1>2. S \notin D
  BY <1>1
<1>3. QED
  BY <1>2

\* The sum over two sets that have nothing in common.
LEMMA SumSplit ==
    ASSUME NEW w, NEW A, NEW B, IsFiniteSet(A), IsFiniteSet(B), A \cap B = {}, \A x \in A \cup B : w[x] \in Int
    PROVE  SumOf(w, A \cup B) = SumOf(w, A) + SumOf(w, B)
<1> DEFINE D == {s \in SUBSET A : SumOf(w, s \cup B) # SumOf(w, s) + SumOf(w, B)}
<1>1. ASSUME D # {} PROVE FALSE
  <2>1. PICK s \in D : \A t \in D : ~ (Cardinality(t) < Cardinality(s))
    BY <1>1, SmallestSet, FS_Subset
  <2>2. IsFiniteSet(s) /\ s \subseteq A
    BY <2>1, FS_Subset
  <2>3. SumOf(w, B) \in Int
    BY SumInt
  <2>4. CASE s = {}
    <3>1. SumOf(w, s) = 0 /\ s \cup B = B
      BY <2>2, <2>4, SumPicked
    <3>2. QED
      BY <2>1, <2>3, <3>1
  <2>5. CASE s # {}
    <3> DEFINE x == Pick(s)
               t == Rest(s)
               u == s \cup B
    <3>1. /\ x \in s /\ t \subseteq s /\ t = s \ {x} /\ IsFiniteSet(t) /\ Cardinality(t) < Cardinality(s)
          /\ SumOf(w, s) = w[x] + SumOf(w, t)
      BY <2>2, <2>5, SumPicked, RestSmaller DEF Rest
    <3> HIDE DEF x, t
    <3>2. SumOf(w, t \cup B) = SumOf(w, t) + SumOf(w, B)
      BY <2>1, <2>2, <3>1
    <3>3. IsFiniteSet(u) /\ x \in u /\ u \ {x} = t \cup B /\ \A y \in u : w[y] \in Int
      <4>1. IsFiniteSet(u)
        BY <2>2, FS_Union
      <4>2. QED
        BY <2>2, <3>1, <4>1
    <3> HIDE DEF u
    <3>4. SumOf(w, u) = w[x] + SumOf(w, t \cup B)
      BY <3>3, SumWithout
    <3>5. SumOf(w, t) \in Int /\ w[x] \in Int
      <4>1. \A y \in t : w[y] \in Int
        BY <2>2, <3>1
      <4>2. SumOf(w, t) \in Int
        BY <3>1, <4>1, SumInt
      <4>3. QED
        BY <2>2, <3>1, <4>2
    <3>6. SumOf(w, u) = SumOf(w, s) + SumOf(w, B)
      BY <2>3, <3>1, <3>2, <3>4, <3>5
    <3>7. QED
      BY <2>1, <3>6 DEF u
  <2>6. QED
    BY <2>4, <2>5
<1>2. A \notin D
  BY <1>1
<1>3. QED
  BY <1>2

\* The sum over the values of a function that are all different, and weigh what their arguments do.
LEMMA SumMapped ==
    ASSUME NEW w, NEW S, IsFiniteSet(S), NEW f, NEW v,
           \A x \in S : w[x] \in Int /\ v[f[x]] = w[x],
           \A x, y \in S : f[x] = f[y] => x = y
    PROVE  SumOf(v, {f[x] : x \in S}) = SumOf(w, S)
<1> DEFINE Im(s) == {f[x] : x \in s}
           D == {s \in SUBSET S : SumOf(v, Im(s)) # SumOf(w, s)}
<1>0. ASSUME NEW s \in SUBSET S PROVE IsFiniteSet(s) /\ IsFiniteSet(Im(s))
  <2>1. IsFiniteSet(s)
    BY FS_Subset
  <2>2. IsFiniteSet(Im(s))
    <3> DEFINE h == [x \in s |-> f[x]]
    <3>1. DOMAIN h = s /\ {h[x] : x \in s} = Im(s)
      OBVIOUS
    <3> HIDE DEF h
    <3>2. IsFiniteSet({h[x] : x \in s})
      BY <2>1, <3>1, FiniteImage
    <3>3. QED
      BY <3>1, <3>2
  <2>3. QED
    BY <2>1, <2>2
<1>1. ASSUME D # {} PROVE FALSE
  <2>1. PICK s \in D : \A t \in D : ~ (Cardinality(t) < Cardinality(s))
    BY <1>1, SmallestSet, FS_Subset
  <2>2. IsFiniteSet(s) /\ s \subseteq S /\ IsFiniteSet(Im(s))
    BY <1>0, <2>1
  <2>3. CASE s = {}
    <3>1. Im(s) = {}
      BY <2>3
    <3> HIDE DEF Im
    <3>2. SumOf(w, s) = 0 /\ SumOf(v, Im(s)) = 0
      BY <2>2, <2>3, <3>1, SumPicked
    <3>3. QED
      BY <2>1, <3>2
  <2>4. CASE s # {}
    <3> DEFINE x == Pick(s)
               t == Rest(s)
    <3>1. /\ x \in s /\ t \subseteq s /\ t = s \ {x} /\ IsFiniteSet(t) /\ Cardinality(t) < Cardinality(s)
          /\ SumOf(w, s) = w[x] + SumOf(w, t)
      BY <2>2, <2>4, SumPicked, RestSmaller DEF Rest
    <3> HIDE DEF x, t
    <3>2. SumOf(v, Im(t)) = SumOf(w, t)
      BY <2>1, <2>2, <3>1
    <3>3. f[x] \in Im(s) /\ Im(s) \ {f[x]} = Im(t) /\ \A y \in Im(s) : v[y] \in Int
      BY <2>2, <3>1
    <3> HIDE DEF Im
    <3>4. SumOf(v, Im(s)) = v[f[x]] + SumOf(v, Im(t))
      BY <2>2, <3>3, SumWithout
    <3>5. v[f[x]] = w[x]
      BY <2>2, <3>1
    <3>6. QED
      BY <2>1, <3>1, <3>2, <3>4, <3>5
  <2>5. QED
    BY <2>3, <2>4
<1>2. S \notin D
  BY <1>1
<1>3. QED
  BY <1>2

\* Two weights that are the same on S.
LEMMA SumSame ==
    ASSUME NEW w, NEW S, IsFiniteSet(S), NEW v, \A x \in S : w[x] \in Int /\ v[x] = w[x]
    PROVE  SumOf(v, S) = SumOf(w, S)
<1> DEFINE f == [x \in S |-> x]
<1>1. \A x \in S : f[x] = x
  OBVIOUS
<1>2. {f[x] : x \in S} = S
  BY <1>1
<1> HIDE DEF f
<1>3. SumOf(v, {f[x] : x \in S}) = SumOf(w, S)
  BY <1>1, SumMapped
<1>4. QED
  BY <1>2, <1>3

\* The bytes of the file at a path.
Weights(R) == [q \in DOMAIN R |-> IF R[q].data = Dir THEN 0 ELSE R[q].size]

\* What FileBytes adds up.
LEMMA BytesOfEntries ==
    ASSUME NEW R, RowsTyped(R), NEW p
    PROVE  /\ FileBytes(R, p) = SumOf(Weights(R), Entries(R, p)) /\ FileBytes(R, p) \in Int
           /\ IsFiniteSet(Entries(R, p)) /\ \A q \in DOMAIN R : Weights(R)[q] \in Int
<1> DEFINE S == Entries(R, p)
           w == [q \in S |-> IF R[q].data = Dir THEN 0 ELSE R[q].size]
<1>1. FileBytes(R, p) = SumOf(w, S)
  BY BytesAreSum DEF FileBytes
<1>2. IsFiniteSet(S) /\ S \subseteq DOMAIN R
  BY FS_Subset DEF RowsTyped, Entries
<1>3. \A q \in DOMAIN R : Weights(R)[q] \in Int
  BY DEF Weights, RowsTyped, IsRow
<1>4. \A q \in S : Weights(R)[q] \in Int /\ w[q] = Weights(R)[q]
  BY <1>2, <1>3 DEF Weights
<1> HIDE DEF S, w
<1>5. SumOf(w, S) = SumOf(Weights(R), S)
  BY <1>2, <1>4, SumSame
<1>6. SumOf(Weights(R), S) \in Int
  BY <1>2, <1>4, SumInt
<1>7. QED
  BY <1>1, <1>2, <1>3, <1>5, <1>6 DEF S

\* Outside d the rows of S weigh what those of R do.
WeighOutside(R, S, d) ==
    \A k \in Seq(Nat) : ~ Within(d, k) =>
        /\ k \in DOMAIN R <=> k \in DOMAIN S
        /\ k \in DOMAIN R => Weights(S)[k] = Weights(R)[k]

\* Changes at and below d change the sum at a path above by the same.
LEMMA BytesAbove ==
    ASSUME NEW R, RowsTyped(R), NEW S, RowsTyped(S), NEW d \in Seq(Nat), WeighOutside(R, S, d),
           NEW p \in Seq(Nat), ~ Within(d, p)
    PROVE  FileBytes(S, p) = FileBytes(R, p) + (IF Within(p, d) THEN FileBytes(S, d) - FileBytes(R, d) ELSE 0)
<1>1. DOMAIN R \subseteq Seq(Nat) /\ DOMAIN S \subseteq Seq(Nat)
  BY DEF RowsTyped
<1> DEFINE Rest1(X) == Entries(X, p) \ Entries(X, d)
           here == Rest1(R)
<1>2. \A k : k \in Rest1(R) <=> k \in DOMAIN R /\ Within(p, k) /\ ~ Within(d, k)
  BY EntriesAt
<1>3. \A k : k \in Rest1(S) <=> k \in DOMAIN S /\ Within(p, k) /\ ~ Within(d, k)
  BY EntriesAt
<1>4. Rest1(S) = here
  BY <1>1, <1>2, <1>3 DEF WeighOutside
<1>5. ASSUME NEW X, RowsTyped(X), DOMAIN X \subseteq Seq(Nat)
      PROVE  /\ FileBytes(X, p) = SumOf(Weights(X), Rest1(X)) + (IF Within(p, d) THEN FileBytes(X, d) ELSE 0)
             /\ IsFiniteSet(Rest1(X)) /\ SumOf(Weights(X), Rest1(X)) \in Int /\ \A q \in Rest1(X) : Weights(X)[q] \in Int
  <2> DEFINE A == Rest1(X)
             B == Entries(X, d)
             w == Weights(X)
  <2>1. /\ FileBytes(X, p) = SumOf(w, Entries(X, p)) /\ IsFiniteSet(Entries(X, p)) /\ \A q \in DOMAIN X : w[q] \in Int
    BY <1>5, BytesOfEntries
  <2>2. FileBytes(X, d) = SumOf(w, B) /\ IsFiniteSet(B) /\ FileBytes(X, d) \in Int
    BY <1>5, BytesOfEntries
  <2>3. A \subseteq DOMAIN X /\ B \subseteq DOMAIN X /\ A \cap B = {}
    BY DEF Entries
  <2>4. IsFiniteSet(A)
    BY <2>1, FS_Subset
  <2>5. \A q \in A \cup B : w[q] \in Int
    BY <2>1, <2>3
  <2>6. CASE Within(p, d)
    <3>1. \A k \in Seq(Nat) : Within(d, k) => Within(p, k)
      BY <2>6, WithinOrder
    <3>2. A \cup B = Entries(X, p)
      <4>1. \A k \in B : k \in Entries(X, p)
        BY <1>5, <3>1, EntriesAt
      <4>2. QED
        BY <4>1
    <3> HIDE DEF A, B, w
    <3>3. SumOf(w, A \cup B) = SumOf(w, A) + SumOf(w, B)
      BY <2>2, <2>3, <2>4, <2>5, SumSplit
    <3>4. SumOf(w, A) \in Int
      BY <2>4, <2>5, SumInt
    <3>5. QED
      BY <2>1, <2>2, <2>4, <2>5, <2>6, <3>2, <3>3, <3>4 DEF A, w
  <2>7. CASE ~ Within(p, d)
    <3>1. \A k \in Seq(Nat) : ~ (Within(d, k) /\ Within(p, k))
      BY <2>7, WithinOrder
    <3>2. A = Entries(X, p)
      <4>1. \A k \in Entries(X, p) : k \notin B
        BY <1>5, <3>1, EntriesAt
      <4>2. QED
        BY <4>1
    <3> HIDE DEF B, w
    <3>3. FileBytes(X, p) = SumOf(w, A)
      BY <2>1, <3>2
    <3> HIDE DEF A
    <3>4. SumOf(w, A) \in Int
      BY <2>4, <2>5, SumInt
    <3>5. QED
      BY <2>4, <2>5, <2>7, <3>3, <3>4 DEF A, w
  <2>8. QED
    BY <2>6, <2>7
<1>6. SumOf(Weights(S), here) = SumOf(Weights(R), here)
  <2>1. IsFiniteSet(here) /\ \A q \in here : Weights(R)[q] \in Int
    BY <1>1, <1>5
  <2>2. \A q \in here : Weights(S)[q] = Weights(R)[q]
    BY <1>1, <1>2 DEF WeighOutside
  <2> HIDE DEF here
  <2>3. QED
    BY <2>1, <2>2, SumSame
<1>7. /\ FileBytes(R, p) = SumOf(Weights(R), here) + (IF Within(p, d) THEN FileBytes(R, d) ELSE 0)
      /\ FileBytes(S, p) = SumOf(Weights(S), here) + (IF Within(p, d) THEN FileBytes(S, d) ELSE 0)
      /\ SumOf(Weights(R), here) \in Int /\ FileBytes(R, d) \in Int /\ FileBytes(S, d) \in Int
  <2>1. FileBytes(R, p) = SumOf(Weights(R), here) + (IF Within(p, d) THEN FileBytes(R, d) ELSE 0)
    BY <1>1, <1>5
  <2>2. FileBytes(S, p) = SumOf(Weights(S), Rest1(S)) + (IF Within(p, d) THEN FileBytes(S, d) ELSE 0)
    BY <1>1, <1>5
  <2>3. SumOf(Weights(R), here) \in Int
    BY <1>1, <1>5
  <2> HIDE DEF Rest1, here
  <2>4. QED
    BY <1>4, <2>1, <2>2, <2>3, BytesOfEntries
<1> HIDE DEF Rest1, here
<1>8. QED
  BY <1>6, <1>7

\* The rows of S at and below b weigh what those of R at and below a do, by relative path.
WeighAlike(R, a, S, b) ==
    \A x \in Seq(Nat) : /\ b \o x \in DOMAIN S <=> a \o x \in DOMAIN R
                        /\ a \o x \in DOMAIN R => Weights(S)[b \o x] = Weights(R)[a \o x]

\* Then their sums are the same.
LEMMA BytesAlike ==
    ASSUME NEW R, RowsTyped(R), NEW S, RowsTyped(S), NEW a \in Seq(Nat), NEW b \in Seq(Nat),
           WeighAlike(R, a, S, b)
    PROVE  FileBytes(S, b) = FileBytes(R, a)
<1> DEFINE A == Entries(R, a)
           f == [k \in A |-> b \o Suffix(k, a)]
           w == Weights(R)
           v == Weights(S)
<1>1. DOMAIN R \subseteq Seq(Nat) /\ DOMAIN S \subseteq Seq(Nat)
  BY DEF RowsTyped
<1>2. FileBytes(R, a) = SumOf(w, A) /\ IsFiniteSet(A) /\ \A q \in DOMAIN R : w[q] \in Int
  BY BytesOfEntries
<1>3. FileBytes(S, b) = SumOf(v, Entries(S, b))
  BY BytesOfEntries
<1>4. ASSUME NEW k \in A
      PROVE  k \in DOMAIN R /\ Suffix(k, a) \in Seq(Nat) /\ a \o Suffix(k, a) = k
  BY <1>1, EntriesAt, WhatIsLeft
<1>5. ASSUME NEW k \in A
      PROVE  /\ w[k] \in Int /\ f[k] \in Entries(S, b) /\ v[f[k]] = w[k] /\ Suffix(f[k], b) = Suffix(k, a)
  <2> DEFINE x == Suffix(k, a)
  <2>1. k \in DOMAIN R /\ x \in Seq(Nat) /\ a \o x = k
    BY <1>4
  <2>2. f[k] = b \o x
    OBVIOUS
  <2> HIDE DEF x, f
  <2>3. b \o x \in DOMAIN S /\ v[b \o x] = w[k]
    BY <2>1 DEF WeighAlike
  <2>4. Within(b, b \o x) /\ Suffix(b \o x, b) = x
    BY <2>1, Followed
  <2>5. b \o x \in Entries(S, b)
    BY <2>3, <2>4, EntriesAt
  <2>6. QED
    BY <1>2, <2>1, <2>2, <2>3, <2>4, <2>5 DEF x
<1>6. ASSUME NEW k \in A, NEW l \in A, f[k] = f[l] PROVE k = l
  <2>1. Suffix(k, a) = Suffix(l, a)
    <3> HIDE DEF f
    <3>1. QED
      BY <1>5, <1>6
  <2>2. QED
    BY <1>4, <2>1
<1>7. ASSUME NEW m \in Entries(S, b) PROVE \E k \in A : m = f[k]
  <2> DEFINE x == Suffix(m, b)
             k == a \o x
  <2>1. m \in DOMAIN S /\ x \in Seq(Nat) /\ b \o x = m
    BY <1>1, EntriesAt, WhatIsLeft
  <2> HIDE DEF x
  <2>2. k \in DOMAIN R /\ Within(a, k) /\ Suffix(k, a) = x
    BY <2>1, Followed DEF WeighAlike
  <2>3. k \in A
    BY <2>2, EntriesAt
  <2> HIDE DEF k
  <2>4. f[k] = b \o x
    BY <2>2, <2>3
  <2>5. QED
    BY <2>1, <2>3, <2>4
<1> HIDE DEF f, A
<1>8. {f[k] : k \in A} = Entries(S, b)
  BY <1>5, <1>7
<1> HIDE DEF v, w
<1>9. SumOf(v, {f[k] : k \in A}) = SumOf(w, A)
  BY <1>2, <1>5, <1>6, SumMapped
<1>10. QED
  BY <1>2, <1>3, <1>8, <1>9

-----------------------------------------------------------------------------
(* Sizes add up.                                                           *)

\* The sizes of the directory rows are the sums of what is below them.
Sized(R) == \A p \in DOMAIN R : R[p].data = Dir => R[p].size = FileBytes(R, p)

\* They would be, if x were added to those above s and y to those above d.
Owing(R, s, x, d, y) ==
    \A p \in DOMAIN R : R[p].data = Dir =>
        FileBytes(R, p) = R[p].size + (IF Descendant(p, s) THEN x ELSE 0) + (IF Descendant(p, d) THEN y ELSE 0)

\* The same sums, where data and sizes of files are the same.
LEMMA BytesSame ==
    ASSUME NEW R, RowsTyped(R), NEW S, RowsTyped(S), DOMAIN S = DOMAIN R,
           \A k \in DOMAIN R : Weights(S)[k] = Weights(R)[k], NEW p
    PROVE  FileBytes(S, p) = FileBytes(R, p)
<1>1. /\ FileBytes(R, p) = SumOf(Weights(R), Entries(R, p)) /\ IsFiniteSet(Entries(R, p))
      /\ \A q \in DOMAIN R : Weights(R)[q] \in Int
  BY BytesOfEntries
<1>2. FileBytes(S, p) = SumOf(Weights(S), Entries(S, p))
  BY BytesOfEntries
<1>3. Entries(S, p) = Entries(R, p) /\ Entries(R, p) \subseteq DOMAIN R
  BY DEF Entries
<1> DEFINE A == Entries(R, p)
           w == Weights(R)
           v == Weights(S)
<1>4. \A q \in A : w[q] \in Int /\ v[q] = w[q]
  BY <1>1, <1>3
<1> HIDE DEF A, w, v
<1>5. SumOf(v, A) = SumOf(w, A)
  BY <1>1, <1>4, SumSame DEF A
<1>6. QED
  BY <1>1, <1>2, <1>3, <1>5 DEF A, v, w

\* updateAncestorSizes pays what is owed above a path.
LEMMA BumpedPays ==
    ASSUME NEW R, RowsTyped(R), NEW s, NEW x \in Int, NEW d \in Seq(Nat), d # Root, NEW y \in Int,
           Owing(R, s, x, d, y)
    PROVE  LET S == Bumped(R, d, y) IN RowsTyped(S) /\ Owing(S, s, x, d, 0)
<1> DEFINE S == Bumped(R, d, y)
<1>1. RowsTyped(S) /\ DOMAIN S = DOMAIN R /\ \A k \in DOMAIN R : S[k].data = R[k].data
  BY BumpedRows
<1>2. \A k \in DOMAIN R : IsRow(R[k])
  BY DEF RowsTyped
<1>3. \A k \in DOMAIN R : R[k].data = Dir =>
         S[k].size = R[k].size + (IF Descendant(k, d) THEN y ELSE 0)
  BY <1>2 DEF Bumped, IsDirRow, IsRow
<1>4. \A k \in DOMAIN R : R[k].data # Dir => S[k] = R[k]
  BY DEF Bumped, IsDirRow
<1> HIDE DEF S
<1>5. \A k \in DOMAIN R : Weights(S)[k] = Weights(R)[k]
  BY <1>1, <1>4 DEF Weights
<1>6. ASSUME NEW p \in DOMAIN S, S[p].data = Dir
      PROVE  FileBytes(S, p) = S[p].size + (IF Descendant(p, s) THEN x ELSE 0) + (IF Descendant(p, d) THEN 0 ELSE 0)
  <2>1. FileBytes(S, p) = FileBytes(R, p)
    BY <1>1, <1>5, BytesSame
  <2>2. p \in DOMAIN R /\ R[p].data = Dir /\ R[p].size \in Int
    BY <1>1, <1>2, <1>6 DEF IsRow
  <2>3. FileBytes(R, p) = R[p].size + (IF Descendant(p, s) THEN x ELSE 0) + (IF Descendant(p, d) THEN y ELSE 0)
    BY <2>2 DEF Owing
  <2>4. S[p].size = R[p].size + (IF Descendant(p, d) THEN y ELSE 0)
    BY <1>3, <2>2
  <2>5. QED
    BY <2>1, <2>2, <2>3, <2>4
<1>7. QED
  BY <1>1, <1>6 DEF Owing, S

\* Nothing is owed.
LEMMA NothingOwed ==
    ASSUME NEW R, RowsTyped(R), NEW s, NEW d
    PROVE  Owing(R, s, 0, d, 0) <=> Sized(R)
<1>1. \A p \in DOMAIN R : R[p].size \in Int
  BY DEF RowsTyped, IsRow
<1>2. QED
  BY <1>1 DEF Owing, Sized

\* Either order will do.
LEMMA OwingSwapped ==
    ASSUME NEW R, RowsTyped(R), NEW s, NEW x \in Int, NEW d, NEW y \in Int, Owing(R, s, x, d, y)
    PROVE  Owing(R, d, y, s, x)
<1>1. \A p \in DOMAIN R : R[p].size \in Int
  BY DEF RowsTyped, IsRow
<1>2. QED
  BY <1>1 DEF Owing

\* Above one path.
LEMMA BumpedSized ==
    ASSUME NEW R, RowsTyped(R), NEW d \in Seq(Nat), d # Root, NEW y \in Int, Owing(R, d, 0, d, y)
    PROVE  RowsTyped(Bumped(R, d, y)) /\ Sized(Bumped(R, d, y))
<1> DEFINE S == Bumped(R, d, y)
<1>1. RowsTyped(S) /\ Owing(S, d, 0, d, 0)
  BY BumpedPays
<1> HIDE DEF S
<1>2. Sized(S)
  BY <1>1, NothingOwed
<1>3. QED
  BY <1>1, <1>2 DEF S

\* Outside d the rows are the same.
AlikeOutside(R, S, d) ==
    \A k \in Seq(Nat) : ~ Within(d, k) =>
        /\ k \in DOMAIN R <=> k \in DOMAIN S
        /\ k \in DOMAIN R => S[k] = R[k]

\* The directory rows at and below d have the right sizes.
SizedBelow(S, d) == \A p \in DOMAIN S : Within(d, p) /\ S[p].data = Dir => S[p].size = FileBytes(S, p)

\* What is the same weighs the same.
LEMMA AlikeWeighs ==
    ASSUME NEW R, RowsTyped(R), NEW S, RowsTyped(S), NEW d, AlikeOutside(R, S, d)
    PROVE  WeighOutside(R, S, d)
BY DEF AlikeOutside, WeighOutside, Weights

\* A change at and below d leaves its difference to be paid above d.
LEMMA ChangeOwes ==
    ASSUME NEW R, RowsTyped(R), Sized(R), NEW S, RowsTyped(S), NEW d \in Seq(Nat), AlikeOutside(R, S, d),
           SizedBelow(S, d), NEW y \in Int, FileBytes(S, d) = FileBytes(R, d) + y
    PROVE  Owing(S, d, 0, d, y)
<1> SUFFICES ASSUME NEW p \in DOMAIN S, S[p].data = Dir
             PROVE  FileBytes(S, p) = S[p].size + (IF Descendant(p, d) THEN y ELSE 0)
  <2>1. \A p \in DOMAIN S : S[p].size \in Int
    BY DEF RowsTyped, IsRow
  <2>2. QED
    BY <2>1 DEF Owing
<1>1. p \in Seq(Nat) /\ S[p].size \in Int
  BY DEF RowsTyped, IsRow
<1>2. CASE Within(d, p)
  <2>1. ~ Descendant(p, d)
    BY <1>1, <1>2, WithinOrder DEF Within, Descendant
  <2>2. QED
    BY <1>1, <1>2, <2>1 DEF SizedBelow
<1>3. CASE ~ Within(d, p)
  <2>1. p \in DOMAIN R /\ S[p] = R[p]
    BY <1>1, <1>3 DEF AlikeOutside
  <2>2. S[p].size = FileBytes(R, p)
    BY <2>1 DEF Sized
  <2>3. Within(p, d) <=> Descendant(p, d)
    BY <1>3 DEF Within
  <2>4. WeighOutside(R, S, d)
    BY AlikeWeighs
  <2>5. FileBytes(S, p) = FileBytes(R, p) + (IF Within(p, d) THEN FileBytes(S, d) - FileBytes(R, d) ELSE 0)
    BY <1>1, <1>3, <2>4, BytesAbove
  <2>6. FileBytes(R, d) \in Int
    BY BytesOfEntries
  <2>7. QED
    BY <1>1, <2>2, <2>3, <2>5, <2>6
<1>4. QED
  BY <1>2, <1>3

\* Nothing, and a single file.
LEMMA FewBytes ==
    ASSUME NEW R, RowsTyped(R), NEW p
    PROVE  /\ (\A k \in DOMAIN R : ~ Within(p, k)) => FileBytes(R, p) = 0
           /\ p \in DOMAIN R /\ (\A k \in DOMAIN R : Within(p, k) => k = p) =>
                 FileBytes(R, p) = (IF R[p].data = Dir THEN 0 ELSE R[p].size)
<1> DEFINE A == Entries(R, p)
           w == Weights(R)
<1>1. FileBytes(R, p) = SumOf(w, A) /\ IsFiniteSet(A)
  BY BytesOfEntries
<1>2. \A k : k \in A <=> k \in DOMAIN R /\ Within(p, k)
  BY EntriesAt
<1>3. \A q \in DOMAIN R : w[q] \in Int
  BY BytesOfEntries
<1>4. p \in DOMAIN R => w[p] = IF R[p].data = Dir THEN 0 ELSE R[p].size
  BY DEF Weights
<1>5. Within(p, p)
  BY DEF Within
<1> HIDE DEF A, w
<1>6. ASSUME \A k \in DOMAIN R : ~ Within(p, k) PROVE FileBytes(R, p) = 0
  <2>1. A = {}
    BY <1>2, <1>6
  <2>2. QED
    BY <1>1, <2>1, SumPicked
<1>7. ASSUME p \in DOMAIN R, \A k \in DOMAIN R : Within(p, k) => k = p
      PROVE  FileBytes(R, p) = w[p]
  <2>1. A = {p} /\ A \ {p} = {}
    BY <1>2, <1>5, <1>7
  <2>2. SumOf(w, {}) = 0
    BY FS_EmptySet, SumPicked
  <2>3. SumOf(w, A) = w[p] + SumOf(w, A \ {p})
    BY <1>1, <1>3, <1>7, <2>1, SumWithout
  <2>4. w[p] \in Int
    BY <1>3, <1>7
  <2>5. QED
    BY <1>1, <2>1, <2>2, <2>3, <2>4
<1>8. QED
  BY <1>4, <1>6, <1>7

\* The size of a row is what lies at and below its path.
LEMMA SizeIsBytes ==
    ASSUME RowsTyped(rows), IsTree(Listed), Sized(rows), NEW p \in Seq(Nat)
    PROVE  FileBytes(rows, p) = TreeSize(rows, p)
<1>1. CASE p \notin DOMAIN rows
  <2>1. \A k \in DOMAIN rows : ~ Within(p, k)
    BY <1>1, NothingBelow, ListedAt DEF IsDir
  <2>2. QED
    BY <1>1, <2>1, FewBytes DEF TreeSize
<1>2. CASE p \in DOMAIN rows /\ rows[p].data = Dir
  BY <1>2 DEF Sized, TreeSize
<1>3. CASE p \in DOMAIN rows /\ rows[p].data # Dir
  <2>1. \A k \in DOMAIN rows : ~ Descendant(p, k)
    BY <1>3, NothingBelow, ListedAt DEF IsDir
  <2>2. \A k \in DOMAIN rows : Within(p, k) => k = p
    BY <2>1 DEF Within
  <2>3. QED
    BY <1>3, <2>2, FewBytes DEF TreeSize
<1>4. QED
  BY <1>1, <1>2, <1>3

\* PUT pays the difference between the new file and the old.
LEMMA PutSized ==
    ASSUME IInv, Types, Safe, Told, IsTree(Listed), AllReady, Sized(rows),
           NEW r \in Req, Commit(r), Op(r).kind = "PUT"
    PROVE  Sized(rows')
<1> DEFINE d == Source(r)
           b == Size[Body(r)]
           y == Size[Body(r)] - TreeSize(rows, d)
           R == IF d \in DOMAIN rows THEN Rewritten(rows, d, Body(r), b)
                ELSE Inserted(rows, [q \in {d} |-> NewRow(q, Body(r), b)])
<1>1. /\ RowsTyped(rows) /\ Requested(r) /\ rows' = PutRows(r) /\ d \in Seq(Nat) /\ d # Root
      /\ (\A k \in DOMAIN rows : ~ Descendant(d, k))
  BY CommitFrom DEF Pairs, NewRows
<1>2. Body(r) \in Content /\ b \in Nat /\ Body(r) # Dir
  BY <1>1, TreeAssumption DEF Body, Requested
<1>3. FileBytes(rows, d) = TreeSize(rows, d) /\ FileBytes(rows, d) \in Int
  BY <1>1, SizeIsBytes, BytesOfEntries
<1>4. rows' = Bumped(R, d, y)
  BY <1>1 DEF PutRows
<1>5. /\ RowsTyped(R) /\ DOMAIN R = DOMAIN rows \cup {d} /\ R[d].data = Body(r) /\ R[d].size = b
      /\ \A k \in DOMAIN rows \ {d} : R[k] = rows[k]
  <2>1. CASE d \in DOMAIN rows
    <3>1. RowsTyped(Rewritten(rows, d, Body(r), b))
      <4>1. RowsTyped(rows) /\ d # Root /\ b \in Int /\ Body(r) \in Content \cup {Dir}
        BY <1>1, <1>2
      <4> DEFINE c == Body(r)
      <4>2. d \in DOMAIN rows /\ c \in Content \cup {Dir}
        BY <2>1, <4>1
      <4> HIDE DEF d, b, c
      <4>3. RowsTyped(Rewritten(rows, d, c, b))
        BY <4>1, <4>2, RewrittenRows
      <4>4. QED
        BY <4>3 DEF c
    <3>2. IsRow(rows[d])
      BY <1>1, <2>1 DEF RowsTyped
    <3>3. QED
      BY <2>1, <3>1, <3>2 DEF Rewritten, IsRow
  <2>2. CASE d \notin DOMAIN rows
    <3> DEFINE N == [q \in {d} |-> NewRow(q, Body(r), b)]
    <3>1. DOMAIN N = {d} /\ N[d] = NewRow(d, Body(r), b) /\ IsFiniteSet(DOMAIN N)
      BY FS_Singleton
    <3>2. \A k \in DOMAIN N : IsRow(N[k]) /\ Overlap(k, d)
      BY <1>2, NewRowIsRow DEF Overlap
    <3>3. R = Inserted(rows, N)
      BY <2>2
    <3> HIDE DEF N, R, d, b
    <3>4. RowsTyped(R)
      BY <1>1, <3>1, <3>2, <3>3, InsertedRows
    <3>5. N[d].data = Body(r) /\ N[d].size = b
      BY <3>1 DEF NewRow
    <3>6. QED
      BY <2>2, <3>1, <3>3, <3>4, <3>5 DEF Inserted
  <2>3. QED
    BY <2>1, <2>2
<1> HIDE DEF R, b
<1>6. AlikeOutside(rows, R, d)
  BY <1>5 DEF AlikeOutside, Within
<1>7. FileBytes(R, d) = b /\ SizedBelow(R, d)
  <2>1. \A k \in DOMAIN R : Within(d, k) => k = d
    BY <1>1, <1>5 DEF Within
  <2>2. FileBytes(R, d) = b
    BY <1>2, <1>5, <2>1, FewBytes
  <2>3. SizedBelow(R, d)
    BY <1>2, <1>5, <2>1 DEF SizedBelow
  <2>4. QED
    BY <2>2, <2>3
<1>8. y \in Int /\ FileBytes(R, d) = FileBytes(rows, d) + y
  BY <1>2, <1>3, <1>7 DEF b
<1> HIDE DEF y, d
<1>9. Owing(R, d, 0, d, y)
  BY <1>1, <1>5, <1>6, <1>7, <1>8, ChangeOwes
<1>10. QED
  BY <1>1, <1>4, <1>5, <1>8, <1>9, BumpedSized

\* MKCOL makes an empty collection.
LEMMA MkcolSized ==
    ASSUME IInv, Types, Safe, Told, IsTree(Listed), AllReady, Sized(rows),
           NEW r \in Req, Commit(r), Op(r).kind = "MKCOL"
    PROVE  Sized(rows')
<1> DEFINE d == Source(r)
           New == [q \in ParentPaths(d) \cup {d} |-> NewRow(q, Dir, 0)]
           R == Inserted(rows, New)
<1>1. /\ RowsTyped(rows) /\ Requested(r) /\ rows' = MkcolRows(r) /\ Target(r) = d /\ d \in Seq(Nat) /\ d # Root
      /\ (\A k \in DOMAIN rows : ~ Within(d, k))
  BY CommitFrom DEF Pairs, NewRows
<1>2. DOMAIN R = DOMAIN rows \cup {d}
  <2>1. DOMAIN Listed' = DOMAIN Listed \cup {d}
    BY <1>1, MkcolChanges
  <2>2. DOMAIN rows' = DOMAIN R
    BY <1>1 DEF MkcolRows, Bumped
  <2>3. QED
    BY <2>1, <2>2, ListedAt
<1>3. rows' = Bumped(R, d, 0)
  BY <1>1 DEF MkcolRows
<1>4. \A k \in DOMAIN rows : R[k] = rows[k]
  BY DEF Inserted
<1>5. d \notin DOMAIN rows
  BY <1>1 DEF Within
<1>6. R[d] = NewRow(d, Dir, 0)
  BY <1>5 DEF Inserted
<1>7. RowsTyped(R)
  <2>1. d \in Seq(Nat) /\ d # Root
    BY <1>1
  <2> HIDE DEF d
  <2>2. DOMAIN New = ParentPaths(d) \cup {d} /\ IsFiniteSet(DOMAIN New) /\ DOMAIN New \subseteq Seq(Nat)
    BY <2>1, AncestorsFinite, FS_AddElement
  <2>3. \A k \in DOMAIN New : IsRow(New[k]) /\ Overlap(k, d)
    BY <2>1, <2>2, AncestorsFinite, NewRowIsRow DEF Overlap
  <2> HIDE DEF New
  <2>4. QED
    BY <1>1, <2>1, <2>2, <2>3, InsertedRows
<1>8. R[d].data = Dir /\ R[d].size = 0
  BY <1>6 DEF NewRow
<1> HIDE DEF R, New, d
<1>9. AlikeOutside(rows, R, d)
  BY <1>2, <1>4 DEF AlikeOutside, Within
<1>10. FileBytes(R, d) = 0 /\ FileBytes(rows, d) = 0 /\ SizedBelow(R, d)
  <2>1. \A k \in DOMAIN R : Within(d, k) => k = d
    BY <1>1, <1>2
  <2>2. d \in DOMAIN R
    BY <1>2
  <2>3. FileBytes(R, d) = 0
    BY <1>7, <1>8, <2>1, <2>2, FewBytes
  <2>4. FileBytes(rows, d) = 0
    BY <1>1, FewBytes
  <2>5. SizedBelow(R, d)
    BY <1>8, <2>1, <2>3 DEF SizedBelow
  <2>6. QED
    BY <2>3, <2>4, <2>5
<1>11. 0 \in Int /\ FileBytes(R, d) = FileBytes(rows, d) + 0
  BY <1>10
<1>12. Owing(R, d, 0, d, 0)
  BY <1>1, <1>7, <1>9, <1>10, <1>11, ChangeOwes
<1>13. QED
  BY <1>1, <1>3, <1>7, <1>11, <1>12, BumpedSized

\* What is removed is paid back.
LEMMA RemovedSized ==
    ASSUME RowsTyped(rows), IsTree(Listed), Sized(rows), NEW d \in Seq(Nat), d # Root,
           NEW R, RowsTyped(R), \A k : k \in DOMAIN R <=> k \in DOMAIN rows /\ ~ Within(d, k),
           \A k \in DOMAIN R : R[k] = rows[k], NEW y, y = - TreeSize(rows, d)
    PROVE  RowsTyped(Bumped(R, d, y)) /\ Sized(Bumped(R, d, y))
<1>1. AlikeOutside(rows, R, d) /\ SizedBelow(R, d)
  BY DEF AlikeOutside, SizedBelow
<1>2. FileBytes(R, d) = 0
  BY FewBytes
<1>3. FileBytes(rows, d) = TreeSize(rows, d) /\ FileBytes(rows, d) \in Int
  BY SizeIsBytes, BytesOfEntries
<1>4. y \in Int /\ FileBytes(R, d) = FileBytes(rows, d) + y
  BY <1>2, <1>3
<1>5. Owing(R, d, 0, d, y)
  BY <1>1, <1>4, ChangeOwes
<1>6. QED
  BY <1>4, <1>5, BumpedSized

\* DELETE pays back what it deletes.
LEMMA DeleteSized ==
    ASSUME IInv, Types, Safe, Told, IsTree(Listed), AllReady, Sized(rows),
           NEW r \in Req, Commit(r), Op(r).kind = "DELETE"
    PROVE  Sized(rows')
<1> DEFINE d == Source(r)
           E == IF req[r].isDir THEN Entries(rows, d) ELSE {d}
           R == [k \in DOMAIN rows \ E |-> rows[k]]
           y == - rows[d].size
<1>1. /\ RowsTyped(rows) /\ Requested(r) /\ rows' = DeleteRows(r) /\ d \in Seq(Nat) /\ d # Root
      /\ d \in DOMAIN rows /\ (~ req[r].isDir => \A k \in DOMAIN rows : ~ Descendant(d, k))
  BY CommitFrom DEF Pairs, NewRows
<1>2. rows' = Bumped(R, d, y)
  BY <1>1 DEF DeleteRows, Removed
<1>3. \A k : k \in E <=> k \in DOMAIN rows /\ Within(d, k)
  <2>1. CASE req[r].isDir
    BY <2>1, EntriesAt
  <2>2. CASE ~ req[r].isDir
    BY <1>1, <2>2 DEF Within
  <2>3. QED
    BY <2>1, <2>2
<1>4. E \subseteq Entries(rows, d)
  BY <1>3, EntriesAt
<1>5. y = - TreeSize(rows, d)
  BY <1>1 DEF TreeSize
<1> HIDE DEF E, y, d
<1>6. RowsTyped(R)
  BY <1>1, <1>4, RemovedRows
<1>7. /\ \A k : k \in DOMAIN R <=> k \in DOMAIN rows /\ ~ Within(d, k)
      /\ \A k \in DOMAIN R : R[k] = rows[k]
  BY <1>3
<1> HIDE DEF R
<1>8. QED
  BY <1>1, <1>2, <1>5, <1>6, <1>7, RemovedSized

\* g has at d what f has at s: the same names, contents and sizes.
Alike(f, s, g, d) ==
    \A x \in Seq(Nat) :
        /\ d \o x \in DOMAIN g <=> s \o x \in DOMAIN f
        /\ s \o x \in DOMAIN f => g[d \o x].data = f[s \o x].data /\ g[d \o x].size = f[s \o x].size

\* Whole rows taken along have their contents and sizes.
LEMMA TakenAlike ==
    ASSUME NEW f, NEW s, NEW g, NEW d, Taking(f, s, g, d)
    PROVE  Alike(f, s, g, d)
BY DEF Taking, Alike

\* Branches that are alike weigh the same.
LEMMA AlikeBytes ==
    ASSUME NEW f, RowsTyped(f), NEW g, RowsTyped(g), NEW s \in Seq(Nat), NEW d \in Seq(Nat), Alike(f, s, g, d)
    PROVE  FileBytes(g, d) = FileBytes(f, s)
<1>1. WeighAlike(f, s, g, d)
  BY DEF WeighAlike, Weights, Alike
<1>2. QED
  BY <1>1, BytesAlike

\* In branches that are alike, so are the branches in them.
LEMMA AlikeWithin ==
    ASSUME NEW f, NEW g, NEW s \in Seq(Nat), NEW d \in Seq(Nat), Alike(f, s, g, d), NEW x \in Seq(Nat)
    PROVE  Alike(f, s \o x, g, d \o x)
<1>1. ASSUME NEW y \in Seq(Nat)
      PROVE  /\ (d \o x) \o y \in DOMAIN g <=> (s \o x) \o y \in DOMAIN f
             /\ (s \o x) \o y \in DOMAIN f =>
                   g[(d \o x) \o y].data = f[(s \o x) \o y].data /\ g[(d \o x) \o y].size = f[(s \o x) \o y].size
  <2> DEFINE z == x \o y
  <2>1. x \in Seq(Nat) /\ y \in Seq(Nat)
    OBVIOUS
  <2>2. z \in Seq(Nat)
    BY <2>1
  <2>3. ASSUME NEW c \in Seq(Nat) PROVE (c \o x) \o y = c \o z
    BY <2>1, <2>3, ThreeParts
  <2> HIDE DEF z
  <2>4. (s \o x) \o y = s \o z /\ (d \o x) \o y = d \o z
    BY <2>3
  <2>5. /\ d \o z \in DOMAIN g <=> s \o z \in DOMAIN f
        /\ s \o z \in DOMAIN f => g[d \o z].data = f[s \o z].data /\ g[d \o z].size = f[s \o z].size
    BY <2>2 DEF Alike
  <2>6. QED
    BY <2>4, <2>5, Zenon
<1>2. QED
  BY <1>1 DEF Alike

\* The sizes of a branch are right where those of its model are.
LEMMA AlikeSized ==
    ASSUME NEW f, RowsTyped(f), Sized(f), NEW g, RowsTyped(g), NEW s \in Seq(Nat), NEW d \in Seq(Nat),
           Alike(f, s, g, d)
    PROVE  SizedBelow(g, d) /\ FileBytes(g, d) = FileBytes(f, s)
<1>1. ASSUME NEW p \in DOMAIN g, Within(d, p), g[p].data = Dir
      PROVE  g[p].size = FileBytes(g, p)
  <2>1. p \in Seq(Nat)
    BY DEF RowsTyped
  <2> DEFINE x == Suffix(p, d)
             q == s \o x
  <2>2. x \in Seq(Nat) /\ d \o x = p
    BY <1>1, <2>1, WhatIsLeft
  <2> HIDE DEF x
  <2>3. q \in DOMAIN f /\ g[p].data = f[q].data /\ g[p].size = f[q].size
    BY <1>1, <2>2 DEF Alike
  <2>4. Alike(f, q, g, d \o x)
    BY <2>2, AlikeWithin
  <2>5. q \in Seq(Nat)
    BY <2>3 DEF RowsTyped
  <2> HIDE DEF q
  <2>6. Alike(f, q, g, p)
    BY <2>2, <2>4, Zenon
  <2>7. FileBytes(g, p) = FileBytes(f, q)
    BY <2>1, <2>5, <2>6, AlikeBytes
  <2>8. f[q].size = FileBytes(f, q)
    BY <1>1, <2>3 DEF Sized
  <2>9. QED
    BY <2>3, <2>7, <2>8
<1>2. FileBytes(g, d) = FileBytes(f, s)
  BY AlikeBytes
<1>3. QED
  BY <1>1, <1>2 DEF SizedBelow

\* What a MOVE or COPY replaces is paid back first, and its source stays as it is.
LEMMA ClearedSized ==
    ASSUME IInv, Types, Safe, Told, IsTree(Listed), AllReady, Sized(rows),
           NEW r \in Req, Commit(r), Op(r).kind \in Pairs, NEW R, R = Cleared(r)
    PROVE  /\ RowsTyped(R) /\ Sized(R) /\ Bare(R, Target(r))
           /\ Taking(rows, Source(r), R, Source(r))
           /\ \A k \in DOMAIN rows : k \in DOMAIN R <=> ~ Within(Target(r), k)
           /\ \A k \in DOMAIN R : k \in DOMAIN rows
<1> DEFINE s == Source(r)
           d == Target(r)
           T == Removed(rows, d)
           y == - TreeSize(rows, d)
<1>1. /\ RowsTyped(rows) /\ s \in Seq(Nat) /\ d \in Seq(Nat) /\ d # Root
      /\ \A k \in Seq(Nat) : ~ (Within(s, k) /\ Within(d, k))
  BY CommitFrom DEF Pairs
<1>2. /\ RowsTyped(R) /\ Bare(R, d)
      /\ \A k \in DOMAIN rows : k \in DOMAIN R <=> ~ Within(d, k)
      /\ \A k \in DOMAIN R : k \in DOMAIN rows /\ (~ Descendant(k, d) => R[k] = rows[k])
  BY ClearedVersions
<1>3. R = IF req[r].saved THEN Bumped(T, d, y) ELSE rows
  BY DEF Cleared
<1>4. Sized(R)
  <2>1. CASE req[r].saved
    <3>1. RowsTyped(T)
      BY <1>1, RemovedRows DEF Removed
    <3>2. /\ \A k : k \in DOMAIN T <=> k \in DOMAIN rows /\ ~ Within(d, k)
          /\ \A k \in DOMAIN T : T[k] = rows[k]
      BY RemovedAt
    <3> HIDE DEF T, d
    <3>3. y = - TreeSize(rows, d)
      OBVIOUS
    <3> HIDE DEF y
    <3>4. Sized(Bumped(T, d, y))
      BY <1>1, <3>1, <3>2, <3>3, RemovedSized
    <3>5. QED
      BY <1>3, <2>1, <3>4
  <2>2. CASE ~ req[r].saved
    BY <1>3, <2>2
  <2>3. QED
    BY <2>1, <2>2
<1>5. ASSUME NEW x \in Seq(Nat)
      PROVE  /\ s \o x \in DOMAIN R <=> s \o x \in DOMAIN rows
             /\ s \o x \in DOMAIN rows => R[s \o x] = rows[s \o x]
  <2> DEFINE k == s \o x
  <2>1. k \in Seq(Nat) /\ Within(s, k)
    BY <1>1, Followed
  <2> HIDE DEF k, s, d
  <2>2. ~ Within(d, k)
    BY <1>1, <2>1
  <2>3. ~ Descendant(k, d)
    <3>1. ASSUME Within(k, d) PROVE FALSE
      <4>1. Within(s, d) /\ Within(d, d)
        BY <1>1, <2>1, <3>1, WithinOrder
      <4>2. QED
        BY <1>1, <4>1
    <3>2. QED
      BY <3>1 DEF Within
  <2>4. (k \in DOMAIN R <=> k \in DOMAIN rows) /\ (k \in DOMAIN rows => R[k] = rows[k])
    BY <1>2, <2>2, <2>3
  <2>5. QED
    BY <2>4 DEF k
<1>6. Taking(rows, s, R, s)
  BY <1>5 DEF Taking
<1>7. QED
  BY <1>2, <1>4, <1>6

\* A branch carried from s to d is owed at d what it no longer weighs at s.
LEMMA CarriedOwes ==
    ASSUME NEW R, RowsTyped(R), Sized(R), NEW C, RowsTyped(C), NEW s \in Seq(Nat), NEW d \in Seq(Nat),
           s # Root, Apart(s, d), Bare(R, d), Renames(R, s, C, d), NEW b, b = FileBytes(R, s),
           NEW a, a = - b
    PROVE  Owing(C, s, a, d, b)
<1> DEFINE E == Entries(R, s)
           T == [k \in DOMAIN R \ E |-> R[k]]
<1>1. RowsTyped(T)
  BY RemovedRows
<1>2. \A k : k \in DOMAIN T <=> k \in DOMAIN R /\ ~ Within(s, k)
  BY EntriesAt
<1>3. \A k \in DOMAIN T : T[k] = R[k]
  OBVIOUS
<1>4. b \in Int /\ DOMAIN C \subseteq Seq(Nat)
  BY BytesOfEntries DEF Renames
<1> HIDE DEF T
<1>5. WeighOutside(R, T, s)
  <2>1. AlikeOutside(R, T, s)
    BY <1>2, <1>3 DEF AlikeOutside
  <2>2. QED
    BY <1>1, <2>1, AlikeWeighs
<1>6. WeighOutside(T, C, d)
  <2>1. AlikeOutside(T, C, d)
    BY <1>2, <1>3 DEF AlikeOutside, Renames
  <2>2. QED
    BY <1>1, <2>1, AlikeWeighs
<1>7. FileBytes(T, s) = 0 /\ FileBytes(T, d) = 0
  <2>1. \A k \in DOMAIN T : ~ Within(s, k) /\ ~ Within(d, k)
    BY <1>2 DEF Bare
  <2>2. QED
    BY <1>1, <2>1, FewBytes
<1>8. SizedBelow(C, d) /\ FileBytes(C, d) = b
  <2>1. Alike(R, s, C, d)
    BY TakenAlike DEF Renames
  <2>2. QED
    BY <2>1, AlikeSized
<1>9. ASSUME NEW p \in DOMAIN C, C[p].data = Dir
      PROVE  FileBytes(C, p) = C[p].size + (IF Descendant(p, s) THEN a ELSE 0) + (IF Descendant(p, d) THEN b ELSE 0)
  <2>1. p \in Seq(Nat) /\ C[p].size \in Int
    BY <1>4 DEF RowsTyped, IsRow
  <2>2. CASE Within(d, p)
    <3>1. C[p].size = FileBytes(C, p)
      BY <1>8, <1>9, <2>2 DEF SizedBelow
    <3>2. ~ Descendant(p, d)
      BY <2>1, <2>2, WithinOrder DEF Within, Descendant
    <3>3. ~ Descendant(p, s)
      <4>1. ASSUME Within(p, s) PROVE FALSE
        <5>1. Within(d, s) /\ Within(s, s)
          BY <2>1, <2>2, <4>1, WithinOrder
        <5>2. QED
          BY <5>1 DEF Apart
      <4>2. QED
        BY <4>1 DEF Within
    <3>4. QED
      BY <2>1, <3>1, <3>2, <3>3
  <2>3. CASE ~ Within(d, p)
    <3>1. p \in DOMAIN R /\ ~ Within(s, p) /\ C[p] = R[p]
      BY <2>1, <2>3 DEF Renames
    <3>2. C[p].size = FileBytes(R, p) /\ FileBytes(R, p) \in Int
      BY <1>9, <3>1, BytesOfEntries DEF Sized
    <3>3. FileBytes(T, p) = FileBytes(R, p) + (IF Within(p, s) THEN FileBytes(T, s) - FileBytes(R, s) ELSE 0)
      BY <1>1, <1>5, <2>1, <3>1, BytesAbove
    <3>4. FileBytes(C, p) = FileBytes(T, p) + (IF Within(p, d) THEN FileBytes(C, d) - FileBytes(T, d) ELSE 0)
      BY <1>1, <1>6, <2>1, <2>3, BytesAbove
    <3>5. (Within(p, s) <=> Descendant(p, s)) /\ (Within(p, d) <=> Descendant(p, d))
      BY <2>3, <3>1 DEF Within
    <3>6. QED
      BY <1>4, <1>7, <1>8, <3>2, <3>3, <3>4, <3>5
  <2>4. QED
    BY <2>2, <2>3
<1>10. QED
  BY <1>9 DEF Owing

\* MOVE pays above its source what it takes away, and above its target what it brings.
LEMMA MoveSized ==
    ASSUME IInv, Types, Safe, Told, IsTree(Listed), AllReady, Sized(rows),
           NEW r \in Req, Commit(r), Op(r).kind = "MOVE"
    PROVE  Sized(rows')
<1> DEFINE s == Source(r)
           d == Target(r)
           R == Cleared(r)
           E == Taken(r)
           C == Carried(R, E, s, d)
           b == FileBytes(R, s)
           a == - b
           bytes == IF req[r].isDir THEN FileBytes(rows, s) ELSE rows[s].size
           minus == - bytes
<1>1. /\ RowsTyped(rows) /\ Requested(r) /\ rows' = MoveRows(r) /\ s \in DOMAIN rows
      /\ s \in Seq(Nat) /\ d \in Seq(Nat) /\ s # Root /\ d # Root
      /\ \A k \in Seq(Nat) : ~ (Within(s, k) /\ Within(d, k))
  BY CommitFrom DEF Pairs, NewRows
<1>2. /\ RowsTyped(R) /\ Sized(R) /\ Bare(R, d) /\ Taking(rows, s, R, s)
      /\ \A k \in DOMAIN rows : k \in DOMAIN R <=> ~ Within(d, k)
      /\ \A k \in DOMAIN R : k \in DOMAIN rows
  BY ClearedSized DEF Pairs
<1>3. Branch(R, s, E)
  <2>1. Branch(rows, s, E \cap DOMAIN rows)
    BY TakenBranch
  <2> HIDE DEF R, E, s
  <2>2. QED
    BY <1>2, <2>1 DEF Branch
<1>4. bytes = b /\ b \in Int
  <2>1. FileBytes(rows, s) = TreeSize(rows, s)
    BY <1>1, SizeIsBytes
  <2>2. TreeSize(rows, s) = rows[s].size
    BY <1>1 DEF TreeSize
  <2> HIDE DEF R, s
  <2>3. Alike(rows, s, R, s)
    BY <1>2, TakenAlike
  <2>4. b = FileBytes(rows, s)
    BY <1>1, <1>2, <2>3, AlikeSized
  <2>5. b \in Int
    BY <1>2, BytesOfEntries
  <2>6. QED
    BY <2>1, <2>2, <2>4, <2>5
<1>5. MoveRows(r) = IF Parent(s) # Parent(d) THEN Bumped(Bumped(C, s, minus), d, bytes) ELSE Bumped(C, s, 0)
  BY DEF MoveRows
<1>6. RowsTyped(C)
  <2>1. ASSUME NEW k \in E PROVE k \in Seq(Nat) /\ (k = s \/ Descendant(s, k))
    BY <1>1, <2>1, TakenRows DEF Within
  <2> HIDE DEF R, E, s, d
  <2>2. QED
    BY <1>1, <1>2, <2>1, CarriedRows
<1>7. C = Carried(R, E, s, d) /\ minus = - bytes
  OBVIOUS
<1> HIDE DEF C, E, R, bytes, minus, s, d
<1>8. Renames(R, s, C, d) /\ Apart(s, d)
  <2>1. DOMAIN R \subseteq Seq(Nat)
    BY <1>2 DEF RowsTyped
  <2>2. Apart(s, d)
    BY <1>1 DEF Apart
  <2>3. QED
    BY <1>1, <1>2, <1>3, <1>7, <2>1, <2>2, CarriedBranch
<1>9. a = minus /\ a \in Int
  BY <1>4, <1>7
<1> HIDE DEF b
<1>10. b = FileBytes(R, s) /\ a = - b
  BY DEF b
<1> HIDE DEF a
<1>11. Owing(C, s, a, d, b)
  BY <1>1, <1>2, <1>6, <1>8, <1>10, CarriedOwes
<1>12. CASE Parent(s) # Parent(d)
  <2> DEFINE Q == Bumped(C, s, a)
             S == Bumped(Q, d, b)
  <2>1. rows' = S
    BY <1>1, <1>4, <1>5, <1>9, <1>12
  <2>2. Owing(C, d, b, s, a)
    BY <1>4, <1>6, <1>9, <1>11, OwingSwapped
  <2>3. RowsTyped(Q) /\ Owing(Q, d, b, s, 0)
    BY <1>1, <1>4, <1>6, <1>9, <2>2, BumpedPays
  <2> HIDE DEF Q
  <2>4. 0 \in Int
    OBVIOUS
  <2>5. Owing(Q, s, 0, d, b)
    BY <1>4, <2>3, <2>4, OwingSwapped
  <2>6. RowsTyped(S) /\ Owing(S, s, 0, d, 0)
    BY <1>1, <1>4, <2>3, <2>4, <2>5, BumpedPays
  <2> HIDE DEF S
  <2>7. Sized(S)
    BY <2>6, NothingOwed
  <2>8. QED
    BY <2>1, <2>7
<1>13. CASE Parent(s) = Parent(d)
  <2>1. \A k \in Seq(Nat) : Descendant(k, s) <=> Descendant(k, d)
    BY <1>1, <1>13, WithinParent
  <2>2. \A k \in DOMAIN C : k \in Seq(Nat) /\ C[k].size \in Int
    BY <1>6 DEF RowsTyped, IsRow
  <2>3. ASSUME NEW p \in DOMAIN C, C[p].data = Dir PROVE C[p].size = FileBytes(C, p)
    <3>1. FileBytes(C, p) = C[p].size + (IF Descendant(p, s) THEN a ELSE 0) + (IF Descendant(p, d) THEN b ELSE 0)
      BY <1>11, <2>3 DEF Owing
    <3>2. Descendant(p, s) <=> Descendant(p, d)
      BY <2>1, <2>2
    <3>3. QED
      BY <1>4, <1>10, <2>2, <3>1, <3>2
  <2>4. Owing(C, s, 0, s, 0)
    BY <1>6, <2>3, NothingOwed DEF Sized
  <2>5. 0 \in Int
    OBVIOUS
  <2>6. Sized(Bumped(C, s, 0))
    BY <1>1, <1>6, <2>4, <2>5, BumpedSized
  <2>7. QED
    BY <1>1, <1>5, <1>13, <2>6
<1>14. QED
  BY <1>12, <1>13

\* New rows at and below d, where there was nothing, are paid above d.
LEMMA AddedSized ==
    ASSUME NEW R, RowsTyped(R), Sized(R), NEW d \in Seq(Nat), d # Root, Bare(R, d),
           NEW N, \A k \in DOMAIN N : Within(d, k), NEW T, T = Inserted(R, N), RowsTyped(T),
           SizedBelow(T, d), NEW y \in Int, FileBytes(T, d) = y
    PROVE  Sized(Bumped(T, d, y))
<1>1. AlikeOutside(R, T, d)
  BY DEF AlikeOutside, Inserted
<1>2. FileBytes(R, d) = 0
  BY FewBytes DEF Bare
<1>3. FileBytes(T, d) = FileBytes(R, d) + y
  BY <1>2
<1>4. Owing(T, d, 0, d, y)
  BY <1>1, <1>3, ChangeOwes
<1>5. QED
  BY <1>4, BumpedSized

\* The row of a copied file or collection has its size.
LEMMA NewRowIs ==
    ASSUME NEW p, NEW x, NEW y
    PROVE  NewRow(p, x, y).data = x /\ NewRow(p, x, y).size = y
BY DEF NewRow

\* One new row, alone at and below its path.
LEMMA OneAdded ==
    ASSUME NEW R, RowsTyped(R), Sized(R), NEW d \in Seq(Nat), d # Root, Bare(R, d),
           NEW x \in Content \cup {Dir}, NEW y \in Int, x = Dir => y = 0
    PROVE  LET N == [k \in {d} |-> NewRow(k, x, y)]
           IN Sized(Bumped(Inserted(R, N), d, y))
<1> DEFINE N == [k \in {d} |-> NewRow(k, x, y)]
           T == Inserted(R, N)
<1>1. DOMAIN N = {d} /\ N[d] = NewRow(d, x, y) /\ IsFiniteSet(DOMAIN N)
  BY FS_Singleton
<1>2. \A k \in DOMAIN N : IsRow(N[k]) /\ Overlap(k, d) /\ Within(d, k)
  BY NewRowIsRow DEF Overlap, Within
<1> HIDE DEF N
<1>3. RowsTyped(T)
  BY <1>1, <1>2, InsertedRows
<1>4. d \notin DOMAIN R
  BY DEF Bare, Within
<1>5. d \in DOMAIN T /\ T[d].data = x /\ T[d].size = y
  BY <1>1, <1>4, NewRowIs DEF Inserted
<1>6. \A k \in DOMAIN T : Within(d, k) => k = d
  BY <1>1 DEF Inserted, Bare
<1>7. T = Inserted(R, N)
  OBVIOUS
<1> HIDE DEF T
<1>8. FileBytes(T, d) = y
  BY <1>3, <1>5, <1>6, FewBytes
<1>9. SizedBelow(T, d)
  BY <1>5, <1>6, <1>8 DEF SizedBelow
<1>10. Sized(Bumped(T, d, y))
  BY <1>2, <1>3, <1>7, <1>8, <1>9, AddedSized
<1>11. QED
  BY <1>7, <1>10 DEF N

\* COPY brings what its source weighs; of a collection alone, nothing.
LEMMA CopySized ==
    ASSUME IInv, Types, Safe, Told, IsTree(Listed), AllReady, Sized(rows),
           NEW r \in Req, Commit(r), Op(r).kind \in {"COPY", "COPY0"}
    PROVE  Sized(rows')
<1> DEFINE s == Source(r)
           d == Target(r)
           R == Cleared(r)
           E == Entries(rows, s)
           X == {d \o Suffix(q, s) : q \in E}
           row(k) == rows[s \o Suffix(k, d)]
           copy(k) == NewRow(k, row(k).data, row(k).size)
<1>1. /\ RowsTyped(rows) /\ Requested(r) /\ rows' = CopyRows(r) /\ s \in DOMAIN rows
      /\ s \in Seq(Nat) /\ d \in Seq(Nat) /\ s # Root /\ d # Root
      /\ (req[r].isDir <=> rows[s].data = Dir)
  BY CommitFrom DEF Pairs, NewRows
<1>2. RowsTyped(R) /\ Sized(R) /\ Bare(R, d)
  BY ClearedSized DEF Pairs
<1>3. rows[s].data \in Content \cup {Dir} /\ rows[s].size \in Int
  BY <1>1 DEF RowsTyped, IsRow
<1>4. d \o Suffix(d, d) = d /\ s \o Suffix(d, d) = s
  BY <1>1, EmptySuffix
<1>5. CASE ~ req[r].isDir
  <2> DEFINE x == rows[s].data
             y == rows[s].size
             N == [k \in {d} |-> NewRow(k, x, y)]
  <2>1. d \notin DOMAIN R
    BY <1>2 DEF Bare, Within
  <2>2. N = [k \in {d} |-> copy(k)]
    BY <1>4
  <2>3. rows' = Bumped(Inserted(R, N), d, y)
    BY <1>1, <1>5, <2>1, <2>2 DEF CopyRows
  <2>4. x \in Content \cup {Dir} /\ y \in Int /\ x # Dir
    BY <1>1, <1>3, <1>5
  <2> HIDE DEF x, y, R, d
  <2>5. Sized(Bumped(Inserted(R, N), d, y))
    BY <1>1, <1>2, <2>4, OneAdded
  <2>6. QED
    BY <2>3, <2>5
<1>6. CASE req[r].isDir /\ Op(r).kind = "COPY0"
  <2> DEFINE N == [k \in {d} |-> NewRow(k, Dir, 0)]
  <2>1. rows' = Bumped(Inserted(R, N), d, 0)
    BY <1>1, <1>6 DEF CopyRows
  <2>2. Dir \in Content \cup {Dir} /\ 0 \in Int
    OBVIOUS
  <2> HIDE DEF R, d
  <2>3. Sized(Bumped(Inserted(R, N), d, 0))
    BY <1>1, <1>2, <2>2, OneAdded
  <2>4. QED
    BY <2>1, <2>3
<1>7. CASE req[r].isDir /\ Op(r).kind = "COPY"
  <2> DEFINE N == [k \in X |-> copy(k)]
             T == Inserted(R, N)
             y == TreeSize(rows, s)
  <2>1. rows' = Bumped(T, d, y)
    BY <1>1, <1>7 DEF CopyRows
  <2>2. IsFiniteSet(E) /\ \A q : q \in E <=> q \in DOMAIN rows /\ Within(s, q)
    <3>1. E \subseteq DOMAIN rows /\ IsFiniteSet(DOMAIN rows)
      BY <1>1 DEF Entries, RowsTyped
    <3>2. QED
      BY <3>1, FS_Subset, EntriesAt
  <2>3. \A q \in E : q \in Seq(Nat) /\ Within(s, q) /\ IsRow(rows[q])
    BY <1>1, <2>2 DEF RowsTyped
  <2>4. IsFiniteSet(X) /\ \A k : k \in X <=> \E q \in E : k = d \o Suffix(q, s)
    <3> HIDE DEF E
    <3>1. IsFiniteSet(X)
      BY <2>2, CarriedFinite, ZenonT(60)
    <3>2. QED
      BY <3>1
  <2>5. DOMAIN N = X /\ \A k \in X : N[k] = copy(k)
    OBVIOUS
  <2> HIDE DEF E, X, N, s, d, R
  <2>6. /\ \A k \in X : k \in Seq(Nat) /\ Within(d, k)
        /\ \A x \in Seq(Nat) : d \o x \in X <=> s \o x \in E
    BY <1>1, <2>3, <2>4, CarriedSet
  <2>7. ASSUME NEW x \in Seq(Nat), d \o x \in X
        PROVE  /\ s \o x \in E /\ N[d \o x].data = rows[s \o x].data /\ N[d \o x].size = rows[s \o x].size
    <3>1. Suffix(d \o x, d) = x /\ s \o x \in E
      BY <1>1, <2>6, <2>7, Followed
    <3>2. row(d \o x) = rows[s \o x]
      BY <3>1
    <3> DEFINE k == d \o x
               u == row(k).data
               v == row(k).size
    <3>3. N[k] = NewRow(k, u, v)
      BY <2>5, <2>7
    <3>4. u = rows[s \o x].data /\ v = rows[s \o x].size
      BY <3>2
    <3> HIDE DEF k, u, v
    <3>5. N[k].data = u /\ N[k].size = v
      BY <3>3, NewRowIs
    <3>6. QED
      BY <3>1, <3>4, <3>5 DEF k
  <2>8. ASSUME NEW k \in X PROVE IsRow(N[k]) /\ Overlap(k, d)
    <3>1. PICK x \in Seq(Nat) : k = d \o x
      BY <1>1, <2>6, WhatIsLeft
    <3>2. s \o x \in E /\ N[k].data = rows[s \o x].data /\ N[k].size = rows[s \o x].size
      BY <2>7, <3>1
    <3> DEFINE u == row(k).data
               v == row(k).size
    <3>3. N[k] = NewRow(k, u, v)
      BY <2>5
    <3> HIDE DEF u, v
    <3>4. N[k].data = u /\ N[k].size = v
      BY <3>3, NewRowIs
    <3>5. u \in Content \cup {Dir} /\ v \in Int
      BY <2>3, <3>2, <3>4 DEF IsRow
    <3>6. IsRow(N[k])
      BY <3>3, <3>5, NewRowIsRow
    <3>7. QED
      BY <2>6, <3>6 DEF Overlap, Within
  <2>9. RowsTyped(T)
    <3>1. DOMAIN N \subseteq Seq(Nat)
      BY <2>5, <2>6
    <3>2. QED
      BY <1>1, <1>2, <2>4, <2>5, <2>8, <3>1, InsertedRows
  <2>10. Alike(rows, s, T, d)
    <3>1. ASSUME NEW x \in Seq(Nat)
          PROVE  /\ d \o x \in DOMAIN T <=> s \o x \in DOMAIN rows
                 /\ s \o x \in DOMAIN rows => T[d \o x].data = rows[s \o x].data /\ T[d \o x].size = rows[s \o x].size
      <4> DEFINE a == s \o x
                 b == d \o x
      <4>1. Within(s, a) /\ Within(d, b)
        BY <1>1, Followed
      <4>2. (a \in E <=> a \in DOMAIN rows) /\ (b \in X <=> a \in E) /\ b \notin DOMAIN R
        BY <1>2, <2>2, <2>6, <4>1 DEF Bare
      <4>3. a \in E => N[b].data = rows[a].data /\ N[b].size = rows[a].size
        BY <2>6, <2>7
      <4> HIDE DEF a, b
      <4>4. (b \in DOMAIN T <=> b \in X) /\ (b \in X => T[b] = N[b])
        BY <2>5, <4>2 DEF Inserted
      <4>5. (b \in DOMAIN T <=> a \in DOMAIN rows)
            /\ (a \in DOMAIN rows => T[b].data = rows[a].data /\ T[b].size = rows[a].size)
        BY <4>2, <4>3, <4>4
      <4>6. QED
        BY <4>5 DEF a, b
    <3>2. QED
      BY <3>1 DEF Alike
  <2>11. T = Inserted(R, N)
    OBVIOUS
  <2> HIDE DEF T
  <2>12. SizedBelow(T, d) /\ FileBytes(T, d) = FileBytes(rows, s)
    BY <1>1, <2>9, <2>10, AlikeSized
  <2>13. FileBytes(rows, s) = y /\ y \in Int
    BY <1>1, SizeIsBytes, BytesOfEntries
  <2> HIDE DEF y
  <2>14. Sized(Bumped(T, d, y))
    <3>1. \A k \in DOMAIN N : Within(d, k)
      BY <2>5, <2>6
    <3>2. QED
      BY <1>1, <1>2, <2>9, <2>11, <2>12, <2>13, <3>1, AddedSized
  <2>15. QED
    BY <2>1, <2>14
<1>8. QED
  BY <1>5, <1>6, <1>7

\* At the start the sizes are the sums of what is on disk.
LEMMA InitSized == Init => Sized(rows)
<1> SUFFICES ASSUME Init PROVE Sized(rows)
  OBVIOUS
<1> DEFINE w == [q \in DOMAIN fs |-> IF fs[q] = Dir THEN 0 ELSE Size[fs[q]]]
           v == Weights(rows)
<1>1. RowsTyped(rows) /\ IsTree(fs)
  BY InitInv, InitTypes DEF IInv, Types
<1>2. /\ DOMAIN rows = DOMAIN fs
      /\ \A p \in DOMAIN rows : rows[p].data = fs[p]
      /\ \A p \in DOMAIN rows : rows[p].size = MapThenSumSet(LAMBDA q : IF fs[q] = Dir THEN 0 ELSE Size[fs[q]],
                                                             Entries(fs, p))
  BY DEF Init
<1>3. \A q \in DOMAIN fs : w[q] \in Int
  BY <1>1, TreeAssumption DEF IsTree
<1>4. ASSUME NEW p \in DOMAIN rows
      PROVE  rows[p].size = SumOf(w, Entries(rows, p)) /\ IsFiniteSet(Entries(rows, p)) /\ Entries(rows, p) \subseteq DOMAIN fs
  <2> DEFINE A == Entries(fs, p)
             u == [q \in A |-> IF fs[q] = Dir THEN 0 ELSE Size[fs[q]]]
  <2>1. A = Entries(rows, p) /\ IsFiniteSet(A) /\ A \subseteq DOMAIN fs
    BY <1>1, <1>2, BytesOfEntries DEF Entries
  <2>2. \A q \in A : u[q] \in Int /\ w[q] = u[q]
    BY <1>3, <2>1
  <2>3. rows[p].size = SumOf(u, A)
    BY <1>2, ContentsAreSum
  <2> HIDE DEF A, u, w
  <2>4. SumOf(w, A) = SumOf(u, A)
    BY <2>1, <2>2, SumSame
  <2>5. QED
    BY <2>1, <2>3, <2>4
<1>5. ASSUME NEW p \in DOMAIN rows PROVE v[p] = w[p]
  <2>1. CASE fs[p] = Dir
    BY <1>2, <2>1 DEF Weights
  <2>2. CASE fs[p] # Dir
    <3> DEFINE A == Entries(rows, p)
    <3>1. A = {p}
      <4>1. \A k \in DOMAIN fs : ~ Descendant(p, k)
        BY <1>1, <1>2, <2>2, NothingBelow DEF IsDir, RowsTyped
      <4>2. QED
        BY <1>2, <4>1 DEF Entries
    <3>2. rows[p].size = SumOf(w, A) /\ IsFiniteSet(A) /\ w[p] \in Int
      BY <1>2, <1>3, <1>4
    <3> HIDE DEF A, w
    <3>3. SumOf(w, A) = w[p] + SumOf(w, A \ {p})
      BY <3>1, <3>2, SumWithout
    <3>4. SumOf(w, A \ {p}) = 0
      <4>1. A \ {p} = {}
        BY <3>1
      <4>2. SumOf(w, {}) = 0
        BY FS_EmptySet, SumPicked
      <4>3. QED
        BY <4>1, <4>2
    <3>5. SumOf(w, A) = w[p]
      BY <3>2, <3>3, <3>4
    <3>6. rows[p].size = w[p]
      BY <3>2, <3>5
    <3>7. v[p] = rows[p].size
      BY <1>2, <2>2 DEF Weights
    <3>8. QED
      BY <3>6, <3>7
  <2>3. QED
    BY <2>1, <2>2
<1> HIDE DEF w
<1>6. ASSUME NEW p \in DOMAIN rows PROVE rows[p].size = FileBytes(rows, p)
  <2> DEFINE A == Entries(rows, p)
  <2>1. rows[p].size = SumOf(w, A) /\ IsFiniteSet(A) /\ A \subseteq DOMAIN fs
    BY <1>4
  <2>2. FileBytes(rows, p) = SumOf(v, A)
    BY <1>1, BytesOfEntries
  <2>3. \A q \in A : w[q] \in Int /\ v[q] = w[q]
    BY <1>2, <1>3, <1>5, <2>1
  <2> HIDE DEF A, v
  <2>4. SumOf(v, A) = SumOf(w, A)
    BY <2>1, <2>3, SumSame
  <2>5. QED
    BY <2>1, <2>2, <2>4
<1>7. QED
  BY <1>6 DEF Sized

\* Every step leaves the sizes right, as long as nothing fails.
LEMMA NextKeepsSizes ==
    ASSUME IInv, IInv', Types, SInv, NInv, SizesAddUp, [Next]_vars
    PROVE  SizesAddUp'
<1>1. faults' = faults
  BY DEF Next, Step, Done, vars
<1> SUFFICES ASSUME faults = {} PROVE Sized(rows')
  BY <1>1 DEF SizesAddUp, SizesAlwaysAddUp, Sized
<1>2. Sized(rows)
  BY DEF SizesAddUp, SizesAlwaysAddUp, Sized
<1>3. CASE rows' = rows
  BY <1>2, <1>3
<1>4. CASE rows' # rows
  <2>1. SessionsKept
    BY DEF SessionsKept
  <2>2. Safe /\ Told /\ IsTree(Listed) /\ AllReady
    BY <1>4, <2>1, OneCommits DEF NInv, AllThere
  <2>3. PICK r \in Req : Commit(r)
    BY <1>4, <2>1, OneCommits
  <2>4. Op(r).kind \in Kinds \ {"PROPPATCH"}
    <3>1. Requested(r)
      BY <2>3 DEF Commit, Apply, IInv, Good, Typed
    <3>2. Op(r).kind # "PROPPATCH"
      BY <1>4, <2>3 DEF Commit, Apply, NewRows
    <3>3. QED
      BY <3>1, <3>2, OpPaths
  <2>5. QED
    BY <1>2, <2>2, <2>3, <2>4, PutSized, MkcolSized, DeleteSized, MoveSized, CopySized DEF Kinds
<1>5. QED
  BY <1>3, <1>4

\* While nothing fails, the size of every collection is the sum of the files below it: the
\* deltas the handlers add to the rows above their paths are those of the contents, whatever
\* they create, replace, move or copy.
THEOREM SizesStayTrue == Spec => []SizesAddUp
<1>1. IInv /\ IInv' /\ Types /\ SInv /\ NInv /\ SizesAddUp /\ [Next]_vars => SizesAddUp'
  BY NextKeepsSizes
<1>2. Spec => []Types
  BY TypesHold
<1>3. Init => SizesAddUp
  BY InitSized DEF SizesAddUp, SizesAlwaysAddUp, Sized
<1>4. QED
  BY Invariant, RowsStayBacked, EverythingListed, <1>1, <1>2, <1>3, PTL DEF Spec

-----------------------------------------------------------------------------
(* The same beside clients that read.                                      *)

\* What a read does to the server: it counts as a request.
ReadStep ==
    /\ issued' \in issued .. MaxOps
    /\ UNCHANGED <<fs, rows, props, inside, rootRow, req, serial, crashed, faults>>

\* Each read counts as one request at most.
LEMMA ReadCounts ==
    ASSUME Types, Read, UNCHANGED <<fs, rows, props, inside, rootRow, req, serial, crashed, faults>>
    PROVE  ReadStep
<1>1. issued \in Nat /\ MaxOps \in Nat /\ issued <= MaxOps
  BY TreeAssumption DEF Types
<1>2. issued' = issued \/ (issued < MaxOps /\ issued' = issued + 1)
  BY DEF Read, ListSelf, StatFile, ReadRow, Serve, Miss, ListBelow, Start
<1>3. issued' \in issued .. MaxOps
  BY <1>1, <1>2
<1>4. QED
  BY <1>3 DEF ReadStep

\* Every step of the server or of a client is one of DavTree or a read.
LEMMA ReadsSteps ==
    ASSUME Types, [ReadsNext]_allVars
    PROVE  [Next]_vars \/ ReadStep
<1>1. CASE UNCHANGED allVars
  BY <1>1 DEF allVars, vars
<1>2. QED
  BY <1>1, ReadCounts DEF ReadsNext

\* All that the proofs above know of the server.
ServerInv == IInv /\ Types /\ SInv /\ NInv /\ IdInv /\ SizesAddUp

\* A read leaves it as it is.
LEMMA ReadKeepsServer ==
    ASSUME ServerInv, ReadStep
    PROVE  ServerInv'
<1>1. /\ fs' = fs /\ rows' = rows /\ props' = props /\ inside' = inside /\ rootRow' = rootRow
      /\ req' = req /\ serial' = serial /\ crashed' = crashed /\ faults' = faults
  BY DEF ReadStep
<1>2. issued \in Nat /\ MaxOps \in Nat /\ issued' \in Nat /\ issued <= issued' /\ issued' <= MaxOps
  BY TreeAssumption DEF ReadStep, ServerInv, Types
<1>3. IInv'
  <2>1. ASSUME NEW r \in Req PROVE Good(r)'
    <3>1. Good(r)
      BY DEF ServerInv, IInv
    <3>2. Typed(r)' /\ LockHeld(r)' /\ TagHeld(r)'
      BY <1>1, <3>1 DEF Good, Typed, LockHeld, TagHeld, Requested, Working, Checked, Op, Source, Target
    <3>3. NetGrowth(r)' = NetGrowth(r)
      BY <1>1 DEF NetGrowth, Replaces, Op, Source, Target, Body, TreeSize
    <3>4. QuotaHeld(r)'
      BY <1>1, <3>1, <3>3 DEF Good, QuotaHeld, Checked, Growing, Op
    <3>5. QED
      BY <3>2, <3>4 DEF Good
  <2>2. RowsTyped(rows') /\ LocksApart'
    BY <1>1 DEF ServerInv, IInv, LocksApart
  <2>3. QED
    BY <1>1, <1>2, <2>1, <2>2 DEF ServerInv, IInv
<1>4. Types'
  <2>1. \A r \in Req : Sorted(r)' /\ (Working(r)' <=> Working(r))
    BY <1>1 DEF ServerInv, Types, Sorted, Past, Working, Op, Source, Target
  <2>2. issued' \in 0..MaxOps
    BY <1>2
  <2>3. IsTree(fs')
    BY <1>1 DEF ServerInv, Types
  <2>4. QED
    BY <1>1, <2>1, <2>2, <2>3 DEF ServerInv, Types
<1>5. SInv'
  <2>1. Stopped => Stopped'
    BY <1>1 DEF Stopped
  <2>2. Safe => Safe'
    <3> SUFFICES ASSUME Safe PROVE Safe'
      OBVIOUS
    <3>1. Numbers'
      <4>1. ASSUME NEW r \in Req, req[r].pc # "idle" PROVE req[r].num <= issued'
        <5>1. req[r].num \in Nat /\ req[r].num <= issued
          BY <4>1 DEF Safe, Numbers, ServerInv, IInv, Good, Typed, Requested
        <5>2. QED
          BY <1>2, <5>1
      <4>2. QED
        BY <1>1, <4>1 DEF Safe, Numbers
    <3>2. Backed'
      BY <1>1 DEF Safe, Backed, At, Spot, Aside, MovedOver, Concerns, Working, Backup, Source, Target, Op
    <3>3. \A r \in Req : Fit(r)'
      BY <1>1 DEF Safe, At, Aside, Fit, Past, DiskFits, RowsFit, Made, Taken, Backup, Body, Source, Target, Op
    <3>4. TmpTrue' /\ \A r \in Req : req'[r].alive
      BY <1>1 DEF Safe, TmpTrue
    <3>5. QED
      BY <3>1, <3>2, <3>3, <3>4 DEF Safe
  <2>3. QED
    BY <1>1, <2>1, <2>2 DEF ServerInv, SInv, SessionsKept
<1>6. NInv'
  <2>1. Listed' = Listed
    BY <1>1, ListedStays
  <2>2. AllThere => Told' /\ Owned'
    BY <1>1 DEF AllThere, Told, Tells, Arrived, WholeTree, Concerns, Owned, Owns, Working,
       Backup, Source, Target, Op
  <2>3. AllThere => AllReady'
    BY <1>1 DEF AllThere, AllReady, Ready, Past, Tmp, Source, Op
  <2>4. QED
    BY <1>1, <2>1, <2>2, <2>3 DEF ServerInv, NInv, AllThere
<1>7. IdInv'
  BY <1>1 DEF ServerInv, IdInv, SessionsKept, Identified
<1>8. SizesAddUp'
  BY <1>1 DEF ServerInv, SizesAddUp, SizesAlwaysAddUp
<1>9. QED
  BY <1>3, <1>4, <1>5, <1>6, <1>7, <1>8 DEF ServerInv

\* Every step does, the server's and the clients'.
LEMMA ReadsKeepServer ==
    ASSUME ServerInv, [ReadsNext]_allVars
    PROVE  ServerInv' /\ ([Next]_vars \/ ReadStep)
<1>1. [Next]_vars \/ ReadStep
  BY ReadsSteps DEF ServerInv
<1>2. CASE [Next]_vars
  <2>1. IInv' /\ Types'
    BY <1>2, NextKeepsInv, NextKeepsTypes DEF ServerInv
  <2>2. SInv' /\ NInv' /\ IdInv' /\ SizesAddUp'
    BY <1>2, <2>1, NextKeepsSafe, NextKeepsThere, NextKeepsIds, NextKeepsSizes DEF ServerInv
  <2>3. QED
    BY <1>1, <2>1, <2>2 DEF ServerInv
<1>3. CASE ReadStep
  BY <1>1, <1>3, ReadKeepsServer
<1>4. QED
  BY <1>1, <1>2, <1>3

\* A run with clients starts like one without.
LEMMA InitServer == Init => ServerInv
<1>1. Init => SInv
  BY InitSafe
<1>2. Init => SizesAddUp
  BY InitSized DEF SizesAddUp, SizesAlwaysAddUp, Sized
<1>3. QED
  BY InitInv, InitTypes, InitThere, InitIdentified, <1>1, <1>2 DEF ServerInv

\* What the proofs above know of the server stays true while clients read.
THEOREM ServerKept == ReadsSpec => []ServerInv
<1>1. ReadsInit => ServerInv
  BY InitServer DEF ReadsInit
<1>2. ServerInv /\ [ReadsNext]_allVars => ServerInv'
  BY ReadsKeepServer
<1>3. QED
  BY <1>1, <1>2, PTL DEF ReadsSpec

\* The invariants of the file tree hold as well when GET, HEAD and PROPFIND run between the
\* steps of the requests that change it: the reads take no lock and need none for this.
THEOREM InvariantsBesideReads ==
    ReadsSpec => /\ []TypeOK /\ []SizesAddUp /\ []RowsBacked
                 /\ []CommittedContentKept /\ []DiskListed
<1>1. ServerInv => TypeOK /\ SizesAddUp /\ RowsBacked /\ CommittedContentKept /\ DiskListed
  BY TypesSay, BackedWhereIdle, ContentKept, ListedWhereIdle DEF ServerInv
<1>2. QED
  BY ServerKept, <1>1, PTL

\* Every step keeps what the server promises of its steps.
LEMMA ReadsKeepPromises ==
    ASSUME ServerInv, ServerInv', DInv, DInv', [ReadsNext]_allVars
    PROVE  /\ [QuotaKept]_vars /\ [UpdatesKept]_vars /\ [AllFollow]_vars /\ [NamesKept]_rows
           /\ [faults = {} => Abstract!Next]_Listed
<1>1. [Next]_vars \/ ReadStep
  BY ReadsKeepServer
<1>2. CASE [Next]_vars
  <2>1. [QuotaKept]_vars /\ [UpdatesKept]_vars
    BY <1>2, NextKeepsQuota, NextKeepsUpdates DEF ServerInv
  <2>2. [AllFollow]_vars
    BY <1>2, NextFollows DEF ServerInv
  <2>3. [NamesKept]_rows
    BY <1>2, NextKeepsNames DEF ServerInv
  <2>4. [faults = {} => Abstract!Next]_Listed
    BY <1>2, NextImplements DEF ServerInv
  <2>5. QED
    BY <2>1, <2>2, <2>3, <2>4
<1>3. CASE ReadStep
  <2>1. rows' = rows /\ req' = req /\ serial' = serial
    BY <1>3 DEF ReadStep
  <2>2. QuotaKept /\ UpdatesKept
    BY <2>1 DEF QuotaKept, UpdatesKept
  <2>3. AllFollow
    BY <2>1 DEF AllFollow
  <2>4. Listed' = Listed
    BY <2>1, ListedStays
  <2>5. QED
    BY <2>1, <2>2, <2>3, <2>4
<1>4. QED
  BY <1>1, <1>2, <1>3

\* So do the promises about its steps: no step overdraws a quota, loses an update or leaves
\* properties behind, an ETag names one state, and the server implements the abstract file tree.
THEOREM StepsBesideReads ==
    ReadsSpec => /\ QuotaRespected /\ NoLostUpdate /\ PropertiesFollow
                 /\ ETagsNameStates /\ ImplementsFileTree
<1>1. /\ ServerInv /\ ServerInv' /\ DInv /\ DInv' /\ [ReadsNext]_allVars
         => /\ [QuotaKept]_vars /\ [UpdatesKept]_vars /\ [AllFollow]_vars /\ [NamesKept]_rows
            /\ [faults = {} => Abstract!Next]_Listed
  BY ReadsKeepPromises
<1>2. ServerInv => DInv
  BY DirsHeld DEF ServerInv
<1>3. /\ [][QuotaKept]_vars <=> QuotaRespected
      /\ [][UpdatesKept]_vars <=> NoLostUpdate
  BY DEF QuotaKept, QuotaRespected, UpdatesKept, NoLostUpdate
<1>4. [][AllFollow]_vars <=> PropertiesFollow
  BY DEF AllFollow, PropertiesFollow
<1>5. [][NamesKept]_rows <=> ETagsNameStates
  BY DEF NamesKept, ETagsNameStates
<1>6. ReadsInit => Abstract!Init
  BY InitAbstract DEF ReadsInit
<1>7. QED
  BY ServerKept, <1>1, <1>2, <1>3, <1>4, <1>5, <1>6, PTL DEF ReadsSpec, ImplementsFileTree

-----------------------------------------------------------------------------
(* What a client may believe.                                              *)

\* A request at work has changed what is at q and has not yet told the rows.
Pending(q) ==
    \E r \in Req : req[r].pc = "committing" /\ req[r].saved /\ Within(Target(r), q)

\* e is an ETag some row has had: its id is not one to come, and the row with that id, if it
\* is still there, is at this version or a later one.
Seen(e) ==
    /\ e[1][1] \in 0..serial /\ e[2] \in Nat
    /\ \A q \in DOMAIN rows : rows[q].id = e[1] => rows[q].ver >= e[2]

\* Two handlers at work have nothing to do with the same path.
LEMMA WorkersApart ==
    ASSUME IInv, Safe, NEW r \in Req, Working(r), NEW x \in Req \ {r}, Working(x),
           NEW k \in Seq(Nat), Concerns(r, k)
    PROVE  ~ Concerns(x, k)
<1>1. /\ inside[r] = {Source(r), Target(r)} /\ inside[x] = {Source(x), Target(x)}
      /\ ~ SetsOverlap(inside[r], inside[x]) /\ Requested(r) /\ Requested(x)
  BY DEF Safe, IInv, LocksApart, Good, Typed, LockHeld, Working
<1>2. /\ Source(r) \in Seq(Nat) /\ Target(r) \in Seq(Nat)
      /\ Source(x) \in Seq(Nat) /\ Target(x) \in Seq(Nat)
  BY <1>1, OpPaths
<1>3. ASSUME NEW y \in {Source(r), Target(r)}, Within(y, k),
             NEW z \in {Source(x), Target(x)}, Within(z, k)
      PROVE  FALSE
  <2>1. Overlap(y, z)
    BY <1>2, <1>3, WithinOrder
  <2>2. QED
    BY <1>1, <1>3, <2>1 DEF SetsOverlap
<1>4. QED
  BY <1>3 DEF Concerns

\* The ETag of a row is one that has been seen.
LEMMA SeenNow ==
    ASSUME IInv, Identified, NEW p \in DOMAIN rows
    PROVE  Seen(ETag(rows[p]))
<1>1. rows[p].id[1] \in 0..serial /\ rows[p].ver \in Nat /\ rows[p].ver >= rows[p].ver
  BY DEF Identified, IInv, RowsTyped, IsRow
<1>2. \A q \in DOMAIN rows : rows[q].id = rows[p].id => q = p
  BY DEF Identified
<1>3. QED
  BY <1>1, <1>2 DEF Seen, ETag

\* The row with a seen id after a transaction, and where it was before.
LEMMA SeenRow ==
    ASSUME IInv, IInv', Types, NEW r \in Req, Safe, Commit(r), Op(r).kind # "PROPPATCH",
           NEW e, Seen(e), NEW q \in DOMAIN rows', rows'[q].id = e[1]
    PROVE  /\ Old(r, q) \in DOMAIN rows /\ rows[Old(r, q)].id = e[1]
           /\ rows'[q].ver >= e[2]
           /\ ETag(rows'[q]) = e => ETag(rows[Old(r, q)]) = e
<1>1. ~ Fresh(rows', q)
  <2>1. serial \in Nat
    BY DEF Types
  <2>2. e[1][1] # serial + 1
    BY <2>1 DEF Seen
  <2>3. QED
    BY <2>2 DEF Fresh
<1> DEFINE p == Old(r, q)
<1>2. p \in DOMAIN rows /\ rows'[q].id = rows[p].id /\ rows'[q].ver >= rows[p].ver
  BY <1>1, Origin
<1> HIDE DEF p
<1>3. rows[p].ver >= e[2] /\ e[2] \in Nat /\ rows[p].ver \in Nat /\ rows'[q].ver \in Nat
  BY <1>2 DEF Seen, IInv, RowsTyped, IsRow
<1>4. rows'[q].ver >= e[2] /\ (rows'[q].ver = e[2] => rows[p].ver = e[2])
  BY <1>2, <1>3
<1>5. ASSUME ETag(rows'[q]) = e PROVE ETag(rows[p]) = e
  <2>1. e = <<rows'[q].id, rows'[q].ver>>
    BY <1>5 DEF ETag
  <2>2. rows[p].id = rows'[q].id /\ rows[p].ver = rows'[q].ver
    BY <1>2, <1>4, <2>1
  <2>3. QED
    BY <2>1, <2>2 DEF ETag
<1>6. QED
  BY <1>2, <1>4, <1>5 DEF p

\* Which transaction changes the rows, if any.
LEMMA RowsCommit ==
    ASSUME ServerInv, SessionsKept, [Next]_vars \/ ReadStep
    PROVE  \/ /\ rows' = rows
              /\ serial' \in Nat /\ serial' >= serial
              /\ \A r \in Req : Commit(r) => Op(r).kind = "PROPPATCH"
           \/ /\ [Next]_vars /\ Safe
              /\ serial' = serial + 1
              /\ \E r \in Req : Commit(r) /\ Op(r).kind # "PROPPATCH"
<1>1. serial \in Nat
  BY DEF ServerInv, Types
<1>2. CASE ReadStep
  <2>1. rows' = rows /\ serial' = serial
    BY <1>2 DEF ReadStep
  <2>2. \A r \in Req : ~ Commit(r)
    <3> SUFFICES ASSUME NEW r \in Req, Commit(r) PROVE FALSE
      OBVIOUS
    <3>1. req' = req /\ req[r].pc = "committing"
      BY <1>2 DEF ReadStep, Commit, Apply
    <3>2. req'[r].pc = "cleaning"
      BY StepFields DEF ServerInv
    <3>3. QED
      BY <3>1, <3>2
  <2>3. QED
    BY <1>1, <2>1, <2>2
<1>3. CASE [Next]_vars
  <2>1. CASE \E r \in Req : Commit(r) /\ Op(r).kind # "PROPPATCH"
    <3>1. PICK r \in Req : Commit(r) /\ Op(r).kind # "PROPPATCH"
      BY <2>1
    <3>2. serial' = serial + 1
      BY <3>1 DEF Commit, Apply
    <3>3. Safe
      BY <1>1, <1>3, <3>2, OneCommits DEF ServerInv
    <3>4. QED
      BY <1>3, <2>1, <3>2, <3>3
  <2>2. CASE \A r \in Req : Commit(r) => Op(r).kind = "PROPPATCH"
    <3>1. rows' = rows
      <4> SUFFICES ASSUME rows' # rows PROVE FALSE
        OBVIOUS
      <4>1. PICK r \in Req : Commit(r)
        BY <1>3, OneCommits DEF ServerInv
      <4>2. Op(r).kind = "PROPPATCH"
        BY <2>2, <4>1
      <4>3. QED
        BY <4>1, <4>2 DEF Commit, Apply, NewRows
    <3>2. serial' = serial \/ serial' = serial + 1
      BY <1>3, RowsChange DEF Apply
    <3>3. QED
      BY <1>1, <2>2, <3>1, <3>2
  <2>3. QED
    BY <2>1, <2>2
<1>4. QED
  BY <1>2, <1>3

\* A seen ETag stays one.
LEMMA StepSeen ==
    ASSUME ServerInv, ServerInv', SessionsKept, [Next]_vars \/ ReadStep, NEW e, Seen(e)
    PROVE  Seen(e)'
<1>1. serial \in Nat
  BY DEF ServerInv, Types
<1>2. CASE rows' = rows /\ serial' \in Nat /\ serial' >= serial
  <2>1. \A n \in 0..serial : n \in 0..serial'
    BY <1>1, <1>2
  <2>2. QED
    BY <1>2, <2>1 DEF Seen
<1>3. CASE Safe /\ serial' = serial + 1 /\ \E r \in Req : Commit(r) /\ Op(r).kind # "PROPPATCH"
  <2>1. PICK r \in Req : Commit(r) /\ Op(r).kind # "PROPPATCH"
    BY <1>3
  <2>2. \A n \in 0..serial : n \in 0..serial'
    BY <1>1, <1>3
  <2>3. \A q \in DOMAIN rows' : rows'[q].id = e[1] => rows'[q].ver >= e[2]
    BY <1>3, <2>1, SeenRow DEF ServerInv
  <2>4. QED
    BY <2>2, <2>3 DEF Seen
<1>4. QED
  BY <1>2, <1>3, RowsCommit

\* Of the rows at and below its target a transaction leaves none with its ETag there.
LEMMA TargetRenewed ==
    ASSUME IInv, IInv', Types, NEW r \in Req, Safe, Commit(r), Op(r).kind # "PROPPATCH", Identified,
           NEW q \in DOMAIN rows', Old(r, q) \in DOMAIN rows, ETag(rows'[q]) = ETag(rows[Old(r, q)])
    PROVE  ~ Within(Target(r), Old(r, q))
<1> DEFINE s == Source(r)
           d == Target(r)
<1> SUFFICES ASSUME Within(d, Old(r, q)) PROVE FALSE
  OBVIOUS
<1>1. /\ Changes(r, rows') /\ Op(r).kind \in Kinds \ {"PROPPATCH"}
      /\ s \in Seq(Nat) /\ d \in Seq(Nat) /\ q \in Seq(Nat)
      /\ Op(r).kind = "MOVE" => Apart(s, d)
  BY CommitChanges DEF IInv, RowsTyped
<1>2. rows'[q].id = rows[Old(r, q)].id /\ rows'[q].ver = rows[Old(r, q)].ver
  BY DEF ETag
<1>3. ~ Fresh(rows', q)
  <2>1. rows[Old(r, q)].id[1] # serial + 1
    BY DEF Identified, Types
  <2>2. QED
    BY <1>2, <2>1 DEF Fresh
<1>4. CASE Op(r).kind = "MOVE" /\ Within(d, q)
  <2>1. PICK x \in Seq(Nat) : q = d \o x
    BY <1>1, <1>4, WhatIsLeft
  <2>2. Old(r, q) = s \o x
    <3>1. Suffix(q, d) = x
      BY <1>1, <2>1, Followed
    <3>2. QED
      BY <1>4, <3>1 DEF Old
  <2>3. s \o x \in Seq(Nat) /\ Within(s, s \o x)
    BY <1>1, <2>1, Followed
  <2>4. QED
    BY <1>1, <1>4, <2>2, <2>3 DEF Apart
<1>5. CASE ~ (Op(r).kind = "MOVE" /\ Within(d, q))
  <2>1. Old(r, q) = q
    BY <1>5 DEF Old
  <2>2. Within(d, q) /\ Op(r).kind # "MOVE"
    BY <1>5, <2>1
  <2>3. CASE Op(r).kind = "PUT"
    <3>1. q = d /\ d \in DOMAIN rows /\ rows'[d].ver > rows[d].ver
      BY <1>1, <2>1, <2>2, <2>3 DEF Changes, Leaves
    <3>2. rows[d].ver \in Nat
      BY <3>1 DEF IInv, RowsTyped, IsRow
    <3>3. QED
      BY <1>2, <2>1, <3>1, <3>2
  <2>4. CASE Op(r).kind \in {"MKCOL", "DELETE", "COPY", "COPY0"}
    BY <1>1, <1>3, <2>2, <2>4 DEF Changes, Leaves
  <2>5. QED
    BY <1>1, <2>2, <2>3, <2>4 DEF Kinds
<1>6. QED
  BY <1>4, <1>5

\* Without faults, what a request is about to commit stays so until it commits.
LEMMA StaysCommitting ==
    ASSUME ServerInv, faults = {}, [Next]_vars \/ ReadStep, NEW x \in Req,
           req[x].pc = "committing", Op(x).kind # "PROPPATCH", ~ Commit(x)
    PROVE  req'[x] = req[x]
<1>1. Safe /\ AllThere /\ IInv /\ Types
  BY DEF ServerInv, SInv, NInv, AllThere, SessionsKept
<1>2. CASE req' = req
  BY <1>2
<1>3. CASE Step
  <2>1. PICK r \in Req :
              \/ \E o \in Ops : Begin(r, o)
              \/ Enter(r) \/ Check(r) \/ Refuse(r) \/ Save(r) \/ Place(r) \/ Commit(r) \/ Clean(r)
              \/ Fail(r) \/ Undo(r)
    BY <1>3, NoFaultSteps
  <2>2. Others(r)
    BY <1>1, <2>1, BeginFields, EndFields, StepFields
  <2>3. r # x
    <3> SUFFICES ASSUME r = x PROVE FALSE
      OBVIOUS
    <3>1. Fail(x)
      <4>1. \A o \in Ops : ~ Begin(x, o)
        BY DEF Begin
      <4>2. ~ Enter(x) /\ ~ Check(x) /\ ~ Save(x) /\ ~ Place(x) /\ ~ Clean(x) /\ ~ Undo(x)
        BY DEF Enter, Check, Save, Place, Clean, Undo
      <4>3. ~ Refuse(x)
        BY DEF Refuse
      <4>4. QED
        BY <2>1, <4>1, <4>2, <4>3
    <3>2. QED
      BY <1>1, <3>1, OnlyPropFails
  <2>4. QED
    BY <2>2, <2>3 DEF Others
<1>4. QED
  BY <1>2, <1>3 DEF Next, Done, vars, ReadStep

\* A row that still has a seen ETag was there before, with the same content and the same below
\* it; and where a request was about to commit, it still is.
LEMMA StepNames ==
    ASSUME ServerInv, ServerInv', DInv, DInv', SessionsKept, [Next]_vars \/ ReadStep,
           NEW e, Seen(e), NEW q \in DOMAIN rows', ETag(rows'[q]) = e
    PROVE  \E p \in DOMAIN rows :
              /\ ETag(rows[p]) = e /\ rows[p].data = rows'[q].data
              /\ Listing(rows, p) = Listing(rows', q)
              /\ faults = {} /\ Pending(p) => Pending(q)'
<1>1. ASSUME NEW x \in Req, faults = {}, req[x].pc = "committing", req[x].saved, ~ Commit(x)
      PROVE  req'[x] = req[x]
  <2>1. Op(x).kind # "PROPPATCH"
    BY <1>1 DEF ServerInv, Types, Sorted
  <2>2. QED
    BY <1>1, <2>1, StaysCommitting
<1>2. ASSUME NEW x \in Req, req'[x] = req[x], req[x].pc = "committing", req[x].saved, Within(Target(x), q)
      PROVE  Pending(q)'
  BY <1>2 DEF Pending, Target, Op
<1>3. CASE rows' = rows /\ \A r \in Req : Commit(r) => Op(r).kind = "PROPPATCH"
  <2>1. ASSUME faults = {}, Pending(q) PROVE Pending(q)'
    <3>1. PICK x \in Req : req[x].pc = "committing" /\ req[x].saved /\ Within(Target(x), q)
      BY <2>1 DEF Pending
    <3>2. ~ Commit(x)
      BY <1>3, <3>1 DEF ServerInv, Types, Sorted
    <3>3. QED
      BY <1>1, <1>2, <2>1, <3>1, <3>2
  <2>2. QED
    BY <1>3, <2>1
<1>4. CASE [Next]_vars /\ Safe /\ \E r \in Req : Commit(r) /\ Op(r).kind # "PROPPATCH"
  <2>1. PICK r \in Req : Commit(r) /\ Op(r).kind # "PROPPATCH"
    BY <1>4
  <2> DEFINE p == Old(r, q)
  <2>2. /\ IInv /\ IInv' /\ Types /\ Identified
    BY DEF ServerInv, IdInv
  <2>3. DirsHold /\ DirsHold'
    <3>1. ~ crashed /\ ~ crashed' /\ faults' = faults
      <4>1. serial' # serial
        BY <2>1, <2>2 DEF Commit, Apply, Types
      <4>2. QED
        BY <1>4, <4>1, OneCommits DEF ServerInv
    <3>2. QED
      BY <3>1 DEF DInv, SessionsKept
  <2>4. rows'[q].id = e[1]
    BY DEF ETag
  <2>5. p \in DOMAIN rows /\ ETag(rows[p]) = e
    BY <1>4, <2>1, <2>2, <2>4, SeenRow
  <2>6. rows[p].data = rows'[q].data /\ Listing(rows, p) = Listing(rows', q)
    BY <1>4, <2>1, <2>2, <2>3, <2>5, CommitETag
  <2>7. ~ Within(Target(r), p)
    BY <1>4, <2>1, <2>2, <2>5, TargetRenewed
  <2>8. ASSUME faults = {}, Pending(p) PROVE Pending(q)'
    <3>1. PICK x \in Req : req[x].pc = "committing" /\ req[x].saved /\ Within(Target(x), p)
      BY <2>8 DEF Pending
    <3>2. x # r
      BY <2>7, <3>1
    <3>3. req'[x] = req[x]
      BY <2>1, <2>2, <3>2, StepFields DEF Others
    <3>4. p = q
      <4> SUFFICES ASSUME p # q PROVE FALSE
        OBVIOUS
      <4>1. Within(Target(r), q) /\ p = Source(r) \o Suffix(q, Target(r))
        BY DEF Old
      <4>2. Source(r) \in Seq(Nat) /\ Target(r) \in Seq(Nat) /\ q \in Seq(Nat)
        BY <1>4, <2>1, <2>2, CommitChanges DEF IInv, RowsTyped
      <4>3. p \in Seq(Nat) /\ Within(Source(r), p)
        BY <4>1, <4>2, WhatIsLeft, Followed
      <4>4. Working(r) /\ Working(x) /\ Concerns(r, p) /\ Concerns(x, p)
        BY <2>1, <3>1, <4>3 DEF Working, Concerns, Commit, Apply
      <4>5. QED
        BY <1>4, <2>2, <3>2, <4>3, <4>4, WorkersApart
    <3>5. QED
      BY <1>2, <3>1, <3>3, <3>4
  <2>9. QED
    BY <2>5, <2>6, <2>8
<1>5. QED
  BY <1>3, <1>4, RowsCommit

\* What a client has learnt is right for every row that still has its ETag, for a download but
\* where a request is about to commit.
Trusted(m) ==
    /\ Seen(m.etag)
    /\ \A q \in DOMAIN rows : ETag(rows[q]) = m.etag =>
          /\ m.how = "PROPFIND" => m.listing = Listing(rows, q)
          /\ m.how = "GET" /\ faults = {} => m.data = rows[q].data \/ Pending(q)

\* It stays right.
LEMMA StepTrusted ==
    ASSUME ServerInv, ServerInv', DInv, DInv', SessionsKept, [Next]_vars \/ ReadStep, faults' = faults,
           NEW m, Trusted(m)
    PROVE  Trusted(m)'
<1>1. Seen(m.etag)'
  BY StepSeen DEF Trusted
<1>2. ASSUME NEW q \in DOMAIN rows', ETag(rows'[q]) = m.etag
      PROVE  /\ m.how = "PROPFIND" => m.listing = Listing(rows', q)
             /\ m.how = "GET" /\ faults = {} => m.data = rows'[q].data \/ Pending(q)'
  <2>1. PICK p \in DOMAIN rows :
              /\ ETag(rows[p]) = m.etag /\ rows[p].data = rows'[q].data
              /\ Listing(rows, p) = Listing(rows', q)
              /\ faults = {} /\ Pending(p) => Pending(q)'
    BY <1>2, StepNames DEF Trusted
  <2>2. /\ m.how = "PROPFIND" => m.listing = Listing(rows, p)
        /\ m.how = "GET" /\ faults = {} => m.data = rows[p].data \/ Pending(p)
    BY <2>1 DEF Trusted
  <2>3. QED
    BY <2>1, <2>2
<1>3. QED
  BY <1>1, <1>2 DEF Trusted

\* An answer as the client remembers it.
Answer(p, how, etag, data, listing) ==
    [how |-> how, etag |-> etag, data |-> data, listing |-> listing,
     steady |-> p \in DOMAIN rows /\ rows[p].id = etag[1]]

\* What the clients know is right, and so is the ETag of an answer under way.
ReaderFits(c) ==
    /\ DOMAIN reader[c] = {"pc", "how", "path", "etag", "found"}
    /\ reader[c].pc \in {"serving", "listing"} => Seen(reader[c].etag)
KnownFits(c) == \A p \in DOMAIN known[c] : known[c][p].steady => Trusted(known[c][p])
ClientInv ==
    /\ DOMAIN reader = Client /\ DOMAIN known = Client
    /\ SessionsKept => \A c \in Client : ReaderFits(c) /\ KnownFits(c)

\* A file that is served: what is opened is what the row says, or what a request at work there is
\* about to tell it.
LEMMA ServedContent ==
    ASSUME IInv, Types, Safe, AllThere, NEW p \in DOMAIN rows, p \in DOMAIN fs
    PROVE  fs[p] = rows[p].data \/ Pending(p)
<1>1. p \in Seq(Nat) /\ IsTree(fs) /\ Backed /\ AllReady
  BY DEF IInv, RowsTyped, Types, Safe, AllThere
<1>2. CASE \A r \in Req : ~ (Working(r) /\ Concerns(r, p))
  BY <1>1, <1>2 DEF Backed, At
<1>3. CASE \E r \in Req : Working(r) /\ Concerns(r, p)
  <2>1. PICK r \in Req : Working(r) /\ Concerns(r, p)
    BY <1>3
  <2>2. At(Spot(r, p), rows[p].data)
    BY <1>1, <2>1 DEF Backed
  <2>3. ASSUME NEW z \in Seq(Nat), Within(z, p) PROVE z \in DOMAIN fs
    BY <1>1, <2>3, AboveIsDir DEF Within, IsDir
  <2>4. CASE Aside(r) /\ Within(Target(r), p)
    <3>1. Op(r).kind # "PROPPATCH" /\ Past(r)
      BY <2>4 DEF Aside, Past, Types, Sorted
    <3>2. DiskFits(r) /\ Ready(r) /\ Target(r) \in Seq(Nat)
      BY <1>1, <3>1, PastOp DEF Safe, Fit, AllReady
    <3>3. Target(r) \in DOMAIN fs
      BY <2>3, <2>4, <3>2
    <3>4. req[r].pc = "committing"
      BY <2>4, <3>2, <3>3 DEF DiskFits, Aside, Ready
    <3>5. QED
      BY <2>4, <3>4 DEF Pending, Aside
  <2>5. CASE ~ (Aside(r) /\ Within(Target(r), p)) /\ MovedOver(r) /\ Within(Source(r), p)
    <3>1. Op(r).kind = "MOVE" /\ Past(r) /\ req[r].placed /\ req[r].pc \in {"committing", "undoing"}
      BY <2>5 DEF MovedOver, Past
    <3>2. DiskFits(r) /\ Source(r) \in Seq(Nat)
      BY <1>1, <3>1, PastOp DEF Safe, Fit
    <3>3. Source(r) \notin DOMAIN fs
      BY <3>1, <3>2 DEF DiskFits, Made
    <3>4. QED
      BY <2>3, <2>5, <3>2, <3>3
  <2>6. CASE ~ (Aside(r) /\ Within(Target(r), p)) /\ ~ (MovedOver(r) /\ Within(Source(r), p))
    BY <2>2, <2>6 DEF Spot, At
  <2>7. QED
    BY <2>4, <2>5, <2>6
<1>4. QED
  BY <1>2, <1>3

\* The answer to a GET that ends, and to a PROPFIND and a HEAD.
LEMMA AnswerTrusted ==
    ASSUME ServerInv, SessionsKept, NEW p, NEW how, NEW e, Seen(e), NEW data, NEW listing,
           p \in DOMAIN rows, rows[p].id = e[1],
           how = "PROPFIND" => listing = Listing(rows, p),
           how = "GET" => p \in DOMAIN fs /\ data = fs[p]
    PROVE  Trusted(Answer(p, how, e, data, listing))
<1> DEFINE m == Answer(p, how, e, data, listing)
<1>1. m.how = how /\ m.etag = e /\ m.data = data /\ m.listing = listing
  BY DEF Answer
<1> HIDE DEF m
<1>2. Identified
  BY DEF ServerInv, IdInv
<1>3. ASSUME NEW q \in DOMAIN rows, ETag(rows[q]) = e
      PROVE  q = p
  <2>1. rows[q].id = e[1]
    BY <1>3 DEF ETag
  <2>2. QED
    BY <1>2, <2>1 DEF Identified
<1>4. ASSUME how = "GET", faults = {} PROVE data = rows[p].data \/ Pending(p)
  <2>1. Safe /\ AllThere
    BY <1>4 DEF ServerInv, SInv, NInv, AllThere
  <2>2. QED
    BY <1>4, <2>1, ServedContent DEF ServerInv
<1>5. Trusted(m)
  BY <1>1, <1>3, <1>4 DEF Trusted
<1>6. QED
  BY <1>5 DEF m

\* What Learn leaves.
LEMMA LearnKnown ==
    ASSUME NEW c \in Client, DOMAIN known = Client, NEW p, NEW how, NEW e, NEW data, NEW listing,
           Learn(c, p, how, e, data, listing)
    PROVE  /\ DOMAIN known' = Client
           /\ \A x \in Client \ {c} : known'[x] = known[x]
           /\ \A q \in DOMAIN known'[c] : \/ q = p /\ known'[c][q] = Answer(p, how, e, data, listing)
                                          \/ q \in DOMAIN known[c] /\ known'[c][q] = known[c][q]
<1> DEFINE m == Answer(p, how, e, data, listing)
           K == [q \in DOMAIN known[c] \cup {p} |-> IF q = p THEN m ELSE known[c][q]]
<1>1. known' = [known EXCEPT ![c] = K]
  BY DEF Learn, Answer
<1> HIDE DEF m
<1>2. known'[c] = K
  BY <1>1
<1>3. \A q \in DOMAIN K : \/ q = p /\ K[q] = m
                          \/ q \in DOMAIN known[c] /\ K[q] = known[c][q]
  OBVIOUS
<1> HIDE DEF K
<1>4. QED
  BY <1>1, <1>2, <1>3 DEF m

\* A client that is answered goes on to know what is right.
LEMMA LearnFits ==
    ASSUME ServerInv, ServerInv', DInv, DInv', SessionsKept, ReadStep, NEW c \in Client,
           DOMAIN known = Client, \A x \in Client : KnownFits(x),
           NEW p, NEW how, NEW e, Seen(e), NEW data, NEW listing,
           how = "PROPFIND" => listing = Listing(rows, p),
           how = "GET" => p \in DOMAIN fs /\ data = fs[p],
           Learn(c, p, how, e, data, listing)
    PROVE  DOMAIN known' = Client /\ \A x \in Client : KnownFits(x)'
<1> DEFINE a == Answer(p, how, e, data, listing)
<1>1. faults' = faults
  BY DEF ReadStep
<1>2. ASSUME NEW x \in Client, NEW q \in DOMAIN known[x], NEW m, m = known[x][q], m.steady
      PROVE  Trusted(m)'
  <2>1. Trusted(m)
    BY <1>2 DEF KnownFits
  <2>2. QED
    BY <1>1, <2>1, StepTrusted
<1>3. ASSUME NEW m, m = a, m.steady PROVE Trusted(m)'
  <2>1. p \in DOMAIN rows /\ rows[p].id = e[1]
    BY <1>3 DEF Answer
  <2>2. Trusted(m)
    BY <1>3, <2>1, AnswerTrusted
  <2>3. QED
    BY <1>1, <2>2, StepTrusted
<1> HIDE DEF a
<1>4. /\ DOMAIN known' = Client
      /\ \A x \in Client \ {c} : known'[x] = known[x]
      /\ \A q \in DOMAIN known'[c] : \/ q = p /\ known'[c][q] = a
                                     \/ q \in DOMAIN known[c] /\ known'[c][q] = known[c][q]
  BY LearnKnown DEF a
<1>5. ASSUME NEW x \in Client, NEW q \in DOMAIN known'[x], NEW m, m = known'[x][q], m.steady
      PROVE  Trusted(m)'
  <2>1. CASE x # c
    BY <1>2, <1>4, <1>5, <2>1
  <2>2. CASE x = c
    BY <1>2, <1>3, <1>4, <1>5, <2>2
  <2>3. QED
    BY <2>1, <2>2
<1>6. ASSUME NEW x \in Client PROVE KnownFits(x)'
  <2> SUFFICES ASSUME NEW q \in DOMAIN known'[x], known'[x][q].steady
               PROVE  Trusted(known[x][q])'
    BY DEF KnownFits
  <2>1. PICK m : m = known'[x][q]
    OBVIOUS
  <2>2. Trusted(m)'
    BY <1>5, <2>1
  <2>3. QED
    BY <2>1, <2>2 DEF Trusted
<1>7. QED
  BY <1>4, <1>6

\* What a reader does not forget.
LEMMA ReaderStays ==
    ASSUME ServerInv, ServerInv', SessionsKept, [Next]_vars \/ ReadStep,
           NEW c \in Client, ReaderFits(c), reader'[c] = reader[c]
    PROVE  ReaderFits(c)'
<1>1. PICK e : e = reader[c].etag
  OBVIOUS
<1>2. Seen(e) => Seen(e)'
  BY StepSeen
<1>3. reader'[c].etag = e /\ reader'[c].pc = reader[c].pc /\ DOMAIN reader'[c] = DOMAIN reader[c]
  BY <1>1
<1>4. reader'[c].pc \in {"serving", "listing"} => Seen(reader[c].etag)'
  <2>1. reader[c].pc \in {"serving", "listing"} => Seen(e)
    BY <1>1 DEF ReaderFits
  <2>2. Seen(e)' => Seen(reader[c].etag)'
    BY <1>3 DEF Seen
  <2>3. QED
    BY <1>2, <1>3, <2>1, <2>2
<1>5. QED
  BY <1>3, <1>4 DEF ReaderFits

\* A client without a read has nothing to keep.
LEMMA NoReadFits ==
    ASSUME NEW c \in Client, reader'[c] = NoRead
    PROVE  ReaderFits(c)'
BY DEF ReaderFits, NoRead

\* A read of client c: what it does to c itself is right if it takes up no ETag or the one a row has.
LEMMA ReadFits ==
    ASSUME ServerInv, ServerInv', DInv, DInv', SessionsKept, ReadStep, NEW c \in Client,
           DOMAIN reader = Client, DOMAIN known = Client,
           \A x \in Client : ReaderFits(x) /\ KnownFits(x),
           \/ \E p \in Readable : ListSelf(c, p) \/ \E how \in {"GET", "HEAD"} : StatFile(c, p, how)
           \/ ReadRow(c) \/ Serve(c) \/ Miss(c) \/ ListBelow(c)
    PROVE  /\ DOMAIN reader' = Client /\ DOMAIN known' = Client
           /\ \A x \in Client : ReaderFits(x)' /\ KnownFits(x)'
<1> DEFINE p == reader[c].path
<1>1. Identified /\ rows' = rows /\ IInv /\ Types
  BY DEF ServerInv, IdInv, ReadStep
<1>2. ASSUME NEW v, reader' = [reader EXCEPT ![c] = v]
      PROVE  DOMAIN reader' = Client /\ reader'[c] = v /\ \A x \in Client \ {c} : reader'[x] = reader[x]
  BY <1>2
<1>3. ASSUME NEW x \in Client, reader'[x] = reader[x] PROVE ReaderFits(x)'
  BY <1>3, ReaderStays
<1>4. ASSUME reader' = [reader EXCEPT ![c] = NoRead]
      PROVE  DOMAIN reader' = Client /\ \A x \in Client : ReaderFits(x)'
  BY <1>2, <1>3, <1>4, NoReadFits
<1>5. ASSUME known' = known PROVE DOMAIN known' = Client /\ \A x \in Client : KnownFits(x)'
  <2>1. ASSUME NEW x \in Client, NEW q \in DOMAIN known'[x], known'[x][q].steady
        PROVE  Trusted(known[x][q])'
    <3>1. PICK m : m = known[x][q]
      OBVIOUS
    <3>2. Trusted(m)
      BY <1>5, <2>1, <3>1 DEF KnownFits
    <3>3. Trusted(m)'
      BY <3>2, StepTrusted DEF ReadStep
    <3>4. QED
      BY <1>5, <3>1, <3>3 DEF Trusted
  <2>2. QED
    BY <1>5, <2>1 DEF KnownFits
<1>6. \A q \in DOMAIN rows : Seen(ETag(rows[q]))
  BY <1>1, SeenNow
<1>7. ASSUME NEW e, Seen(e), NEW v, reader'[c] = v, v.etag = e,
             DOMAIN v = {"pc", "how", "path", "etag", "found"}
      PROVE  ReaderFits(c)'
  <2>1. Seen(e)'
    BY <1>7, StepSeen
  <2>2. Seen(reader[c].etag)'
    BY <1>7, <2>1 DEF Seen
  <2>3. QED
    BY <1>7, <2>2 DEF ReaderFits
<1>8. ASSUME NEW q \in Readable, ListSelf(c, q)
      PROVE  /\ DOMAIN reader' = Client /\ \A x \in Client : ReaderFits(x)' /\ known' = known
  <2> DEFINE v == [pc |-> "listing", how |-> "PROPFIND", path |-> q, etag |-> ETag(rows[q]), found |-> Dir]
  <2>1. q \in DOMAIN rows /\ reader' = [reader EXCEPT ![c] = v] /\ known' = known
    BY <1>8 DEF ListSelf
  <2>2. v.etag = ETag(rows[q]) /\ DOMAIN v = {"pc", "how", "path", "etag", "found"}
    OBVIOUS
  <2> HIDE DEF v
  <2>3. DOMAIN reader' = Client /\ reader'[c] = v /\ \A x \in Client \ {c} : reader'[x] = reader[x]
    BY <2>1
  <2>4. ReaderFits(c)'
    BY <1>6, <1>7, <2>1, <2>2, <2>3
  <2>5. QED
    BY <1>3, <2>1, <2>3, <2>4
<1>9. ASSUME NEW q \in Readable, NEW how \in {"GET", "HEAD"}, StatFile(c, q, how)
      PROVE  /\ DOMAIN reader' = Client /\ \A x \in Client : ReaderFits(x)' /\ known' = known
  <2> DEFINE v == [pc |-> "statted", how |-> how, path |-> q, etag |-> NoETag, found |-> fs[q]]
  <2>1. reader' = [reader EXCEPT ![c] = v] /\ known' = known
    BY <1>9 DEF StatFile
  <2>2. v.pc = "statted" /\ DOMAIN v = {"pc", "how", "path", "etag", "found"}
    OBVIOUS
  <2> HIDE DEF v
  <2>3. DOMAIN reader' = Client /\ reader'[c] = v /\ \A x \in Client \ {c} : reader'[x] = reader[x]
    BY <2>1
  <2>4. ReaderFits(c)'
    BY <2>2, <2>3 DEF ReaderFits
  <2>5. QED
    BY <1>3, <2>1, <2>3, <2>4
<1>10. CASE ReadRow(c) /\ reader[c].how = "HEAD"
  <2>1. /\ p \in DOMAIN rows /\ Learn(c, p, "HEAD", ETag(rows[p]), reader[c].found, {})
        /\ reader' = [reader EXCEPT ![c] = NoRead]
    BY <1>10 DEF ReadRow
  <2>2. PICK e : e = ETag(rows[p])
    OBVIOUS
  <2>3. PICK data : data = reader[c].found
    OBVIOUS
  <2>4. PICK a : a = p
    OBVIOUS
  <2>5. Seen(e) /\ Learn(c, a, "HEAD", e, data, {})
    BY <1>6, <2>1, <2>2, <2>3, <2>4
  <2>6. DOMAIN known' = Client /\ \A x \in Client : KnownFits(x)'
    BY <2>5, LearnFits
  <2>7. QED
    BY <1>4, <2>1, <2>6
<1>11. CASE ReadRow(c) /\ reader[c].how # "HEAD"
  <2> DEFINE v == [reader[c] EXCEPT !.pc = "serving", !.etag = ETag(rows[p]), !.found = Dir]
  <2>1. /\ p \in DOMAIN rows /\ known' = known
        /\ reader' = [reader EXCEPT ![c].pc = "serving", ![c].etag = ETag(rows[p]), ![c].found = Dir]
    BY <1>11 DEF ReadRow
  <2>2. DOMAIN reader[c] = {"pc", "how", "path", "etag", "found"}
    BY DEF ReaderFits
  <2>3. v.etag = ETag(rows[p]) /\ DOMAIN v = {"pc", "how", "path", "etag", "found"}
    BY <2>2
  <2>4. DOMAIN reader' = Client /\ reader'[c] = v /\ \A x \in Client \ {c} : reader'[x] = reader[x]
    BY <2>1
  <2> HIDE DEF v
  <2>5. ReaderFits(c)'
    BY <1>6, <1>7, <2>1, <2>3, <2>4
  <2>6. QED
    BY <1>3, <1>5, <2>1, <2>4, <2>5
<1>12. CASE Serve(c)
  <2>1. /\ reader[c].pc = "serving" /\ IsFile(p) /\ Learn(c, p, "GET", reader[c].etag, fs[p], {})
        /\ reader' = [reader EXCEPT ![c] = NoRead]
    BY <1>12 DEF Serve
  <2>2. PICK e : e = reader[c].etag
    OBVIOUS
  <2>3. PICK data : data = fs[p]
    OBVIOUS
  <2>4. PICK a : a = p
    OBVIOUS
  <2>5. Seen(e) /\ Learn(c, a, "GET", e, data, {}) /\ a \in DOMAIN fs /\ data = fs[a]
    BY <2>1, <2>2, <2>3, <2>4 DEF ReaderFits, IsFile
  <2>6. DOMAIN known' = Client /\ \A x \in Client : KnownFits(x)'
    BY <2>5, LearnFits
  <2>7. QED
    BY <1>4, <2>1, <2>6
<1>13. CASE Miss(c)
  <2>1. known' = known /\ reader' = [reader EXCEPT ![c] = NoRead]
    BY <1>13 DEF Miss
  <2>2. QED
    BY <1>4, <1>5, <2>1
<1>14. CASE ListBelow(c)
  <2>1. /\ reader[c].pc = "listing" /\ Learn(c, p, "PROPFIND", reader[c].etag, Dir, Listing(rows, p))
        /\ reader' = [reader EXCEPT ![c] = NoRead]
    BY <1>14 DEF ListBelow
  <2>2. PICK e : e = reader[c].etag
    OBVIOUS
  <2>3. PICK listing : listing = Listing(rows, p)
    OBVIOUS
  <2>4. PICK a : a = p
    OBVIOUS
  <2>5. Seen(e) /\ Learn(c, a, "PROPFIND", e, Dir, listing) /\ listing = Listing(rows, a)
    BY <2>1, <2>2, <2>3, <2>4 DEF ReaderFits
  <2>6. DOMAIN known' = Client /\ \A x \in Client : KnownFits(x)'
    BY <2>5, LearnFits
  <2>7. QED
    BY <1>4, <2>1, <2>6
<1>15. QED
  BY <1>5, <1>8, <1>9, <1>10, <1>11, <1>12, <1>13, <1>14

\* Every step leaves the clients with what is right.
LEMMA ReadsKeepClients ==
    ASSUME ServerInv, ServerInv', DInv, DInv', ClientInv, [ReadsNext]_allVars
    PROVE  ClientInv'
<1>1. [Next]_vars \/ ReadStep
  BY ReadsKeepServer
<1>2. faults' = faults
  BY <1>1 DEF Next, Done, vars, ReadStep
<1>3. DOMAIN reader = Client /\ DOMAIN known = Client
  BY DEF ClientInv
<1>4. ASSUME known' = known, \A c \in Client : reader'[c] = reader[c] \/ reader'[c] = NoRead,
             SessionsKept
      PROVE  \A c \in Client : ReaderFits(c)' /\ KnownFits(c)'
  <2>1. ASSUME NEW c \in Client PROVE ReaderFits(c)'
    <3>1. ReaderFits(c)
      BY <1>4 DEF ClientInv
    <3>2. QED
      BY <1>1, <1>4, <3>1, ReaderStays, NoReadFits
  <2>2. ASSUME NEW c \in Client, NEW q \in DOMAIN known'[c], known'[c][q].steady
        PROVE  Trusted(known[c][q])'
    <3>1. PICK m : m = known[c][q]
      OBVIOUS
    <3>2. Trusted(m)
      BY <1>4, <2>2, <3>1 DEF ClientInv, KnownFits
    <3>3. Trusted(m)'
      BY <1>1, <1>2, <1>4, <3>2, StepTrusted
    <3>4. QED
      BY <1>4, <3>1, <3>3 DEF Trusted
  <2>3. QED
    BY <1>4, <2>1, <2>2 DEF KnownFits
<1>5. CASE UNCHANGED allVars
  BY <1>2, <1>3, <1>4, <1>5 DEF allVars, ClientInv, SessionsKept
<1>6. CASE /\ Next
           /\ reader' = IF crashed' # crashed THEN [c \in Client |-> NoRead] ELSE reader
           /\ UNCHANGED known
  <2>1. DOMAIN reader' = Client /\ \A c \in Client : reader'[c] = reader[c] \/ reader'[c] = NoRead
    BY <1>3, <1>6
  <2>2. QED
    BY <1>2, <1>3, <1>4, <1>6, <2>1 DEF ClientInv, SessionsKept
<1>7. CASE Read /\ UNCHANGED <<fs, rows, props, inside, rootRow, req, serial, crashed, faults>>
  <2>1. PICK c \in Client :
           \/ \E p \in Readable : ListSelf(c, p) \/ \E how \in {"GET", "HEAD"} : StatFile(c, p, how)
           \/ ReadRow(c) \/ Serve(c) \/ Miss(c) \/ ListBelow(c)
    BY <1>7 DEF Read
  <2>2. ReadStep
    BY <1>7, ReadCounts DEF ServerInv
  <2>3. ASSUME SessionsKept
        PROVE  /\ DOMAIN reader' = Client /\ DOMAIN known' = Client
               /\ \A x \in Client : ReaderFits(x)' /\ KnownFits(x)'
    BY <1>3, <2>1, <2>2, <2>3, ReadFits DEF ClientInv
  <2>4. DOMAIN reader' = Client /\ DOMAIN known' = Client
    BY <1>3, <2>1, Zenon DEF ListSelf, StatFile, ReadRow, Serve, Miss, ListBelow, Learn
  <2>5. QED
    BY <1>2, <2>3, <2>4 DEF ClientInv, SessionsKept
<1>8. QED
  BY <1>5, <1>6, <1>7 DEF ReadsNext

\* Every client knows what is right, at every moment.
THEOREM ClientsKept == ReadsSpec => []ClientInv
<1>1. ReadsInit => ClientInv
  BY DEF ReadsInit, ClientInv, ReaderFits, KnownFits, NoRead
<1>2. ServerInv => DInv
  BY DirsHeld DEF ServerInv
<1>3. ServerInv /\ ServerInv' /\ DInv /\ DInv' /\ ClientInv /\ [ReadsNext]_allVars => ClientInv'
  BY ReadsKeepClients
<1>4. QED
  BY ServerKept, <1>1, <1>2, <1>3, PTL DEF ReadsSpec

\* A client that skips what it believes to know (the ETag is the one it was answered with) is in
\* sync: a steady listing is the listing of the collection, and a steady download is the content
\* of the file once no request is at work there.
THEOREM ClientsStayInSync == ReadsSpec => []ClientInSync
<1>1. ASSUME ClientInv PROVE ClientInSync
  <2> SUFFICES ASSUME NEW c \in Client, NEW p \in DOMAIN known[c], Current(c, p), known[c][p].steady
               PROVE  /\ known[c][p].how = "PROPFIND" /\ SessionsKept => ListingRight(c, p)
                      /\ known[c][p].how = "GET" /\ faults = {} /\ ~ BeingChanged(p)
                            => known[c][p].data = rows[p].data
    BY DEF ClientInSync
  <2>1. p \in DOMAIN rows /\ ETag(rows[p]) = known[c][p].etag
    BY DEF Current
  <2>2. SessionsKept => Trusted(known[c][p])
    BY <1>1 DEF ClientInv, KnownFits
  <2>3. ASSUME known[c][p].how = "PROPFIND", SessionsKept PROVE ListingRight(c, p)
    BY <2>1, <2>2, <2>3 DEF Trusted, ListingRight
  <2>4. ASSUME known[c][p].how = "GET", faults = {}, ~ BeingChanged(p)
        PROVE  known[c][p].data = rows[p].data
    <3>1. SessionsKept
      BY <2>4 DEF SessionsKept
    <3>2. ~ Pending(p)
      BY <2>4 DEF Pending, BeingChanged, Working, Within, Overlap
    <3>3. QED
      BY <2>1, <2>2, <2>4, <3>1, <3>2 DEF Trusted
  <2>5. QED
    BY <2>3, <2>4
<1>2. QED
  BY ClientsKept, <1>1, PTL

=============================================================================
