------------------------------- MODULE DavTree -------------------------------
(***************************************************************************)
(* One user's files: the directory tree on disk, the rows of table files   *)
(* that describe it and the rows of table file_properties that belong to   *)
(* them (handlers/webdav.go).  Requests that only read are in DavReads.    *)
(*                                                                         *)
(* A handler that changes the tree enters its path locks (TreeLock, which  *)
(* AdvisoryLocks implements), checks, moves what it replaces aside, puts   *)
(* the new entry in place, commits its transaction and deletes what it had *)
(* set aside; when the transaction fails it undoes the disk changes.  The  *)
(* file system steps are separate actions, visible to others and left      *)
(* behind by a crash.  The statements of a transaction take effect together, when *)
(* it commits: the rows it changes are row-locked until then, and a reader *)
(* sees committed rows only.                                               *)
(***************************************************************************)
EXTENDS DavPaths, Integers, FiniteSets, FiniteSetsExt

CONSTANTS Req,      \* request handlers that may run at the same time
          Ops,      \* the operations they may be asked for
          Trees,    \* the trees a run may start from
          Dir,      \* what a directory has in place of file content
          Size,     \* the number of bytes of each content
          Quota,    \* the user's quota_bytes
          MaxOps,   \* bound on the number of requests of a behaviour
          FaultSets \* sets of faults; a behaviour meets the faults of one of them

\* The n-th request, a PUT, writes content n; the initial files hold others.
Content == DOMAIN Size
Kinds == {"PUT", "MKCOL", "DELETE", "MOVE", "COPY", "COPY0", "PROPPATCH"}
Pairs == {"MOVE", "COPY", "COPY0"}

\* What the handlers accept: only PROPPATCH takes the root; source and destination
\* differ and the destination is not inside the source.  COPY0 is COPY with
\* Depth: 0.  The MOVE that ends a chunked upload publishes its file like a PUT
\* without If-Match (acquireFileLocks, publishFile) and is not told apart.
ValidOp(o) ==
    /\ o.kind \in Kinds
    /\ {o.path, o.dest} \subseteq IF o.kind = "PROPPATCH" THEN Path ELSE Path \ {Root}
    /\ IF o.kind \in Pairs
       THEN o.path # o.dest /\ ~ Descendant(o.path, o.dest)
       ELSE o.path = o.dest

\* The names of files and collections; the handlers give other names to their backups
\* and temporary files (Beside).
Plain == Seq(0..9)

ASSUME TreeAssumption ==
    /\ MaxOps \in Nat /\ Quota \in Nat /\ Path \subseteq Plain
    /\ \A o \in Ops : ValidOp(o)
    /\ \A t \in Trees :
          /\ IsFiniteSet(DOMAIN t) /\ DOMAIN t \subseteq Path
          /\ Root \in DOMAIN t /\ t[Root] = Dir
          /\ \A p \in DOMAIN t \ {Root} :
                t[p] \in Content \cup {Dir} /\ Parent(p) \in DOMAIN t /\ t[Parent(p)] = Dir
    /\ 1..MaxOps \subseteq Content /\ Size \in [Content -> Nat] /\ Dir \notin Content
    /\ FaultSets \subseteq SUBSET {"tx", "session", "reply", "crash"}

VARIABLES fs,       \* disk: a directory or a content at each existing path
          rows,     \* table files, committed: one row per path
          props,    \* table file_properties, committed: the value of one property
          inside,   \* the path locks, as in TreeLock
          rootRow,  \* the transactions that hold the user's root row FOR UPDATE
          req,      \* the request each handler is working on
          serial,   \* number of transactions committed (for fresh ocids)
          issued,   \* number of requests so far
          crashed,  \* the server has crashed
          faults    \* the faults this behaviour may meet, chosen at its start

vars == <<fs, rows, props, inside, rootRow, req, serial, issued, crashed, faults>>

Locks == INSTANCE TreeLock WITH Work <- {{o.path, o.dest} : o \in Ops}

-----------------------------------------------------------------------------
(* Trees: functions whose domain is the set of paths that exist.           *)

Entries(f, p) == {k \in DOMAIN f : k = p \/ Descendant(p, k)}
Suffix(k, p) == SubSeq(k, Len(p) + 1, Len(k))

\* Adding S where f has nothing yet: mkdir, INSERT ... ON CONFLICT DO NOTHING.
Inserted(f, S) == [q \in DOMAIN f \cup DOMAIN S |-> IF q \in DOMAIN f THEN f[q] ELSE S[q]]

RemovedAlone(f, p) == [k \in DOMAIN f \ {p} |-> f[k]]    \* faulty variant
Removed(f, p) == [k \in DOMAIN f \ Entries(f, p) |-> f[k]]

\* f with everything at and below s moved to d, replacing what is there.
Moved(f, s, d) ==
    LET new == {d \o Suffix(k, s) : k \in Entries(f, s)}
    IN [k \in (DOMAIN Removed(f, s) \ Entries(f, d)) \cup new |->
           IF k \in new THEN f[s \o Suffix(k, d)] ELSE f[k]]

IsDir(f, p) == p \in DOMAIN f /\ f[p] = Dir

\* os.Rename: a file replaces a file, a directory an empty directory.
CanRename(f, s, d) ==
    /\ s \in DOMAIN f
    /\ IsDir(f, Parent(d))
    /\ d \in DOMAIN f => IsDir(f, s) = IsDir(f, d) /\ Entries(f, d) = {d}
Renamed(f, s, d) == IF CanRename(f, s, d) THEN Moved(f, s, d) ELSE f

\* Names next to p that no other request uses (UnixNano), for the backup and the
\* temporary file of request n.
Beside(p, tag) == Parent(p) \o <<tag + p[Len(p)]>>
BackupName(p, n) == Beside(p, 20 * n)
TmpName(p, n) == Beside(p, 20 * n + 10)

-----------------------------------------------------------------------------
(* Rows: [data, id, ver, size]; data = Dir is is_dir, (id, ver) the ETag.  *)

ETag(row) == <<row.id, row.ver>>
NoETag == << >>
NewRow(p, data, size) == [data |-> data, id |-> <<serial + 1, p>>, ver |-> 1, size |-> size]

IsDirRow(R, p) == R[p].data = Dir

\* updateAncestorSizes, and with delta = 0 bumpAncestorDirVersions: every
\* directory row above p takes the size change and a new version.
BumpedBySize(R, p, delta) ==    \* faulty variant: no new version without a new size
    [q \in DOMAIN R |->
        IF Descendant(q, p) /\ IsDirRow(R, q) /\ delta # 0
        THEN [R[q] EXCEPT !.size = @ + delta, !.ver = @ + 1]
        ELSE R[q]]
Bumped(R, p, delta) ==
    [q \in DOMAIN R |->
        IF Descendant(q, p) /\ IsDirRow(R, q)
        THEN [R[q] EXCEPT !.size = @ + delta, !.ver = @ + 1]
        ELSE R[q]]

\* fileTreeSizeTx
TreeSize(R, p) == IF p \in DOMAIN R THEN R[p].size ELSE 0

\* Bytes of the files at and below p.
FileBytes(R, p) == MapThenSumSet(LAMBDA q : IF R[q].data = Dir THEN 0 ELSE R[q].size,
                                 Entries(R, p))

-----------------------------------------------------------------------------
NoOp == [kind |-> "none", path |-> Root, dest |-> Root]
Idle == [pc |-> "idle", num |-> 0, op |-> NoOp, tag |-> NoETag,
         isDir |-> FALSE, saved |-> FALSE, placed |-> FALSE, alive |-> TRUE]

Op(r) == req[r].op
Source(r) == Op(r).path
Target(r) == Op(r).dest     \* what the request creates, replaces or deletes
Exists(r) == Target(r) \in DOMAIN fs
Body(r) == req[r].num       \* the content a PUT uploads
Tmp(r) == TmpName(Source(r), req[r].num)
Backup(r) == BackupName(Target(r), req[r].num)

Goto(r, pc) == req' = [req EXCEPT ![r].pc = pc]

Init ==
    /\ fs \in Trees
    /\ rows = [p \in DOMAIN fs |->
                 [data |-> fs[p], id |-> <<0, p>>, ver |-> 1,
                  size |-> MapThenSumSet(LAMBDA q : IF fs[q] = Dir THEN 0 ELSE Size[fs[q]],
                                         Entries(fs, p))]]
    /\ props = [p \in DOMAIN fs \ {Root} |-> <<0, p>>]
    /\ Locks!Init
    /\ rootRow = {}
    /\ req = [r \in Req |-> Idle]
    /\ serial = 0
    /\ issued = 0
    /\ crashed = FALSE
    /\ faults \in FaultSets

\* A request arrives.  PUT first writes its body to a temporary file beside the
\* target, without any lock; with If-Match it carries the ETag the client saw.
\* PROPPATCH looks for its target here and not again under its locks.
Begin(r, o) ==
    /\ req[r].pc = "idle" /\ ~ crashed /\ issued < MaxOps
    /\ issued' = issued + 1
    /\ \E tag \in {NoETag} \cup
                  {ETag(rows[p]) : p \in IF o.kind = "PUT" THEN DOMAIN rows \cap {o.path} ELSE {}} :
          req' = [req EXCEPT ![r] = [Idle EXCEPT !.pc = "waiting", !.num = issued',
                                                  !.op = o, !.tag = tag]]
    /\ IF o.kind = "PUT"
       THEN IsDir(fs, Parent(o.path)) /\ fs' = Inserted(fs, [k \in {TmpName(o.path, issued')} |-> issued'])
       ELSE (o.kind = "PROPPATCH" => o.path \in DOMAIN fs) /\ UNCHANGED fs
    /\ UNCHANGED <<rows, props, inside, rootRow, serial, crashed>>

Enter(r) ==
    /\ req[r].pc = "waiting"
    /\ Locks!Enter(r, {Source(r), Target(r)})
    /\ Goto(r, "checking")
    /\ UNCHANGED <<fs, rows, props, rootRow, serial, issued, crashed>>

\* Bytes by which the request would let the user's total grow.
CopiedSize(r) ==
    IF Op(r).kind = "COPY0" /\ IsDir(fs, Source(r)) THEN 0 ELSE TreeSize(rows, Source(r))
Growth(r) ==
    CASE Op(r).kind = "PUT" -> Size[Body(r)] - TreeSize(rows, Source(r))
      [] Op(r).kind \in {"COPY", "COPY0"} ->
             CopiedSize(r) - (IF Exists(r) THEN TreeSize(rows, Target(r)) ELSE 0)
      [] OTHER -> 0

\* The checks of each handler under its locks, before it changes the disk.
Acceptable(r) ==
    LET p == Source(r)  d == Target(r)
    IN CASE Op(r).kind = "PUT" ->
              /\ req[r].tag # NoETag => p \in DOMAIN rows /\ ETag(rows[p]) = req[r].tag
              /\ ~ IsDir(fs, p)
              /\ p \in DOMAIN rows => rows[p].data # Dir
              /\ Tmp(r) \in DOMAIN fs
         [] Op(r).kind = "MKCOL" -> IsDir(fs, Parent(p)) /\ ~ Exists(r)
         [] Op(r).kind = "DELETE" -> Exists(r)
         [] Op(r).kind = "PROPPATCH" -> TRUE
         [] Op(r).kind \in Pairs ->
              /\ p \in DOMAIN fs
              /\ IsDir(fs, Parent(d))
              /\ ~ (Exists(r) /\ Descendant(d, p))
              /\ (Op(r).kind = "MOVE" /\ ~ IsDir(fs, p)) => p \in DOMAIN rows

\* enforceQuotaDeltaTx: only a growth reads the root row, and locks it.
\* The handler remembers what kind of entry its source is (os.Stat).  PROPPATCH
\* leaves the tree on disk alone.
Proceed(r) ==
    req' = [req EXCEPT ![r].pc = CASE Op(r).kind = "PROPPATCH" -> "committing"
                                   [] Op(r).kind # "PROPPATCH" /\ Exists(r) -> "saving"
                                   [] OTHER -> "placing",
                       ![r].isDir = IsDir(fs, Source(r))]

CheckWithoutRowLock(r) ==    \* faulty variant: SELECT without FOR UPDATE
    /\ req[r].pc = "checking" /\ req[r].alive
    /\ Acceptable(r)
    /\ Growth(r) > 0 => Growth(r) <= Quota - rows[Root].size
    /\ Proceed(r)
    /\ UNCHANGED <<fs, rows, props, inside, rootRow, serial, issued, crashed>>

Check(r) ==
    /\ req[r].pc = "checking" /\ req[r].alive
    /\ Acceptable(r)
    /\ IF Growth(r) > 0
       THEN /\ rootRow = {}
            /\ Growth(r) <= Quota - rows[Root].size
            /\ rootRow' = {r}
       ELSE UNCHANGED rootRow
    /\ Proceed(r)
    /\ UNCHANGED <<fs, rows, props, inside, serial, issued, crashed>>

\* fs without r's temporary file, if it is still where r wrote it.
WithoutTmp(r) == IF Op(r).kind = "PUT" THEN Removed(fs, Tmp(r)) ELSE fs

\* The request ends: its transaction is closed and its locks are released.
Finish(r) ==
    /\ req' = [req EXCEPT ![r] = Idle]
    /\ inside' = [inside EXCEPT ![r] = Locks!Outside]
    /\ rootRow' = rootRow \ {r}

CanSave(r) == CanRename(fs, Target(r), Backup(r))

\* An error response before anything was changed: no lock, a failed check,
\* Overwrite: F, a DAV lock held by somebody else, a lost session, a failed backup.
\* Without a connection the locks cannot even be waited for: a PUT leaves its temporary
\* file where it is.
Refuse(r) ==
    /\ req[r].pc \in {"waiting", "checking"} \/ (req[r].pc = "saving" /\ ~ CanSave(r))
    /\ fs' = WithoutTmp(r) \/ (req[r].pc = "waiting" /\ fs' = fs)
    /\ Finish(r)
    /\ UNCHANGED <<rows, props, serial, issued, crashed>>

\* backupExistingPath: what is to be replaced or deleted is renamed aside.
SaveNothing(r) ==    \* faulty variant: the old entry is deleted at once
    /\ req[r].pc = "saving"
    /\ CanSave(r)
    /\ fs' = Removed(fs, Target(r))
    /\ req' = [req EXCEPT ![r].pc = IF Op(r).kind = "DELETE" THEN "committing" ELSE "placing"]
    /\ UNCHANGED <<rows, props, inside, rootRow, serial, issued, crashed>>

Save(r) ==
    /\ req[r].pc = "saving"
    /\ CanSave(r)
    /\ fs' = Moved(fs, Target(r), Backup(r))
    /\ req' = [req EXCEPT ![r].saved = TRUE,
                          ![r].pc = IF Op(r).kind = "DELETE" THEN "committing" ELSE "placing"]
    /\ UNCHANGED <<rows, props, inside, rootRow, serial, issued, crashed>>

\* Statements run between Save and Place (the rows of the replaced tree are
\* deleted, the rows to copy are read): without a session they fail.
StatementsFirst(r) ==
    Op(r).kind \in Pairs /\ (req[r].saved \/ (Op(r).kind = "COPY" /\ req[r].isDir))

\* The files COPY creates: what the rows list below the source, with the
\* directories on the way (MkdirAll).
Copied(r) ==
    LET s == Source(r)  d == Target(r)
        listed == {d \o Suffix(q, s) : q \in Entries(rows, s)}
        all == listed \cup {q \in UNION {ParentPaths(k) : k \in listed} : Descendant(d, q) \/ q = d}
        from(k) == s \o Suffix(k, d)
    IN CASE ~ req[r].isDir -> [k \in {d} |-> fs[s]]
         [] req[r].isDir /\ Op(r).kind = "COPY0" -> [k \in {d} |-> Dir]
         [] OTHER -> [k \in all |-> IF k \in listed /\ rows[from(k)].data # Dir
                                    THEN fs[from(k)] ELSE Dir]

\* Whether the disk lets r put its entry in place.
Placeable(r) ==
    LET p == Source(r)  d == Target(r)
    IN CASE Op(r).kind = "PUT" -> CanRename(fs, Tmp(r), p)
         [] Op(r).kind = "MKCOL" -> IsDir(fs, Parent(p)) /\ ~ Exists(r)
         [] Op(r).kind = "MOVE" -> CanRename(fs, p, d)
         [] Op(r).kind = "COPY0" /\ req[r].isDir -> IsDir(fs, Parent(d)) /\ ~ Exists(r)
         [] OTHER ->
              /\ IsDir(fs, Parent(d))
              /\ ~ req[r].isDir => p \in DOMAIN fs /\ ~ IsDir(fs, p)
              /\ req[r].isDir => \A q \in Entries(rows, p) :
                    rows[q].data # Dir => q \in DOMAIN fs /\ ~ IsDir(fs, q)
              /\ \A k \in DOMAIN Copied(r) \ {d} : IsDir(Copied(r), Parent(k))
              /\ \A k \in DOMAIN Copied(r) \cap DOMAIN fs : IsDir(fs, k) = IsDir(Copied(r), k)

CanPlace(r) == Placeable(r) /\ (req[r].alive \/ ~ StatementsFirst(r))

\* The new entry appears under its name.
Place(r) ==
    /\ req[r].pc = "placing"
    /\ CanPlace(r)
    /\ LET p == Source(r)  d == Target(r)
       IN fs' = CASE Op(r).kind = "PUT" -> Moved(fs, Tmp(r), p)
                  [] Op(r).kind = "MKCOL" -> Inserted(fs, [k \in {p} |-> Dir])
                  [] Op(r).kind = "MOVE" -> Moved(fs, p, d)
                  [] OTHER -> Inserted(Copied(r), fs)
    /\ req' = [req EXCEPT ![r].placed = TRUE, ![r].pc = "committing"]
    /\ UNCHANGED <<rows, props, inside, rootRow, serial, issued, crashed>>

-----------------------------------------------------------------------------
(* The rows as the transaction of each kind of request leaves them.        *)

Rewritten(R, p, data, size) ==
    [R EXCEPT ![p].data = data, ![p].size = size, ![p].ver = @ + 1]

\* publishFile
PutRows(r) ==
    LET p == Source(r)
        R == IF p \in DOMAIN rows THEN Rewritten(rows, p, Body(r), Size[Body(r)])
             ELSE Inserted(rows, [q \in {p} |-> NewRow(q, Body(r), Size[Body(r)])])
    IN Bumped(R, p, Size[Body(r)] - TreeSize(rows, p))

\* MKCOL also inserts the rows its ancestors lack, with size 0.
MkcolRows(r) ==
    LET p == Source(r)
    IN Bumped(Inserted(rows, [q \in ParentPaths(p) \cup {p} |-> NewRow(q, Dir, 0)]), p, 0)

DeleteOneRow(r) ==    \* faulty variant: the rows below a deleted collection stay
    LET p == Source(r)
    IN Bumped([q \in DOMAIN rows \ {p} |-> rows[q]], p, - rows[p].size)
DeleteRows(r) ==
    LET p == Source(r)
        R == IF req[r].isDir THEN Removed(rows, p)
             ELSE [q \in DOMAIN rows \ {p} |-> rows[q]]
    IN Bumped(R, p, - rows[p].size)

\* The rows without the replaced destination (MOVE, COPY).
ClearedUncounted(r) ==    \* faulty variant: the bytes of the replaced tree stay counted
    IF req[r].saved THEN Removed(rows, Target(r)) ELSE rows
Cleared(r) ==
    LET d == Target(r)
    IN IF req[r].saved THEN Bumped(Removed(rows, d), d, - TreeSize(rows, d)) ELSE rows

\* The paths whose rows MOVE renames and COPY copies.
Taken(r) ==
    IF req[r].isDir /\ Op(r).kind # "COPY0" THEN Entries(rows, Source(r)) ELSE {Source(r)}

\* f, over paths, with the entries at the paths S carried from below s to below d.
Carried(f, S, s, d) ==
    LET new == {d \o Suffix(k, s) : k \in S \cap DOMAIN f}
    IN [k \in (DOMAIN f \ S) \cup new |-> IF k \in new THEN f[s \o Suffix(k, d)] ELSE f[k]]

\* MOVE keeps ocid and version; a rename within one collection moves no bytes.
MoveOneRow(r) ==    \* faulty variant: the rows below a moved collection keep their paths
    LET s == Source(r)  d == Target(r)
    IN Bumped(Carried(Cleared(r), {s}, s, d), s, 0)
MoveRows(r) ==
    LET s == Source(r)  d == Target(r)
        bytes == IF req[r].isDir THEN FileBytes(rows, s) ELSE rows[s].size
        R == Carried(Cleared(r), Taken(r), s, d)
    IN IF Parent(s) # Parent(d) THEN Bumped(Bumped(R, s, - bytes), d, bytes)
       ELSE Bumped(R, s, 0)

CopyRows(r) ==
    LET s == Source(r)  d == Target(r)  R == Cleared(r)
        copy(k) == LET row == rows[s \o Suffix(k, d)] IN NewRow(k, row.data, row.size)
    IN CASE ~ req[r].isDir ->
              Bumped(IF d \in DOMAIN R
                     THEN Rewritten(R, d, IF IsDirRow(R, d) THEN Dir ELSE rows[s].data, rows[s].size)
                     ELSE Inserted(R, [k \in {d} |-> copy(k)]),
                     d, rows[s].size)
         [] req[r].isDir /\ Op(r).kind = "COPY0" ->
              Bumped(Inserted(R, [k \in {d} |-> NewRow(k, Dir, 0)]), d, 0)
         [] OTHER ->
              Bumped(Inserted(R, [k \in {d \o Suffix(q, s) : q \in Entries(rows, s)} |-> copy(k)]),
                     d, TreeSize(rows, s))

NewRows(r) ==
    CASE Op(r).kind = "PUT" -> PutRows(r)
      [] Op(r).kind = "MKCOL" -> MkcolRows(r)
      [] Op(r).kind = "DELETE" -> DeleteRows(r)
      [] Op(r).kind = "MOVE" -> MoveRows(r)
      [] Op(r).kind = "PROPPATCH" -> rows
      [] OTHER -> CopyRows(r)

\* The foreign key: a property goes with its row (ON DELETE CASCADE).
Surviving(R) == [q \in DOMAIN props \cap DOMAIN R |-> props[q]]

\* A PROPPATCH sets or removes the property.  The foreign key is deferred: that
\* there is a row to hold the property is found out by the commit.
Patched(r) ==
    LET p == Source(r)
    IN {[q \in DOMAIN props \ {p} |-> props[q]]}
       \cup (IF p \in DOMAIN rows
             THEN {[q \in DOMAIN props \cup {p} |-> IF q = p THEN <<Body(r), p>> ELSE props[q]]}
             ELSE {})

\* What the transaction may leave in file_properties.  Copies never overwrite
\* (ON CONFLICT DO NOTHING).
NewPropsOfOne(r) ==    \* faulty variant: below a copied collection properties are forgotten
    LET s == Source(r)  d == Target(r)  P == Surviving(Cleared(r))
    IN CASE Op(r).kind = "PROPPATCH" -> Patched(r)
         [] Op(r).kind = "MOVE" -> {Carried(P, Taken(r), s, d)}
         [] Op(r).kind \in {"COPY", "COPY0"} -> {Inserted(P, [k \in {d \o Suffix(q, s) : q \in {s} \cap DOMAIN props} |->
                               props[s \o Suffix(k, d)]])}
         [] OTHER -> {Surviving(NewRows(r))}
NewProps(r) ==
    LET s == Source(r)  d == Target(r)  P == Surviving(Cleared(r))
    IN CASE Op(r).kind = "PROPPATCH" -> Patched(r)
         [] Op(r).kind = "MOVE" -> {Carried(P, Taken(r), s, d)}
         [] Op(r).kind \in {"COPY", "COPY0"} ->
                {Inserted(P, [k \in {d \o Suffix(q, s) : q \in Taken(r) \cap DOMAIN props} |->
                               props[s \o Suffix(k, d)]])}
         [] OTHER -> {Surviving(NewRows(r))}

\* No statement fails for want of a row or because a row is in the way.
RowsThere(r) ==
    CASE Op(r).kind = "DELETE" -> Source(r) \in DOMAIN rows
      [] Op(r).kind = "MOVE" ->
             /\ Source(r) \in DOMAIN rows
             /\ \A q \in Taken(r) :
                   Target(r) \o Suffix(q, Source(r)) \notin DOMAIN Cleared(r)
      [] Op(r).kind \in {"COPY", "COPY0"} /\ ~ req[r].isDir -> Source(r) \in DOMAIN rows
      [] OTHER -> TRUE

\* PostgreSQL commits r's transaction; the ancestors' rows it changes, among them
\* the root's, must not be locked by another one.
Apply(r) ==
    /\ req[r].pc = "committing" /\ req[r].alive
    /\ Op(r).kind # "PROPPATCH" => rootRow \subseteq {r}
    /\ RowsThere(r)
    /\ rows' = NewRows(r)
    /\ props' \in NewProps(r)
    /\ rootRow' = rootRow \ {r}
    /\ serial' = serial + 1

Commit(r) ==
    /\ Apply(r)
    /\ Goto(r, "cleaning")
    /\ UNCHANGED <<fs, inside, issued, crashed>>

\* The backup is removed and the response sent.
Clean(r) ==
    /\ req[r].pc = "cleaning"
    /\ fs' = IF req[r].saved THEN Removed(fs, Backup(r)) ELSE fs
    /\ Finish(r)
    /\ UNCHANGED <<rows, props, serial, issued, crashed>>

-----------------------------------------------------------------------------
(* Failures.  Every handler but MKCOL undoes its disk changes.             *)

\* A disk operation, a statement or the commit of r cannot succeed.
Fails(r) ==
    CASE req[r].pc = "placing" -> ~ CanPlace(r)
      [] req[r].pc = "committing" ->
             \/ ~ (req[r].alive /\ RowsThere(r))
             \/ Op(r).kind = "PROPPATCH" /\ Source(r) \notin DOMAIN rows
      [] OTHER -> FALSE

\* Fault "tx": the database fails a statement or the commit, e.g. because two
\* transactions update the rows of common ancestors in opposite orders.
Breaks(r) ==
    /\ "tx" \in faults
    /\ \/ req[r].pc = "committing"
       \/ req[r].pc = "placing" /\ StatementsFirst(r)

Fail(r) ==
    /\ Fails(r) \/ Breaks(r)
    /\ Goto(r, "undoing")
    /\ UNCHANGED <<fs, rows, props, inside, rootRow, serial, issued, crashed>>

\* Fault "reply": PostgreSQL has committed but the connection is closed before
\* the handler knows, and it gets an error.
LoseReply(r) ==
    /\ "reply" \in faults
    /\ Apply(r)
    /\ req' = [req EXCEPT ![r].pc = "undoing", ![r].alive = FALSE]
    /\ Locks!Leave(r)
    /\ UNCHANGED <<fs, issued, crashed>>

\* restoreBackedUpPath(target, backup) on f.
Restored(f, r) == Renamed(Removed(f, Target(r)), Backup(r), Target(r))

UndoDestOnly(r) ==    \* faulty variant: a moved source is not moved back
    /\ req[r].pc = "undoing"
    /\ LET s == Source(r)  d == Target(r)  saved == req[r].saved  placed == req[r].placed
           emptied == IF placed /\ Entries(fs, d) = {d} THEN Removed(fs, d) ELSE fs
           movedBack == fs
       IN fs' = CASE Op(r).kind = "PUT" ->
                       Removed(IF saved THEN Renamed(emptied, Backup(r), d) ELSE emptied,
                               Tmp(r))
                  [] Op(r).kind \in {"MKCOL", "PROPPATCH"} -> fs
                  [] Op(r).kind = "DELETE" -> IF saved THEN Restored(fs, r) ELSE fs
                  [] Op(r).kind = "MOVE" -> IF saved THEN Restored(movedBack, r) ELSE movedBack
                  [] OTHER -> IF saved THEN Restored(fs, r) ELSE Removed(fs, d)
    /\ Finish(r)
    /\ UNCHANGED <<rows, props, serial, issued, crashed>>

Undo(r) ==
    /\ req[r].pc = "undoing"
    /\ LET s == Source(r)  d == Target(r)  saved == req[r].saved  placed == req[r].placed
           emptied == IF placed /\ Entries(fs, d) = {d} THEN Removed(fs, d) ELSE fs
           movedBack == IF placed THEN Renamed(fs, d, s) ELSE fs
       IN fs' = CASE Op(r).kind = "PUT" ->
                       Removed(IF saved THEN Renamed(emptied, Backup(r), d) ELSE emptied,
                               Tmp(r))
                  [] Op(r).kind \in {"MKCOL", "PROPPATCH"} -> fs
                  [] Op(r).kind = "DELETE" -> IF saved THEN Restored(fs, r) ELSE fs
                  [] Op(r).kind = "MOVE" -> IF saved THEN Restored(movedBack, r) ELSE movedBack
                  [] OTHER -> IF saved THEN Restored(fs, r) ELSE Removed(fs, d)
    /\ Finish(r)
    /\ UNCHANGED <<rows, props, serial, issued, crashed>>

\* Fault "session": the client goes away, the request's context is cancelled and
\* the driver closes the connection.  The transaction and all locks are gone,
\* but the handler goes on to its next statement, and then undoes its changes.
LoseSession(r) ==
    /\ "session" \in faults
    /\ req[r].pc \in {"checking", "saving", "placing", "committing", "cleaning"}
    /\ req[r].alive
    /\ req' = [req EXCEPT ![r].alive = FALSE]
    /\ Locks!Leave(r)
    /\ rootRow' = rootRow \ {r}
    /\ UNCHANGED <<fs, rows, props, serial, issued, crashed>>

\* Fault "crash": the server stops.  Nothing at start-up looks at half-done work,
\* so what the disk and the committed rows hold is what the next start finds.
Crash ==
    /\ "crash" \in faults /\ ~ crashed
    /\ crashed' = TRUE
    /\ req' = [r \in Req |-> Idle]
    /\ inside' = [r \in Req |-> Locks!Outside]
    /\ rootRow' = {}
    /\ UNCHANGED <<fs, rows, props, serial, issued>>

-----------------------------------------------------------------------------
\* The bound on requests is reached and all of them have ended.
Done ==
    /\ issued = MaxOps \/ crashed
    /\ \A r \in Req : req[r].pc = "idle"
    /\ UNCHANGED vars

Step ==
    \/ \E r \in Req :
        \/ \E o \in Ops : Begin(r, o)
        \/ Enter(r) \/ Check(r) \/ Refuse(r) \/ Save(r) \/ Place(r) \/ Commit(r) \/ Clean(r)
        \/ Fail(r) \/ LoseReply(r) \/ Undo(r) \/ LoseSession(r)
    \/ Crash

Next == (Step /\ UNCHANGED faults) \/ Done

Spec == Init /\ [][Next]_vars

-----------------------------------------------------------------------------
(* Correctness.                                                            *)

\* r is between its path locks; it changes the disk at and below its targets.
Working(r) == req[r].pc \in {"checking", "saving", "placing", "committing", "cleaning", "undoing"}
BeingChanged(p) == \E r \in Req : Working(r) /\ (Overlap(Source(r), p) \/ Overlap(Target(r), p))

\* Type invariant: the disk is a tree (every entry has a parent directory).
TypeOK ==
    /\ IsDir(fs, Root) /\ DOMAIN fs \subseteq Seq(Nat)
    /\ \A p \in DOMAIN fs : fs[p] \in Content \cup {Dir}
    /\ \A p \in DOMAIN fs \ {Root} : IsDir(fs, Parent(p))
    /\ \A p \in DOMAIN rows :
          /\ p \in Plain
          /\ rows[p].data \in Content \cup {Dir}
          /\ rows[p].ver \in Nat /\ rows[p].size \in Int
    /\ DOMAIN props \subseteq DOMAIN rows
    /\ rootRow \subseteq Req /\ Cardinality(rootRow) <= 1
    /\ \A r \in rootRow : Working(r) /\ req[r].alive
    /\ DOMAIN req = Req /\ issued \in 0..MaxOps /\ serial \in Nat

\* The size of a directory row is the sum of the sizes of the files below it,
\* although every request only adds its own difference to the rows above it
\* (handleDAVDelete relies on it: the row "already tracks the full subtree").
SizesAlwaysAddUp ==
    \A p \in DOMAIN rows : rows[p].data = Dir => rows[p].size = FileBytes(rows, p)

\* It is so as long as no transaction fails.
SizesAddUp == faults = {} => SizesAlwaysAddUp

\* Concurrent uploads and copies never take the user over the quota together, whatever
\* has failed before: the root row stays locked from the check to the commit, and the
\* sizes the check was made with stay what they were.
QuotaRespected ==
    [][\A r \in Req :
          Op(r).kind \in {"PUT", "COPY", "COPY0"} /\ req[r].pc = "committing" /\ req'[r].pc # "committing"
              => rows'[Root].size <= Quota \/ rows'[Root].size <= rows[Root].size]_vars

\* The total itself may still be above the quota: deleting a directory that has lost
\* bytes (SizesAlwaysAddUp) adds them to the rows above.
TotalWithinQuota == rows[Root].size <= Quota

\* Transactions may fail and the server may stop, but every handler keeps its
\* session until it has undone its changes.
SessionsKept == faults \subseteq {"tx", "crash"}

\* Where no request is at work, what the database lists is on disk: whatever
\* succeeded, failed or was undone before.
RowsAlwaysBacked ==
    ~ crashed => \A p \in DOMAIN rows : ~ BeingChanged(p) => p \in DOMAIN fs /\ fs[p] = rows[p].data

\* It is so as long as sessions are kept.
RowsBacked == SessionsKept => RowsAlwaysBacked

\* Where no request is at work, the database lists what is on disk, and no
\* backup is left over, as long as nothing fails.
DiskListed ==
    faults = {} => \A k \in DOMAIN fs :
        /\ k \in Plain /\ ~ BeingChanged(k) => k \in DOMAIN rows
        /\ k # Root /\ k[Len(k)] >= 20 /\ k[Len(k)] % 20 < 10 =>
              \E r \in Req : Working(r) /\ req[r].saved /\ k = Backup(r)

\* The content of every listed file is on disk somewhere, under its name, in a
\* backup or at the destination of a move, at every instant a crash may choose.
CommittedContentKept ==
    SessionsKept => \A p \in DOMAIN rows : rows[p].data # Dir => \E k \in DOMAIN fs : fs[k] = rows[p].data

\* What lies below p, by relative path and ETag.
Listing(R, p) == {<<Suffix(k, p), ETag(R[k])>> : k \in Entries(R, p) \ {p}}

\* An ETag names one state: a file whose ETag has not changed has the same
\* content, a directory whose ETag has not changed has the same entries with the
\* same ETags all the way down, wherever it has been moved.  Sync clients rely on
\* it to skip what they know.  (Not so after a session is lost: a COPY may find
\* the directory moved aside and fill the row that is still there.)
ETagsNameStates ==
    [][\A p \in DOMAIN rows, q \in DOMAIN rows' :
          SessionsKept /\ ETag(rows[p]) = ETag(rows'[q])
              => rows[p].data = rows'[q].data /\ Listing(rows, p) = Listing(rows', q)]_rows

\* An upload with If-Match replaces the version its client has seen and no
\* other: the row is still that version when the transaction commits.
NoLostUpdate ==
    [][\A r \in Req :
          Op(r).kind = "PUT" /\ req[r].tag # NoETag /\ req'[r].pc = "cleaning" /\ req[r].pc = "committing"
              => Source(r) \in DOMAIN rows /\ ETag(rows[Source(r)]) = req[r].tag]_vars

Value(P, p) == {P[k] : k \in DOMAIN P \cap {p}}

\* Table file_properties has no ids: what ties a property to its resource is the
\* path.  All the same it follows the resource: a row that stays, moved or not,
\* keeps its property unless a PROPPATCH of it commits; a copy has its original's;
\* whatever else is new has none, even where something with a property was replaced.
\* (After a session is lost a COPY may fill a row that is still there.)
PropertiesFollow ==
    [][\A q \in DOMAIN rows' :
          LET olds == {p \in DOMAIN rows : rows[p].id = rows'[q].id}
          IN \A r \in Req : SessionsKept /\ serial' # serial /\ req[r].pc = "committing" /\ req'[r].pc # "committing" =>
                IF olds # {}
                THEN \/ \A p \in olds : Value(props', q) = Value(props, p)
                     \/ Op(r).kind = "PROPPATCH" /\ q = Source(r)
                ELSE Value(props', q) =
                        IF Op(r).kind \in {"COPY", "COPY0"} /\ (q = Target(r) \/ Descendant(Target(r), q))
                        THEN Value(props, Source(r) \o Suffix(q, Target(r))) ELSE {}]_vars

\* The logical tree: names and contents as the database lists them.
Listed == [p \in DOMAIN rows |-> rows[p].data]
Abstract == INSTANCE FileTree WITH tree <- Listed

\* As long as nothing fails, what a dozen statements and renames of several requests
\* do to that tree, one commit after the other, is what one atomic operation at a
\* time would do.
ImplementsFileTree == Abstract!Init /\ [][faults = {} => Abstract!Next]_Listed
=============================================================================
