----------------------------- MODULE WebDavLocks -----------------------------
(***************************************************************************)
(* The WebDAV locks of clients (class 2): table locks, LOCK, UNLOCK, the   *)
(* janitor, and the checks of the handlers that change the tree            *)
(* (handlers/webdav.go).  One user's locks; the path locks of              *)
(* AdvisoryLocks are something else and are left out: they only forbid     *)
(* interleavings that are allowed here.                                    *)
(*                                                                         *)
(* In PostgreSQL NOW() is the time at which the transaction began, a SELECT *)
(* ... FOR UPDATE keeps the rows it has read from being changed until the  *)
(* transaction ends, and LOCK TABLE ... IN SHARE ROW EXCLUSIVE MODE keeps  *)
(* out other LOCK requests and every writer of the table, not FOR UPDATE.  *)
(***************************************************************************)
EXTENDS IfHeader, FiniteSets

CONSTANTS Locker,     \* LOCK requests that may run at the same time
          Writer,     \* requests that change the tree
          LockOps,    \* the locks asked for: [path, depth, scope, secs]
          WriteOps,   \* the changes asked for: [kind, path, dest]
          Forms,      \* the If headers sent, a subset of AllForms
          MaxTime,    \* bound on the clock
          MaxAsked    \* bound on the LOCK requests

Kinds == {"PUT", "DELETE", "MOVE", "COPY", "MKCOL", "ASSEMBLE"}
AllForms == {"none", "token", "either", "both", "negated", "etag", "tagged", "malformed"}

ASSUME WebDavLocksAssumption ==
    /\ MaxTime \in Nat /\ MaxAsked \in Nat
    /\ Forms \subseteq AllForms
    /\ LockOps \subseteq [path : Path, depth : {"0", "infinity"},
                          scope : {"exclusive", "shared"}, secs : Nat \ {0}]
    /\ WriteOps \subseteq [kind : Kinds, path : Path, dest : Path]
    /\ \A o \in WriteOps : o.kind \notin {"MOVE", "COPY"} => o.dest = o.path

VARIABLES now,      \* the clock
          asked,    \* LOCK requests so far
          locks,    \* table locks: [path, depth, scope, until] of each token
          used,     \* tokens drawn so far
          revived,  \* history: tokens of locks refreshed after they had run out
          table,    \* the LOCK requests that hold the table lock
          lock,     \* what each LOCK request is doing
          write     \* what each change is doing

vars == <<now, asked, locks, used, revived, table, lock, write>>

NoLockRequest == [pc |-> "idle", op |-> [path |-> Root, depth |-> "0", scope |-> "shared", secs |-> 0],
                  refresh |-> NoToken, began |-> 0]
NoHeader == << >>
NoWrite == [pc |-> "idle", kind |-> "PUT", todo |-> << >>, header |-> NoHeader, began |-> 0,
            rows |-> {}, standing |-> {}]

Init ==
    /\ now = 0 /\ asked = 0
    /\ locks = [t \in {} |-> {}]
    /\ used = {}
    /\ revived = {}
    /\ table = {}
    /\ lock = [c \in Locker |-> NoLockRequest]
    /\ write = [w \in Writer |-> NoWrite]

ActiveAt(t, time) == t \in DOMAIN locks /\ locks[t].until > time

\* davLockCoversRel, and the condition of checkLockTx.
Covers(k, p) == k.path = p \/ (k.depth = "infinity" /\ Descendant(k.path, p))

\* The condition of LOCK's conflict query, for locks k and l.
ConflictsUpward(k, l) ==    \* faulty variant: locks below a new deep lock are missed
    /\ k.scope = "exclusive" \/ l.scope = "exclusive"
    /\ Covers(k, l.path)
Conflicts(k, l) ==
    /\ k.scope = "exclusive" \/ l.scope = "exclusive"
    /\ Covers(k, l.path) \/ Covers(l, k.path)

\* FOR UPDATE: the rows a check has found belong to its request until it ends.
NeverLocked(S) == FALSE    \* faulty variant: without FOR UPDATE
RowLocked(S) == \E w \in Writer : write[w].rows \cap S # {}

-----------------------------------------------------------------------------
(* LOCK (handleDAVLock).                                                   *)

\* BEGIN fixes NOW(); the If header may carry the token of a lock to refresh.
BeginLock(c, o, t) ==
    /\ lock[c].pc = "idle" /\ asked < MaxAsked
    /\ asked' = asked + 1
    /\ lock' = [lock EXCEPT ![c] = [pc |-> "begun", op |-> o, refresh |-> t, began |-> now]]
    /\ UNCHANGED <<now, locks, used, revived, table, write>>

\* LOCK TABLE locks
TakeTable(c) ==
    /\ lock[c].pc = "begun" /\ table = {}
    /\ table' = {c}
    /\ lock' = [lock EXCEPT ![c].pc = "locking"]
    /\ UNCHANGED <<now, asked, locks, used, revived, write>>

\* The transaction ends; whatever its outcome, the table is free again.
Answer(c) ==
    /\ lock' = [lock EXCEPT ![c] = NoLockRequest]
    /\ table' = table \ {c}

Until(c) == lock[c].began + lock[c].op.secs

Refreshable(c) == ActiveAt(lock[c].refresh, lock[c].began)

\* UPDATE locks SET timeout_at: a lock that was valid when the transaction began.
Refresh(c) ==
    /\ lock[c].pc = "locking" /\ Refreshable(c)
    /\ ~ RowLocked({lock[c].refresh})
    /\ locks' = [locks EXCEPT ![lock[c].refresh].until = Until(c)]
    /\ revived' = IF ActiveAt(lock[c].refresh, now) THEN revived ELSE revived \cup {lock[c].refresh}
    /\ Answer(c)
    /\ UNCHANGED <<now, asked, used, write>>

Conflicting(c) == \E t \in DOMAIN locks : ActiveAt(t, lock[c].began) /\ Conflicts(locks[t], lock[c].op)

\* newLockToken and the INSERT; the lock may have run out already when the client hears of it.
Create(c) ==
    /\ lock[c].pc = "locking" /\ ~ Refreshable(c) /\ ~ Conflicting(c)
    /\ \E fresh \in Token \ used :
          /\ used' = used \cup {fresh}
          /\ locks' = [t \in DOMAIN locks \cup {fresh} |->
                          IF t # fresh THEN locks[t]
                          ELSE [path |-> lock[c].op.path, depth |-> lock[c].op.depth,
                                scope |-> lock[c].op.scope, until |-> Until(c)]]
    /\ Answer(c)
    /\ UNCHANGED <<now, asked, revived, write>>

\* 423 Locked
DenyAndStay(c) ==    \* faulty variant: the transaction of a refused request stays open
    /\ lock[c].pc = "locking" /\ ~ Refreshable(c) /\ Conflicting(c)
    /\ lock' = [lock EXCEPT ![c] = NoLockRequest]
    /\ UNCHANGED <<now, asked, locks, used, revived, table, write>>
Deny(c) ==
    /\ lock[c].pc = "locking" /\ ~ Refreshable(c) /\ Conflicting(c)
    /\ Answer(c)
    /\ UNCHANGED <<now, asked, locks, used, revived, write>>

\* A statement fails or the client goes away: the transaction is rolled back.
Abandon(c) ==
    /\ lock[c].pc \in {"begun", "locking"}
    /\ Answer(c)
    /\ UNCHANGED <<now, asked, locks, used, revived, write>>

-----------------------------------------------------------------------------
(* UNLOCK (handleDAVUnlock) and the janitor (runJanitor) delete rows.      *)

Without(S) == [t \in DOMAIN locks \ S |-> locks[t]]

Unlock(t) ==
    /\ t \in DOMAIN locks
    /\ table = {} /\ ~ RowLocked({t})
    /\ locks' = Without({t})
    /\ UNCHANGED <<now, asked, used, revived, table, lock, write>>

\* The DELETE began at some time up to now and has waited for its rows since.
Purge ==
    /\ table = {}
    /\ \E time \in 0..now :
          LET old == {t \in DOMAIN locks : locks[t].until < time}
          IN /\ old # {} /\ ~ RowLocked(old)
             /\ locks' = Without(old)
    /\ UNCHANGED <<now, asked, used, revived, table, lock, write>>

-----------------------------------------------------------------------------
(* The checks of the handlers that change the tree.                        *)

\* checkLockTx on what is written, checkLockSubtreeTx on what is taken away.
\* PUT stands for PROPPATCH too.  MKCOL, and the MOVE that assembles a chunked upload
\* ("ASSEMBLE", upload.go), look at no lock.
Checks(o) ==
    CASE o.kind = "PUT" -> <<[how |-> "covering", path |-> o.path]>>
      [] o.kind = "DELETE" -> <<[how |-> "subtree", path |-> o.path]>>
      [] o.kind = "MOVE" -> <<[how |-> "subtree", path |-> o.path],
                              [how |-> "covering", path |-> o.dest]>>
      [] o.kind = "COPY" -> <<[how |-> "covering", path |-> o.dest]>>
      [] OTHER -> << >>

\* Whether check k looks at a lock.
Concerns(k, l) ==
    Covers(l, k.path) \/ (k.how = "subtree" /\ Descendant(k.path, l.path))

\* The If headers of a request on path p, with tokens t and u that have been handed out.
Header(form, p, t, u) ==
    LET Just(n) == <<Mark("("), Angle(n), Mark(")")>>
    IN  CASE form = "none" -> NoHeader
          [] form = "token" -> Just(t)
          [] form = "either" -> Just(t) \o <<Mark("("), Mark("Not"), Angle(NoToken), Mark(")")>>
          [] form = "both" -> Just(t) \o Just(u)
          [] form = "negated" -> <<Mark("("), Mark("Not"), Angle(t), Mark(")")>>
          [] form = "etag" -> <<Mark("("), Square(p), Mark(")"),
                                Mark("("), Angle(t), Square(p), Mark(")")>>
          [] form = "tagged" -> <<Angle(Parent(p))>> \o Just(t)
          [] form = "malformed" -> <<Mark("("), Angle(t)>>

\* Whether check k lets the request pass, given the locks it has found: checkLockTx
\* parses the header, checkLockSubtreeTx wants its first token and no other lock.
Passes(k, raw, active) ==
    IF k.how = "covering"
    THEN IF raw = NoHeader THEN active = {}
         ELSE /\ WellFormed(raw)
              /\ LET lockPaths == {locks[t].path : t \in active}
                 IN  Allows({l \in Lists(raw) : Applies(l, k.path, lockPaths)}, active, k.path)
    ELSE IF active = {} THEN Mentioned(raw) = {}
         ELSE \E t \in active : IsFirst(raw, t) /\ active = {t}

\* The locks check k finds, at the time its transaction began.
Found(w, k) == {t \in DOMAIN locks : ActiveAt(t, write[w].began) /\ Concerns(k, locks[t])}

\* What a request names: the resource it writes, and all it takes away.
Touched(o) == {p \in Path : \/ p = o.dest
                            \/ o.kind \in {"DELETE", "MOVE"} /\ (p = o.path \/ Descendant(o.path, p))}

BeginWrite(w, o, form, t, u) ==
    /\ write[w].pc = "idle"
    /\ write' = [write EXCEPT ![w] =
                    [pc |-> "begun", kind |-> o.kind, todo |-> Checks(o),
                     header |-> Header(form, o.dest, t, u), began |-> now, rows |-> {},
                     standing |-> {k \in DOMAIN locks : /\ ActiveAt(k, now)
                                                        /\ \E p \in Touched(o) : Covers(locks[k], p)}]]
    /\ UNCHANGED <<now, asked, locks, used, revived, table, lock>>

\* One check: SELECT ... FOR UPDATE and the decision; the next one follows.
Check(w) ==
    /\ write[w].pc = "begun" /\ write[w].todo # << >>
    /\ LET k == Head(write[w].todo)
           found == Found(w, k)
       IN /\ ~ RowLocked(found \ write[w].rows)
          /\ Passes(k, write[w].header, found)
          /\ write' = [write EXCEPT ![w].todo = Tail(@), ![w].rows = @ \cup found]
    /\ UNCHANGED <<now, asked, locks, used, revived, table, lock>>

\* All checks are passed and the change is committed.
Commit(w) ==
    /\ write[w].pc = "begun" /\ write[w].todo = << >>
    /\ write' = [write EXCEPT ![w] = NoWrite]
    /\ UNCHANGED <<now, asked, locks, used, revived, table, lock>>

\* A check says no, another one fails, or the database breaks a deadlock of
\* row locks.
Fail(w) ==
    /\ write[w].pc = "begun"
    /\ write' = [write EXCEPT ![w] = NoWrite]
    /\ UNCHANGED <<now, asked, locks, used, revived, table, lock>>

-----------------------------------------------------------------------------
Tick ==
    /\ now < MaxTime
    /\ now' = now + 1
    /\ UNCHANGED <<asked, locks, used, revived, table, lock, write>>

\* The clock and the LOCK requests are used up.
Done ==
    /\ now = MaxTime /\ asked = MaxAsked
    /\ UNCHANGED vars

Next ==
    \/ \E c \in Locker :
        \/ \E o \in LockOps, t \in used \cup {NoToken} : BeginLock(c, o, t)
        \/ TakeTable(c) \/ Refresh(c) \/ Create(c) \/ Deny(c) \/ Abandon(c)
    \/ \E t \in Token : Unlock(t)
    \/ Purge
    \/ \E w \in Writer :
        \/ \E o \in WriteOps, form \in Forms, t, u \in used : BeginWrite(w, o, form, t, u)
        \/ Check(w) \/ Commit(w) \/ Fail(w)
    \/ Tick
    \/ Done

Spec == Init /\ [][Next]_vars

-----------------------------------------------------------------------------
\* Type invariant: besides the types, the table lock belongs to the one request
\* that is looking at the table.
TypeOK ==
    /\ now \in 0..MaxTime /\ asked \in 0..MaxAsked
    /\ DOMAIN locks \subseteq used /\ used \subseteq Token /\ revived \subseteq used
    /\ \A t \in DOMAIN locks :
          locks[t].path \in Path /\ locks[t].depth \in {"0", "infinity"}
          /\ locks[t].scope \in {"exclusive", "shared"} /\ locks[t].until \in Nat
    /\ table = {c \in Locker : lock[c].pc = "locking"} /\ Cardinality(table) <= 1
    /\ \A c \in Locker : lock[c].pc \in {"idle", "begun", "locking"} /\ lock[c].began <= now
    /\ \A w \in Writer : write[w].pc \in {"idle", "begun"} /\ write[w].rows \subseteq Token

Passed(w) == write[w].pc = "begun" /\ write[w].todo = << >>

\* MKCOL and the end of a chunked upload look at no lock (davlocks_unchecked).
LooksAtLocks(w) == write[w].kind \in {"PUT", "DELETE", "MOVE", "COPY"}

\* The tokens a request presents.  DELETE and MOVE take every token in the header for
\* presented, the one behind a Not too (davlocks_negated).
Presented(w) == Asserted(write[w].header)
                \cup IF write[w].kind \in {"DELETE", "MOVE"} THEN Mentioned(write[w].header) ELSE {}

\* The locks that stood when the request began and have stood since, but for those
\* excused, keep it out unless it presents the token of a lock it has found; the token of
\* an exclusive one it has to present, or that of an excused lock it has found.
KeptOut(w, presented, excused) ==
    LET left == {t \in write[w].standing \ excused : ActiveAt(t, write[w].began)}
        shown == presented \cap write[w].rows
    IN  /\ left # {} => shown # {}
        /\ \A t \in left :
              locks[t].scope = "exclusive" => t \in presented \/ shown \cap excused # {}

\* A lock that protected something a request names when the request began, and
\* has not been given back or cut short since, keeps the request out unless the
\* request presents its token (for a shared lock, the token of one that covers the
\* resource), while others lock, unlock and refresh.  Under three conditions, each of which
\* the code fails without: the request is of a kind that looks at locks at all
\* (LockedOutOfAll); DELETE and MOVE may present the token behind a Not
\* (LockedOutUnlessAsserted); and neither the lock nor the one whose token is presented was
\* refreshed after it had run out, by a LOCK that had waited for the table (LockedOutAlways).
LockedOut ==
    \A w \in Writer : Passed(w) /\ LooksAtLocks(w) => KeptOut(w, Presented(w), revived)

\* The same without the third condition.  The code breaks this: a waiting LOCK refreshes an
\* exclusive lock that has run out and been replaced, both stand, and a request that presents
\* one of their tokens passes (davlocks_revived).
LockedOutAlways ==
    \A w \in Writer : Passed(w) /\ LooksAtLocks(w) => KeptOut(w, Presented(w), {})

\* Without the second: a token behind a Not is not presented.  The code breaks this: the
\* check of DELETE and MOVE takes the first token it finds (extractLockToken).
LockedOutUnlessAsserted ==
    \A w \in Writer :
        Passed(w) /\ LooksAtLocks(w) => KeptOut(w, Asserted(write[w].header), revived)

\* Without the first.  The code breaks this: MKCOL makes a collection, and a chunked upload
\* ends, where somebody else has locked.
LockedOutOfAll == \A w \in Writer : Passed(w) => KeptOut(w, Presented(w), revived)

\* A request that its token has let through is over before the lock is given back,
\* or cleared away after it has run out: nobody has been told meanwhile that the
\* path is free.
TokenHeld == \A w \in Writer : Passed(w) => write[w].rows \subseteq DOMAIN locks

Compatible(T) ==
    \A t, u \in T : t # u /\ ActiveAt(t, now) /\ ActiveAt(u, now) => ~ Conflicts(locks[t], locks[u])

\* Of two locks in force together that exclude each other, one was refreshed after it had
\* run out: LOCK requests that wait for the table, each with the time at which it began,
\* cause no other conflict.
LocksCompatible == Compatible(DOMAIN locks \ revived)

\* Two locks that exclude each other are never in force together.  The code breaks this: a
\* LOCK may refresh a lock that has run out while it waited for the table, and that another
\* request has taken for gone (davlocks_stale).
LocksAlwaysCompatible == Compatible(DOMAIN locks)

\* The locks in force.  One that was refreshed after it had run out has ended: the promise
\* of ResourceLocks does not extend to it.
InForce ==
    {[token |-> t, path |-> locks[t].path, depth |-> locks[t].depth, scope |-> locks[t].scope] :
        t \in {u \in DOMAIN locks \ revived : ActiveAt(u, now)}}

Promise == INSTANCE ResourceLocks WITH held <- InForce

\* Seen from the outside a lock is granted in one step, against all that are in force at
\* that moment and protect a resource it protects, although LOCK looks at the table as of
\* an earlier time, the one at which its transaction began, and compares no resources, only
\* the paths of locks.  The locks that a late refresh revived are not in force here: with
\* them it fails as LocksAlwaysCompatible does.
ImplementsResourceLocks == Promise!Spec
=============================================================================
