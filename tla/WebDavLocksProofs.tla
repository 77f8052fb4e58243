-------------------------- MODULE WebDavLocksProofs --------------------------
(***************************************************************************)
(* Proofs about WebDavLocks, for every tree of paths and any number of     *)
(* locks, LOCK requests and changes: type correctness; that a request its  *)
(* token let through is over before the lock goes; and, but for locks that *)
(* were refreshed after they had run out, that locks which exclude each    *)
(* other are never in force together, that LOCK implements ResourceLocks,  *)
(* and that a standing lock keeps out every request that looks at locks    *)
(* and does not present its token.  Last, about If headers: the parser     *)
(* agrees with the grammar.                                                *)
(***************************************************************************)
EXTENDS WebDavLocks, FiniteSetTheorems, SequenceTheorems, WellFoundedInduction, TLAPS

Tokens == Token \cup {NoToken}
LockRows == [path : Path, depth : {"0", "infinity"}, scope : {"exclusive", "shared"}, until : Nat]
Ops == [path : Path, depth : {"0", "infinity"}, scope : {"exclusive", "shared"}, secs : Nat]
LockRequests == [pc : {"idle", "begun", "locking"}, op : Ops, refresh : Tokens, began : Nat]
Headers == {NoHeader} \cup {Header(form, p, t, u) : form \in Forms, p \in Path, t \in Token, u \in Token}
CheckSet == [how : {"covering", "subtree"}, path : Path]
Writes == [pc : {"idle", "begun"}, kind : Kinds, todo : Seq(CheckSet), header : Headers, began : Nat,
           rows : SUBSET Token, standing : SUBSET Token]

(***************************************************************************)
(* The inductive invariants.  LocksCompatible is inductive beside the      *)
(* types: a LOCK request decides as of the time at which it began, and     *)
(* what is in force now was in force then, unless it was refreshed after   *)
(* it had run out.                                                         *)
(***************************************************************************)

\* One LOCK request at a time looks at the table.
OneLocks == \A c, d \in Locker : lock[c].pc = "locking" /\ lock[d].pc = "locking" => c = d

\* Rows that a check has read FOR UPDATE are not deleted before its request ends.
RowsStay == \A w \in Writer : write[w].rows \subseteq DOMAIN locks

IInv ==
    /\ TypeOK
    /\ locks \in [DOMAIN locks -> LockRows]
    /\ lock \in [Locker -> LockRequests]
    /\ write \in [Writer -> Writes]
    /\ OneLocks
    /\ RowsStay

CInv == IInv /\ LocksCompatible

-----------------------------------------------------------------------------
\* Checks returns a sequence of checks.
LEMMA ChecksTyped == \A o \in WriteOps : Checks(o) \in Seq(CheckSet)
<1> SUFFICES ASSUME NEW o \in WriteOps PROVE Checks(o) \in Seq(CheckSet)
  OBVIOUS
<1>1. o.path \in Path /\ o.dest \in Path
  BY WebDavLocksAssumption
<1>2. /\ [how |-> "covering", path |-> o.path] \in CheckSet
      /\ [how |-> "covering", path |-> o.dest] \in CheckSet
      /\ [how |-> "subtree", path |-> o.path] \in CheckSet
  BY <1>1 DEF CheckSet
<1>3. QED
  BY <1>2 DEF Checks

-----------------------------------------------------------------------------
\* An empty table satisfies the invariants.
LEMMA InitInvariant == Init => CInv
<1> SUFFICES ASSUME Init PROVE CInv
  OBVIOUS
<1>1. NoLockRequest \in LockRequests /\ NoLockRequest.pc = "idle" /\ NoLockRequest.began = 0
  BY PathAssumption DEF NoLockRequest, LockRequests, Ops, Tokens
<1>2. NoWrite \in Writes /\ NoWrite.pc = "idle" /\ NoWrite.rows = {}
  BY DEF NoWrite, Writes, Headers, Kinds
<1>3. DOMAIN locks = {} /\ locks \in [DOMAIN locks -> LockRows]
  BY DEF Init
<1>4. /\ lock \in [Locker -> LockRequests] /\ \A c \in Locker : lock[c] = NoLockRequest
      /\ write \in [Writer -> Writes] /\ \A w \in Writer : write[w] = NoWrite
  BY <1>1, <1>2 DEF Init
<1>5. /\ Cardinality(table) <= 1 /\ table = {} /\ now \in 0..MaxTime /\ asked \in 0..MaxAsked
      /\ used = {} /\ revived = {} /\ now = 0
  BY FS_EmptySet, WebDavLocksAssumption DEF Init
<1>6. TypeOK
  BY <1>1, <1>2, <1>3, <1>4, <1>5 DEF TypeOK
<1>7. OneLocks /\ RowsStay
  BY <1>1, <1>2, <1>4 DEF OneLocks, RowsStay
<1>8. LocksCompatible
  BY <1>3 DEF LocksCompatible, Compatible
<1>9. QED
  BY <1>3, <1>4, <1>6, <1>7, <1>8 DEF CInv, IInv

\* A step of one LOCK request, given what it leaves of the table of locks.
LEMMA LockStep ==
    ASSUME IInv, NEW c \in Locker, NEW l \in LockRequests,
           lock' = [lock EXCEPT ![c] = l], now' = now, write' = write,
           locks' \in [DOMAIN locks' -> LockRows], DOMAIN locks \subseteq DOMAIN locks',
           DOMAIN locks' \subseteq used', used' \subseteq Token, revived' \subseteq used',
           asked' \in 0..MaxAsked, l.began <= now,
           \/ l.pc = "locking" /\ table = {} /\ table' = {c}
           \/ l.pc = "idle" /\ table' = table \ {c}
           \/ l.pc = "begun" /\ lock[c].pc = "idle" /\ table' = table
    PROVE  IInv'
<1>1. /\ lock' \in [Locker -> LockRequests] /\ lock'[c] = l
      /\ \A d \in Locker \ {c} : lock'[d] = lock[d]
      /\ table = {d \in Locker : lock[d].pc = "locking"}
  BY DEF IInv, TypeOK
<1>2. table' = {d \in Locker : lock'[d].pc = "locking"}
  BY <1>1
<1>3. OneLocks'
  BY <1>1 DEF IInv, OneLocks
<1>4. Cardinality(table') <= 1
  <2>1. CASE table' = {}
    BY <2>1, FS_EmptySet
  <2>2. CASE table' # {}
    <3>1. PICK d \in table' : TRUE
      BY <2>2
    <3>2. table' = {d}
      BY <1>2, <1>3, <3>1 DEF OneLocks
    <3>3. Cardinality({d}) = 1
      BY FS_Singleton
    <3>4. QED
      BY <3>2, <3>3
  <2>3. QED
    BY <2>1, <2>2
<1>5. \A t \in DOMAIN locks' :
          locks'[t].path \in Path /\ locks'[t].depth \in {"0", "infinity"}
          /\ locks'[t].scope \in {"exclusive", "shared"} /\ locks'[t].until \in Nat
  BY DEF LockRows
<1>6. \A d \in Locker : lock'[d].pc \in {"idle", "begun", "locking"} /\ lock'[d].began <= now'
  BY <1>1 DEF IInv, TypeOK, LockRequests
<1>7. TypeOK'
  BY <1>2, <1>4, <1>5, <1>6 DEF IInv, TypeOK
<1>8. RowsStay'
  BY DEF IInv, RowsStay
<1>9. QED
  BY <1>1, <1>3, <1>7, <1>8 DEF IInv

\* Steps of LOCK requests preserve the first invariant.
LEMMA LockInvariant ==
    ASSUME IInv, NEW c \in Locker,
           \/ \E o \in LockOps, t \in used \cup {NoToken} : BeginLock(c, o, t)
           \/ TakeTable(c) \/ Refresh(c) \/ Create(c) \/ Deny(c) \/ Abandon(c)
    PROVE  IInv'
<1>1. /\ lock[c] \in LockRequests /\ now \in Nat /\ lock[c].began <= now
      /\ locks \in [DOMAIN locks -> LockRows]
      /\ DOMAIN locks \subseteq used /\ used \subseteq Token /\ revived \subseteq used
      /\ asked \in 0..MaxAsked
  BY WebDavLocksAssumption DEF IInv, TypeOK
<1>2. /\ NoLockRequest \in LockRequests /\ NoLockRequest.pc = "idle"
      /\ NoLockRequest.began = 0
  BY PathAssumption DEF NoLockRequest, LockRequests, Ops, Tokens
<1>3. ASSUME lock' = [lock EXCEPT ![c] = NoLockRequest], table' = table \ {c}, now' = now,
             write' = write, asked' = asked, used' \subseteq Token, revived' \subseteq used',
             locks' \in [DOMAIN locks' -> LockRows], DOMAIN locks \subseteq DOMAIN locks',
             DOMAIN locks' \subseteq used'
      PROVE  IInv'
  <2>1. NoLockRequest.began <= now
    BY <1>1, <1>2
  <2>2. QED
    BY <1>1, <1>2, <1>3, <2>1, LockStep
<1>4. CASE \E o \in LockOps, t \in used \cup {NoToken} : BeginLock(c, o, t)
  <2>1. PICK o \in LockOps, t \in used \cup {NoToken} :
            /\ lock[c].pc = "idle" /\ asked < MaxAsked /\ asked' = asked + 1
            /\ lock' = [lock EXCEPT ![c] = [pc |-> "begun", op |-> o, refresh |-> t, began |-> now]]
            /\ UNCHANGED <<now, locks, used, revived, table, write>>
    BY <1>4 DEF BeginLock
  <2> DEFINE l == [pc |-> "begun", op |-> o, refresh |-> t, began |-> now]
  <2>2. o \in Ops
    BY WebDavLocksAssumption DEF Ops
  <2>3. l \in LockRequests /\ l.pc = "begun" /\ l.began <= now
    BY <1>1, <2>1, <2>2 DEF LockRequests, Tokens
  <2>4. lock' = [lock EXCEPT ![c] = l]
    BY <2>1
  <2>5. asked' \in 0..MaxAsked
    BY <1>1, <2>1, WebDavLocksAssumption
  <2> HIDE DEF l
  <2>6. QED
    BY <1>1, <2>1, <2>3, <2>4, <2>5, LockStep
<1>5. CASE TakeTable(c)
  <2> DEFINE l == [lock[c] EXCEPT !.pc = "locking"]
  <2>1. l \in LockRequests /\ l.pc = "locking" /\ l.began = lock[c].began
    BY <1>1 DEF LockRequests
  <2>2. /\ lock' = [lock EXCEPT ![c] = l] /\ lock[c].pc = "begun"
        /\ table = {} /\ table' = {c} /\ UNCHANGED <<now, asked, locks, used, revived, write>>
    BY <1>5 DEF TakeTable
  <2> HIDE DEF l
  <2>3. QED
    BY <1>1, <2>1, <2>2, LockStep
<1>6. Until(c) \in Nat
  BY <1>1 DEF Until, LockRequests, Ops
<1>7. CASE Refresh(c)
  <2>1. locks' = [locks EXCEPT ![lock[c].refresh].until = Until(c)] /\ lock[c].refresh \in DOMAIN locks
    BY <1>7 DEF Refresh, Refreshable, ActiveAt
  <2>2. DOMAIN locks' = DOMAIN locks /\ locks' \in [DOMAIN locks' -> LockRows]
    BY <1>1, <1>6, <2>1 DEF LockRows
  <2>3. revived' \subseteq used
    BY <1>1, <1>7, <2>1 DEF Refresh
  <2>4. QED
    BY <1>1, <1>3, <1>7, <2>2, <2>3 DEF Refresh, Answer
<1>8. CASE Create(c)
  <2> DEFINE row == [path |-> lock[c].op.path, depth |-> lock[c].op.depth,
                     scope |-> lock[c].op.scope, until |-> Until(c)]
  <2>1. row \in LockRows
    BY <1>1, <1>6 DEF LockRequests, Ops, LockRows
  <2>2. PICK fresh \in Token \ used :
            /\ used' = used \cup {fresh}
            /\ locks' = [t \in DOMAIN locks \cup {fresh} |-> IF t # fresh THEN locks[t] ELSE row]
    BY <1>8 DEF Create
  <2> HIDE DEF row
  <2>3. /\ DOMAIN locks' = DOMAIN locks \cup {fresh}
        /\ locks' \in [DOMAIN locks' -> LockRows]
    BY <1>1, <2>1, <2>2
  <2>4. /\ DOMAIN locks' \subseteq used' /\ DOMAIN locks \subseteq DOMAIN locks'
        /\ used' \subseteq Token /\ revived' \subseteq used'
    BY <1>1, <1>8, <2>2, <2>3 DEF Create
  <2>5. QED
    BY <1>3, <1>8, <2>3, <2>4 DEF Create, Answer
<1>9. CASE Deny(c) \/ Abandon(c)
  BY <1>1, <1>3, <1>9 DEF Deny, Abandon, Answer
<1>10. QED
  BY <1>4, <1>5, <1>7, <1>8, <1>9

\* UNLOCK and the janitor delete rows that no check has read.
LEMMA DeleteInvariant ==
    ASSUME IInv, NEW S, ~ RowLocked(S), locks' = Without(S),
           UNCHANGED <<now, asked, used, revived, table, lock, write>>
    PROVE  IInv'
<1>1. /\ DOMAIN locks' = DOMAIN locks \ S /\ locks' \in [DOMAIN locks' -> LockRows]
      /\ \A t \in DOMAIN locks' : locks'[t] = locks[t]
  BY DEF Without, IInv
<1>2. RowsStay'
  BY <1>1 DEF RowLocked, IInv, RowsStay
<1>3. TypeOK'
  BY <1>1 DEF IInv, TypeOK
<1>4. OneLocks'
  BY DEF IInv, OneLocks
<1>5. QED
  BY <1>1, <1>2, <1>3, <1>4 DEF IInv

\* A step of one change.
LEMMA WriteStep ==
    ASSUME IInv, NEW w \in Writer, NEW v \in Writes, v.rows \subseteq DOMAIN locks,
           write' = [write EXCEPT ![w] = v], UNCHANGED <<now, asked, locks, used, revived, table, lock>>
    PROVE  IInv'
<1>1. /\ write' \in [Writer -> Writes] /\ write'[w] = v
      /\ \A x \in Writer \ {w} : write'[x] = write[x]
  BY DEF IInv
<1>2. RowsStay'
  BY <1>1 DEF IInv, RowsStay
<1>3. TypeOK'
  BY <1>1 DEF IInv, TypeOK, Writes
<1>4. OneLocks'
  BY DEF IInv, OneLocks
<1>5. QED
  BY <1>1, <1>2, <1>3, <1>4 DEF IInv

\* Steps of changes preserve the first invariant.
LEMMA WriteInvariant ==
    ASSUME IInv, NEW w \in Writer,
           \/ \E o \in WriteOps, form \in Forms, t, u \in used : BeginWrite(w, o, form, t, u)
           \/ Check(w) \/ Commit(w) \/ Fail(w)
    PROVE  IInv'
<1>1. /\ write[w] \in Writes /\ now \in Nat /\ used \subseteq Token
      /\ DOMAIN locks \subseteq Token /\ write[w].rows \subseteq DOMAIN locks
  BY WebDavLocksAssumption DEF IInv, TypeOK, RowsStay
<1>2. CASE \E o \in WriteOps, form \in Forms, t, u \in used : BeginWrite(w, o, form, t, u)
  <2>1. PICK o \in WriteOps, form \in Forms, t \in used, u \in used : BeginWrite(w, o, form, t, u)
    BY <1>2
  <2> DEFINE standing == {k \in DOMAIN locks : /\ ActiveAt(k, now)
                                               /\ \E p \in Touched(o) : Covers(locks[k], p)}
             v == [pc |-> "begun", kind |-> o.kind, todo |-> Checks(o),
                   header |-> Header(form, o.dest, t, u), began |-> now, rows |-> {}, standing |-> standing]
  <2>2. /\ Checks(o) \in Seq(CheckSet) /\ o.kind \in Kinds
        /\ Header(form, o.dest, t, u) \in Headers
    BY <1>1, ChecksTyped, WebDavLocksAssumption DEF Headers, Kinds
  <2>3. standing \subseteq Token
    BY <1>1
  <2>4. write' = [write EXCEPT ![w] = v] /\ UNCHANGED <<now, asked, locks, used, revived, table, lock>>
    BY <2>1 DEF BeginWrite
  <2> HIDE DEF standing
  <2>5. v \in Writes /\ v.rows = {}
    BY <1>1, <2>2, <2>3 DEF Writes
  <2> HIDE DEF v
  <2>6. QED
    BY <2>4, <2>5, WriteStep
<1>3. CASE Check(w)
  <2> DEFINE found == Found(w, Head(write[w].todo))
             v == [write[w] EXCEPT !.todo = Tail(write[w].todo), !.rows = write[w].rows \cup found]
  <2>1. found \subseteq DOMAIN locks
    BY DEF Found
  <2>2. /\ write' = [write EXCEPT ![w] = v] /\ write[w].todo # << >>
        /\ UNCHANGED <<now, asked, locks, used, revived, table, lock>>
    BY <1>1, <1>3 DEF Check, IInv
  <2> HIDE DEF found
  <2>3. Tail(write[w].todo) \in Seq(CheckSet)
    BY <1>1, <2>2 DEF Writes
  <2>4. v \in Writes /\ v.rows = write[w].rows \cup found
    BY <1>1, <2>1, <2>3 DEF Writes
  <2> HIDE DEF v
  <2>5. QED
    BY <1>1, <2>1, <2>2, <2>4, WriteStep
<1>4. CASE Commit(w) \/ Fail(w)
  <2>1. NoWrite \in Writes /\ NoWrite.rows = {}
    BY DEF NoWrite, Writes, Headers, Kinds
  <2>2. write' = [write EXCEPT ![w] = NoWrite] /\ UNCHANGED <<now, asked, locks, used, revived, table, lock>>
    BY <1>4 DEF Commit, Fail
  <2>3. QED
    BY <2>1, <2>2, WriteStep
<1>5. QED
  BY <1>2, <1>3, <1>4

\* Time passes.
LEMMA TickInvariant ==
    ASSUME IInv, Tick
    PROVE  IInv'
<1>1. /\ now' = now + 1 /\ now' \in 0..MaxTime /\ now \in Nat
      /\ UNCHANGED <<asked, locks, used, revived, table, lock, write>>
  BY WebDavLocksAssumption DEF Tick, IInv, TypeOK
<1>2. \A c \in Locker : lock[c].began <= now'
  BY <1>1 DEF IInv, TypeOK, LockRequests
<1>3. TypeOK'
  BY <1>1, <1>2 DEF IInv, TypeOK
<1>4. QED
  BY <1>1, <1>3 DEF IInv, OneLocks, RowsStay

\* Every step preserves the first invariant.
LEMMA StepInvariant == IInv /\ [Next]_vars => IInv'
<1> SUFFICES ASSUME IInv, [Next]_vars PROVE IInv'
  OBVIOUS
<1>1. CASE UNCHANGED vars
  BY <1>1 DEF vars, IInv, TypeOK, OneLocks, RowsStay
<1>2. ASSUME NEW c \in Locker,
             \/ \E o \in LockOps, t \in used \cup {NoToken} : BeginLock(c, o, t)
             \/ TakeTable(c) \/ Refresh(c) \/ Create(c) \/ Deny(c) \/ Abandon(c)
      PROVE  IInv'
  BY <1>2, LockInvariant
<1>3. ASSUME NEW t \in Token, Unlock(t) PROVE IInv'
  BY <1>3, DeleteInvariant DEF Unlock
<1>4. CASE Purge
  BY <1>4, DeleteInvariant DEF Purge
<1>5. ASSUME NEW w \in Writer,
             \/ \E o \in WriteOps, form \in Forms, t, u \in used : BeginWrite(w, o, form, t, u)
             \/ Check(w) \/ Commit(w) \/ Fail(w)
      PROVE  IInv'
  BY <1>5, WriteInvariant
<1>6. CASE Tick
  BY <1>6, TickInvariant
<1>7. CASE Done
  BY <1>1, <1>7 DEF Done
<1>8. QED
  BY <1>1, <1>2, <1>3, <1>4, <1>5, <1>6, <1>7 DEF Next

-----------------------------------------------------------------------------
\* Whether two locks exclude each other does not depend on their order, nor on how
\* long they last.
LEMMA ConflictSymmetric == \A k, l : Conflicts(k, l) <=> Conflicts(l, k)
  BY DEF Conflicts

LEMMA ConflictOfFields ==
    ASSUME NEW k, NEW l, NEW m,
           k.path = m.path, k.depth = m.depth, k.scope = m.scope
    PROVE  Conflicts(k, l) <=> Conflicts(m, l)
  BY DEF Conflicts, Covers

\* A lock that is in force now was in force before, as the table stands.
LEMMA ActiveEarlier ==
    ASSUME IInv, NEW t, NEW early \in Nat, NEW late \in Nat, early <= late, ActiveAt(t, late)
    PROVE  ActiveAt(t, early)
<1>1. t \in DOMAIN locks /\ locks[t].until \in Nat
  BY DEF ActiveAt, IInv, TypeOK
<1>2. QED
  BY <1>1 DEF ActiveAt

\* A refresh brings no lock back into force that is not marked as revived.
LEMMA RefreshCompatible ==
    ASSUME CInv, NEW c \in Locker, Refresh(c)
    PROVE  LocksCompatible'
<1> DEFINE r == lock[c].refresh
<1>1. now' = now /\ r \in DOMAIN locks /\ locks' = [locks EXCEPT ![r].until = Until(c)]
  BY DEF Refresh, Refreshable, ActiveAt
<1>2. revived' = IF ActiveAt(r, now) THEN revived ELSE revived \cup {r}
  BY DEF Refresh
<1>3. /\ DOMAIN locks' = DOMAIN locks
      /\ \A t \in DOMAIN locks : /\ locks'[t].path = locks[t].path
                                 /\ locks'[t].depth = locks[t].depth
                                 /\ locks'[t].scope = locks[t].scope
      /\ \A t \in DOMAIN locks \ {r} : locks'[t] = locks[t]
  BY <1>1 DEF CInv, IInv, LockRows
<1> HIDE DEF r
<1>4. ASSUME NEW t \in DOMAIN locks' \ revived', ActiveAt(t, now)'
      PROVE  t \in DOMAIN locks \ revived /\ ActiveAt(t, now)
  <2>1. CASE t = r
    BY <1>2, <1>3, <1>4, <2>1
  <2>2. CASE t # r
    BY <1>1, <1>2, <1>3, <1>4, <2>2 DEF ActiveAt
  <2>3. QED
    BY <2>1, <2>2
<1>5. \A t, u \in DOMAIN locks : Conflicts(locks'[t], locks'[u]) <=> Conflicts(locks[t], locks[u])
  BY <1>3, ConflictOfFields, ConflictSymmetric
<1>6. QED
  BY <1>4, <1>5 DEF CInv, LocksCompatible, Compatible

\* A new lock is compatible with every lock in force when its request began.
LEMMA CreateCompatible ==
    ASSUME CInv, NEW c \in Locker, Create(c)
    PROVE  LocksCompatible'
<1> DEFINE began == lock[c].began
           op == lock[c].op
<1>1. /\ now' = now /\ now \in Nat /\ began \in Nat /\ began <= now
      /\ revived' = revived
      /\ \A t \in DOMAIN locks : ActiveAt(t, began) => ~ Conflicts(locks[t], op)
  BY WebDavLocksAssumption
     DEF Create, Conflicting, CInv, IInv, TypeOK, LockRequests
<1>2. PICK f \in Token \ used :
          /\ DOMAIN locks' = DOMAIN locks \cup {f}
          /\ \A t \in DOMAIN locks \ {f} : locks'[t] = locks[t]
          /\ locks'[f].path = op.path /\ locks'[f].depth = op.depth /\ locks'[f].scope = op.scope
  BY DEF Create
<1> HIDE DEF began, op
<1>3. \A t \in DOMAIN locks' \ {f} : ActiveAt(t, now)' => ActiveAt(t, now) /\ ActiveAt(t, began)
  <2>1. SUFFICES ASSUME NEW t \in DOMAIN locks' \ {f}, ActiveAt(t, now)'
                 PROVE  ActiveAt(t, now) /\ ActiveAt(t, began)
    OBVIOUS
  <2>2. ActiveAt(t, now)
    BY <1>1, <1>2, <2>1 DEF ActiveAt
  <2>3. QED
    BY <1>1, <2>2, ActiveEarlier DEF CInv
<1>4. \A t \in DOMAIN locks' \ {f} : ActiveAt(t, now)' =>
          ~ Conflicts(locks'[t], locks'[f]) /\ ~ Conflicts(locks'[f], locks'[t])
  BY <1>1, <1>2, <1>3, ConflictOfFields, ConflictSymmetric
<1>5. \A t, u \in DOMAIN locks' \ (revived' \cup {f}) :
          t # u /\ ActiveAt(t, now)' /\ ActiveAt(u, now)' => ~ Conflicts(locks'[t], locks'[u])
  BY <1>1, <1>2, <1>3 DEF CInv, LocksCompatible, Compatible
<1>6. QED
  BY <1>4, <1>5 DEF LocksCompatible, Compatible

\* Without a new or refreshed lock there is nothing new to be compatible with.
LEMMA FewerCompatible ==
    ASSUME CInv, DOMAIN locks' \subseteq DOMAIN locks, \A t \in DOMAIN locks' : locks'[t] = locks[t],
           revived' = revived, now' = now \/ (now' = now + 1)
    PROVE  LocksCompatible'
<1>1. now \in Nat /\ now' \in Nat /\ now <= now'
  BY WebDavLocksAssumption DEF CInv, IInv, TypeOK
<1>2. ASSUME NEW t \in DOMAIN locks', ActiveAt(t, now)' PROVE ActiveAt(t, now)
  <2>1. locks[t].until \in Nat /\ locks[t].until > now'
    BY <1>2 DEF ActiveAt, CInv, IInv, TypeOK
  <2>2. QED
    BY <1>1, <2>1 DEF ActiveAt
<1>3. QED
  BY <1>2 DEF CInv, LocksCompatible, Compatible

\* Every step preserves the second invariant.
LEMMA StepCompatible == CInv /\ [Next]_vars => CInv'
<1> SUFFICES ASSUME CInv, [Next]_vars PROVE LocksCompatible'
  BY StepInvariant DEF CInv
<1>1. ASSUME NEW S, locks' = Without(S), UNCHANGED <<now, revived>> PROVE LocksCompatible'
  <2>1. DOMAIN locks' \subseteq DOMAIN locks /\ \A t \in DOMAIN locks' : locks'[t] = locks[t]
    BY <1>1 DEF Without
  <2>2. QED
    BY <1>1, <2>1, FewerCompatible
<1>2. ASSUME UNCHANGED <<locks, revived>>, now' = now \/ now' = now + 1 PROVE LocksCompatible'
  BY <1>2, FewerCompatible
<1>3. CASE UNCHANGED vars
  BY <1>2, <1>3 DEF vars
<1>4. ASSUME NEW c \in Locker,
             \/ \E o \in LockOps, t \in used \cup {NoToken} : BeginLock(c, o, t)
             \/ TakeTable(c) \/ Deny(c) \/ Abandon(c)
      PROVE  LocksCompatible'
  BY <1>2, <1>4 DEF BeginLock, TakeTable, Deny, Abandon
<1>5. ASSUME NEW c \in Locker, Refresh(c) \/ Create(c) PROVE LocksCompatible'
  BY <1>5, RefreshCompatible, CreateCompatible
<1>6. ASSUME NEW t \in Token, Unlock(t) PROVE LocksCompatible'
  BY <1>1, <1>6 DEF Unlock
<1>7. CASE Purge
  BY <1>1, <1>7 DEF Purge
<1>8. ASSUME NEW w \in Writer,
             \/ \E o \in WriteOps, form \in Forms, t, u \in used : BeginWrite(w, o, form, t, u)
             \/ Check(w) \/ Commit(w) \/ Fail(w)
      PROVE  LocksCompatible'
  BY <1>2, <1>8 DEF BeginWrite, Check, Commit, Fail
<1>9. CASE Tick
  BY <1>2, <1>9 DEF Tick
<1>10. CASE Done
  BY <1>3, <1>10 DEF Done
<1>11. QED
  BY <1>3, <1>4, <1>5, <1>6, <1>7, <1>8, <1>9, <1>10 DEF Next

-----------------------------------------------------------------------------
\* The first invariant holds in every reachable state: types, one request at the
\* table, and the rows read FOR UPDATE are still there.
THEOREM Invariant == Spec => []IInv
<1>1. Init => IInv
  BY InitInvariant DEF CInv
<1>2. QED
  BY <1>1, StepInvariant, PTL DEF Spec

\* The clock, the table of locks and the requests keep their types, and the table
\* lock belongs to the one request that looks at the table.
THEOREM TypeCorrect == Spec => []TypeOK
<1>1. IInv => TypeOK
  BY DEF IInv
<1>2. QED
  BY <1>1, Invariant, PTL

\* A change that has passed its checks finds the locks whose tokens let it through
\* still in the table when it commits: UNLOCK and the janitor wait for it.
THEOREM TokensHeld == Spec => []TokenHeld
<1>1. IInv => TokenHeld
  BY DEF IInv, RowsStay, TokenHeld
<1>2. QED
  BY <1>1, Invariant, PTL

\* Of two locks in force together that exclude each other, one was refreshed after it had
\* run out: whatever else handleDAVLock, UNLOCK, the janitor and the clock do, for any tree and
\* any number of requests, however long they wait for the table lock, puts no two such locks
\* in force.
THEOREM LocksStayCompatible == Spec => []LocksCompatible
<1>1. CInv => LocksCompatible
  BY DEF CInv
<1>2. QED
  BY <1>1, InitInvariant, StepCompatible, PTL DEF Spec

(***************************************************************************)
(* A standing lock keeps out.                                              *)
(***************************************************************************)

Busy(w) == write[w].pc = "begun"
NamedBy(w) == Mentioned(write[w].header) \cup Asserted(write[w].header)

\* The locks that stood when the change began and have stood since, but for those that a
\* late refresh has brought back.
Left(w) == {t \in write[w].standing \ revived : ActiveAt(t, write[w].began)}

(***************************************************************************)
(* The inductive invariant.  A change judges the table as of the time at   *)
(* which it began, so what has to hold is about that time: how the locks   *)
(* that stood then get on with those it has tokens of.                     *)
(***************************************************************************)

\* What a change knows of was drawn before it began.
Known(w) ==
    write[w].began <= now /\ write[w].standing \subseteq used /\ NamedBy(w) \subseteq used

\* A standing lock and the locks the request has tokens of do not exclude each other.
GetOn(w) ==
    \A t \in Left(w), u \in NamedBy(w) \ revived :
        ActiveAt(u, write[w].began) /\ u # t => ~ Conflicts(locks[t], locks[u])

Answered(w, t) ==
    LET shown == Presented(w) \cap write[w].rows
    IN  /\ shown # {}
        /\ locks[t].scope = "exclusive" => t \in Presented(w) \/ shown \cap revived # {}

\* A standing lock is what some check to come looks for, or has been answered.
Covered(w) ==
    LooksAtLocks(w) =>
        \A t \in Left(w) : \/ \E i \in DOMAIN write[w].todo : Concerns(write[w].todo[i], locks[t])
                           \/ Answered(w, t)

TodoRight(w) ==
    \A i \in DOMAIN write[w].todo :
        write[w].todo[i].how = "subtree" => write[w].kind \in {"DELETE", "MOVE"}

Sound(w) == Known(w) /\ GetOn(w) /\ Covered(w) /\ TodoRight(w)

KInv == CInv /\ \A w \in Writer : Busy(w) => Sound(w)

-----------------------------------------------------------------------------
\* Of two paths above the same one, one is above the other or they are the same.
LEMMA PrefixesComparable ==
    ASSUME NEW a \in Path, NEW b \in Path, NEW p \in Path,
           a = p \/ Descendant(a, p), b = p \/ Descendant(b, p), Len(a) <= Len(b)
    PROVE  a = b \/ Descendant(a, b)
<1>1. a \in Seq(Nat) /\ b \in Seq(Nat) /\ p \in Seq(Nat)
  BY PathAssumption
<1>2. /\ Len(a) \in Nat /\ Len(b) \in Nat /\ Len(p) \in Nat
      /\ Len(a) <= Len(p) /\ Len(b) <= Len(p)
  BY <1>1 DEF Descendant
<1>3. /\ \A i \in 1..Len(a) : a[i] = p[i]
      /\ \A i \in 1..Len(b) : b[i] = p[i]
  BY <1>1, <1>2 DEF Descendant
<1>4. \A i \in 1..Len(a) : a[i] = b[i]
  BY <1>2, <1>3
<1>5. CASE Len(a) = Len(b)
  BY <1>1, <1>4, <1>5, SeqEqual
<1>6. CASE Len(a) < Len(b)
  <2>1. SubSeq(b, 1, Len(a)) = a
    BY <1>1, <1>2, <1>4, <1>6
  <2>2. QED
    BY <1>6, <2>1 DEF Descendant
<1>7. QED
  BY <1>2, <1>5, <1>6

\* Two locks that cover the same path exclude each other unless both are shared.
LEMMA BothCover ==
    ASSUME NEW k \in LockRows, NEW l \in LockRows, NEW p \in Path, Covers(k, p), Covers(l, p),
           k.scope = "exclusive" \/ l.scope = "exclusive"
    PROVE  Conflicts(k, l)
<1>1. k.path \in Path /\ l.path \in Path
  BY DEF LockRows
<1>2. CASE k.path = p \/ l.path = p
  BY <1>2 DEF Covers, Conflicts
<1>3. CASE k.path # p /\ l.path # p
  <2>1. /\ k.depth = "infinity" /\ Descendant(k.path, p)
        /\ l.depth = "infinity" /\ Descendant(l.path, p)
    BY <1>3 DEF Covers
  <2>2. k.path = l.path \/ Descendant(k.path, l.path) \/ Descendant(l.path, k.path)
    <3>1. Len(k.path) \in Nat /\ Len(l.path) \in Nat
      BY <1>1, PathAssumption
    <3>2. CASE Len(k.path) <= Len(l.path)
      BY <1>1, <2>1, <3>2, PrefixesComparable
    <3>3. CASE Len(l.path) <= Len(k.path)
      BY <1>1, <2>1, <3>3, PrefixesComparable
    <3>4. QED
      BY <3>1, <3>2, <3>3
  <2>3. QED
    BY <2>1, <2>2 DEF Covers, Conflicts
<1>4. QED
  BY <1>2, <1>3

\* Some check of a change that looks at locks concerns every lock that covers what it names.
LEMMA ChecksSuffice ==
    ASSUME NEW o \in WriteOps, o.kind \in {"PUT", "DELETE", "MOVE", "COPY"}, NEW l \in LockRows, NEW p \in Touched(o), Covers(l, p)
    PROVE  \E i \in DOMAIN Checks(o) : Concerns(Checks(o)[i], l)
<1>1. /\ p \in Path /\ l.path \in Path /\ o.path \in Path /\ o.dest \in Path
      /\ o.kind \in {"PUT", "DELETE", "MOVE", "COPY"}
      /\ o.kind \in {"PUT", "DELETE"} => o.dest = o.path
  BY WebDavLocksAssumption DEF Touched, LockRows
<1>2. CASE p = o.dest /\ o.kind # "DELETE"
  <2> DEFINE k == [how |-> "covering", path |-> o.dest]
  <2>1. \E i \in DOMAIN Checks(o) : Checks(o)[i] = k
    <3>1. CASE o.kind = "MOVE"
      <4>1. 2 \in DOMAIN Checks(o) /\ Checks(o)[2] = k
        BY <3>1 DEF Checks
      <4>2. QED
        BY <4>1
    <3>2. CASE o.kind \in {"PUT", "COPY"}
      <4>1. 1 \in DOMAIN Checks(o) /\ Checks(o)[1] = k
        BY <1>1, <3>2 DEF Checks
      <4>2. QED
        BY <4>1
    <3>3. QED
      BY <1>1, <1>2, <3>1, <3>2
  <2>2. Concerns(k, l)
    BY <1>2 DEF Concerns
  <2>3. QED
    BY <2>1, <2>2
<1>3. CASE o.kind \in {"DELETE", "MOVE"} /\ (p = o.path \/ Descendant(o.path, p))
  <2> DEFINE k == [how |-> "subtree", path |-> o.path]
  <2>1. 1 \in DOMAIN Checks(o) /\ Checks(o)[1] = k
    BY <1>3 DEF Checks
  <2>2. l.path = o.path \/ Descendant(o.path, l.path)
        \/ (l.depth = "infinity" /\ Descendant(l.path, o.path))
    <3>1. l.path = p \/ (l.depth = "infinity" /\ Descendant(l.path, p))
      BY DEF Covers
    <3>2. Len(l.path) \in Nat /\ Len(o.path) \in Nat
      BY <1>1, PathAssumption
    <3>3. CASE l.path = p
      BY <1>3, <3>3
    <3>4. CASE l.depth = "infinity" /\ Descendant(l.path, p)
      <4>1. CASE Len(l.path) <= Len(o.path)
        BY <1>1, <1>3, <3>4, <4>1, PrefixesComparable
      <4>2. CASE Len(o.path) <= Len(l.path)
        BY <1>1, <1>3, <3>4, <4>2, PrefixesComparable
      <4>3. QED
        BY <3>2, <4>1, <4>2
    <3>5. QED
      BY <3>1, <3>3, <3>4
  <2>3. Concerns(k, l)
    BY <2>2 DEF Concerns, Covers
  <2>4. QED
    BY <2>1, <2>3
<1>4. QED
  BY <1>1, <1>2, <1>3 DEF Touched

\* Only MOVE and DELETE look at a whole subtree.
LEMMA SubtreeKinds ==
    ASSUME NEW o \in WriteOps, NEW i \in DOMAIN Checks(o), Checks(o)[i].how = "subtree"
    PROVE  o.kind \in {"DELETE", "MOVE"}
<1>1. CASE o.kind \in {"PUT", "COPY"}
  <2>1. DOMAIN Checks(o) = {1} /\ Checks(o)[1].how = "covering"
    BY <1>1 DEF Checks
  <2>2. QED
    BY <2>1
<1>2. CASE o.kind \in {"MKCOL", "ASSEMBLE"}
  BY <1>2 DEF Checks
<1>3. QED
  BY <1>1, <1>2, WebDavLocksAssumption DEF Kinds

-----------------------------------------------------------------------------
\* A condition of a list that asks for a token is one the header asserts.
LEMMA ConditionAsserted ==
    ASSUME NEW raw, NEW list \in Lists(raw), NEW c \in list.conditions,
           c.kind = "token", ~ c.negated, c.name \in Token
    PROVE  c.name \in Asserted(raw)
<1>1. PICK j \in DOMAIN raw : list = [tag |-> TagOf(raw, j), conditions |-> ConditionsOf(raw, j)]
  BY DEF Lists
<1>2. c \in ConditionsOf(raw, j)
  BY <1>1
<1>3. PICK i \in DOMAIN raw :
          /\ raw[i].type \in Names
          /\ c = [kind |-> IF raw[i].type = "square" THEN "etag" ELSE "token",
                  name |-> raw[i].name, negated |-> raw[i - 1].type = "Not"]
  BY <1>2 DEF ConditionsOf
<1>4. raw[i].type \in {"angle", "word"} /\ raw[i].name \in Token /\ raw[i - 1].type # "Not"
  BY <1>3 DEF Names
<1>5. QED
  BY <1>3, <1>4 DEF Asserted

\* What a check that passes has been shown: the request presents the token of one of
\* the locks found, and that of each exclusive one unless it excludes another found.
LEMMA CoveringShown ==
    ASSUME NEW k \in CheckSet, NEW raw, NEW active \in SUBSET Token, active # {},
           k.how = "covering", Passes(k, raw, active)
    PROVE  Asserted(raw) \cap active # {}
<1>1. raw # NoHeader
  BY DEF Passes
<1>2. PICK list \in Lists(raw) :
          \E c \in list.conditions : c.kind = "token" /\ ~ c.negated /\ c.name \in active
  BY <1>1 DEF Passes, Allows
<1>3. QED
  BY <1>2, ConditionAsserted

LEMMA SubtreeShown ==
    ASSUME NEW k \in CheckSet, NEW raw, NEW active \in SUBSET Token, active # {},
           k.how = "subtree", Passes(k, raw, active)
    PROVE  \E t \in Mentioned(raw) : active = {t}
  BY DEF Passes, IsFirst, Mentioned, CheckSet

-----------------------------------------------------------------------------
\* A change only knows the tokens that it was sent with.
LEMMA HeaderNames ==
    ASSUME NEW form \in Forms, NEW p \in Path, NEW t \in Token, NEW u \in Token
    PROVE  Mentioned(Header(form, p, t, u)) \cup Asserted(Header(form, p, t, u)) \subseteq {t, u}
<1> DEFINE S == {t, u, NoToken, NoName} \cup Path
           Lexeme == [type : {"(", ")", "Not", "angle", "square"}, name : S]
           Just(n) == <<Mark("("), Angle(n), Mark(")")>>
           raw == Header(form, p, t, u)
<1>1. Parent(p) \in Path
  <2>1. p \in Seq(Nat) /\ Len(p) \in Nat
    BY PathAssumption
  <2>2. CASE Len(p) = 0
    <3>1. p = << >> /\ SubSeq(p, 1, Len(p) - 1) = << >>
      BY <2>1, <2>2
    <3>2. QED
      BY <3>1 DEF Parent
  <2>3. CASE Len(p) # 0
    <3>1. Len(p) - 1 \in 0..Len(p)
      BY <2>1, <2>3
    <3>2. QED
      BY <3>1, PathAssumption DEF Parent
  <2>4. QED
    BY <2>2, <2>3
<1>2. /\ Mark("(") \in Lexeme /\ Mark(")") \in Lexeme /\ Mark("Not") \in Lexeme
      /\ Angle(t) \in Lexeme /\ Angle(u) \in Lexeme /\ Angle(NoToken) \in Lexeme
      /\ Square(p) \in Lexeme /\ Angle(Parent(p)) \in Lexeme
  BY <1>1 DEF Mark, Angle, Square
<1> HIDE DEF Lexeme
<1>3. Just(t) \in Seq(Lexeme) /\ Just(u) \in Seq(Lexeme)
  BY <1>2
<1>4. raw \in Seq(Lexeme)
  <2>1. form \in AllForms
    BY WebDavLocksAssumption
  <2> HIDE DEF Just
  <2>2. CASE form \in {"none", "token", "both"}
    BY <1>3, <2>2 DEF Header, NoHeader, Just
  <2>3. CASE form \in {"either", "tagged"}
    <3>1. <<Mark("("), Mark("Not"), Angle(NoToken), Mark(")")>> \in Seq(Lexeme)
      BY <1>2
    <3>2. <<Angle(Parent(p))>> \in Seq(Lexeme)
      BY <1>2
    <3>3. QED
      BY <1>3, <2>3, <3>1, <3>2 DEF Header, Just
  <2>4. CASE form \in {"negated", "etag", "malformed"}
    BY <1>2, <2>4 DEF Header
  <2>5. QED
    BY <2>1, <2>2, <2>3, <2>4 DEF AllForms
<1>5. \A i \in DOMAIN raw : raw[i].name \in S
  <2> HIDE DEF raw
  <2>1. \A i \in DOMAIN raw : raw[i] \in Lexeme
    BY <1>4
  <2>2. QED
    BY <2>1 DEF Lexeme
<1>6. S \cap Token \subseteq {t, u}
  BY IfHeaderAssumption
<1> HIDE DEF S, raw
<1>7. QED
  BY <1>5, <1>6 DEF Mentioned, Asserted, Places, raw

-----------------------------------------------------------------------------
(* Steps that leave the changes alone.                                     *)

\* Whether a lock is one that a check looks for depends on what was locked, and how.
LEMMA ConcernsOfFields ==
    ASSUME NEW k, NEW l, NEW m, l.path = m.path, l.depth = m.depth
    PROVE  Concerns(k, l) <=> Concerns(k, m)
  BY DEF Concerns, Covers

\* A refresh brings no lock back into force that is not marked as revived.
LEMMA RefreshBack ==
    ASSUME IInv, NEW c \in Locker, Refresh(c)
    PROVE  /\ revived \subseteq revived' /\ used' = used /\ now' = now /\ write' = write
           /\ \A t \in DOMAIN locks' : /\ t \in DOMAIN locks /\ locks'[t].path = locks[t].path
                                       /\ locks'[t].depth = locks[t].depth
                                       /\ locks'[t].scope = locks[t].scope
           /\ \A t \in used \ revived', time \in Nat :
                 time <= now /\ ActiveAt(t, time)' => ActiveAt(t, time)
<1>1. PICK r : r = lock[c].refresh
  OBVIOUS
<1>2. /\ r \in DOMAIN locks /\ locks' = [locks EXCEPT ![r].until = Until(c)]
      /\ revived' = IF ActiveAt(r, now) THEN revived ELSE revived \cup {r}
      /\ used' = used /\ now' = now /\ write' = write /\ now \in Nat
  BY <1>1, WebDavLocksAssumption DEF Refresh, Refreshable, ActiveAt, IInv, TypeOK
<1>3. /\ DOMAIN locks' = DOMAIN locks
      /\ \A t \in DOMAIN locks : /\ locks'[t].path = locks[t].path
                                 /\ locks'[t].depth = locks[t].depth
                                 /\ locks'[t].scope = locks[t].scope
                                 /\ locks[t].until \in Nat
      /\ \A t \in DOMAIN locks \ {r} : locks'[t] = locks[t]
  BY <1>2 DEF IInv, LockRows
<1>4. ASSUME NEW t \in used \ revived', NEW time \in Nat, time <= now, ActiveAt(t, time)'
      PROVE  ActiveAt(t, time)
  <2>1. CASE t = r
    BY <1>2, <1>3, <1>4, <2>1 DEF ActiveAt
  <2>2. CASE t # r
    BY <1>3, <1>4, <2>2 DEF ActiveAt
  <2>3. QED
    BY <2>1, <2>2
<1>5. QED
  BY <1>2, <1>3, <1>4

\* A new lock is one that no change knows of.
LEMMA CreateBack ==
    ASSUME IInv, NEW c \in Locker, Create(c)
    PROVE  \E f \in Token \ used :
              /\ used' = used \cup {f} /\ revived' = revived /\ now' = now /\ write' = write
              /\ DOMAIN locks' = DOMAIN locks \cup {f} /\ f \notin DOMAIN locks
              /\ \A t \in DOMAIN locks : locks'[t] = locks[t]
<1>1. DOMAIN locks \subseteq used
  BY DEF IInv, TypeOK
<1>2. QED
  BY <1>1 DEF Create

\* The steps that leave the rows of the table as they are or delete some.
NoNewRow ==
    \/ UNCHANGED vars \/ Done \/ Tick \/ Purge \/ \E t \in Token : Unlock(t)
    \/ \E c \in Locker :
          \/ \E o \in LockOps, t \in used \cup {NoToken} : BeginLock(c, o, t)
          \/ TakeTable(c) \/ Deny(c) \/ Abandon(c)
    \/ \E w \in Writer :
          \/ \E o \in WriteOps, form \in Forms, t, u \in used : BeginWrite(w, o, form, t, u)
          \/ Check(w) \/ Commit(w) \/ Fail(w)

\* They bring no lock into force.
LEMMA OthersBack ==
    ASSUME NoNewRow
    PROVE  /\ revived' = revived /\ used' = used
           /\ now' = now \/ now' = now + 1
           /\ \A t \in DOMAIN locks' : t \in DOMAIN locks /\ locks'[t] = locks[t]
           /\ \A t, time : ActiveAt(t, time)' => ActiveAt(t, time)
<1>1. /\ revived' = revived /\ used' = used
      /\ now' = now \/ now' = now + 1
  BY DEF NoNewRow, vars, Done, Tick, Purge, Unlock, BeginLock, TakeTable, Deny, Abandon,
         BeginWrite, Check, Commit, Fail
<1>2. locks' = locks \/ \E S : locks' = Without(S)
  BY DEF NoNewRow, vars, Done, Tick, Purge, Unlock, BeginLock, TakeTable, Deny, Abandon,
         BeginWrite, Check, Commit, Fail
<1>3. DOMAIN locks' \subseteq DOMAIN locks /\ \A t \in DOMAIN locks' : locks'[t] = locks[t]
  BY <1>2 DEF Without
<1>4. QED
  BY <1>1, <1>3 DEF ActiveAt

\* No change acts, and no lock that one knows of comes into force again without being
\* marked as revived.
LEMMA OthersStep ==
    ASSUME KInv, CInv', write' = write, used \subseteq used', revived \subseteq revived',
           now' = now \/ now' = now + 1,
           \A t \in used \ revived', time \in Nat :
               time <= now /\ ActiveAt(t, time)' => ActiveAt(t, time),
           \A t \in DOMAIN locks \cap DOMAIN locks' :
               /\ locks'[t].path = locks[t].path /\ locks'[t].depth = locks[t].depth
               /\ locks'[t].scope = locks[t].scope
    PROVE  KInv'
<1>1. SUFFICES ASSUME NEW w \in Writer, Busy(w)' PROVE Sound(w)'
  BY DEF KInv
<1>2. Busy(w) /\ Sound(w)
  BY <1>1 DEF KInv, Busy
<1>3. write[w].began \in Nat /\ write[w].began <= now /\ now \in Nat
  BY <1>2, WebDavLocksAssumption DEF KInv, CInv, IInv, TypeOK, Writes, Sound, Known
<1>4. Known(w)'
  BY <1>2, <1>3 DEF Sound, Known, NamedBy
<1>5. TodoRight(w)'
  BY <1>2 DEF Sound, TodoRight
<1>6. ASSUME NEW t \in used \ revived', ActiveAt(t, write[w].began)'
      PROVE  ActiveAt(t, write[w].began) /\ t \in DOMAIN locks \cap DOMAIN locks'
  <2>1. PICK time \in Nat : time = write[w].began /\ time = write'[w].began /\ time <= now
    BY <1>3
  <2>2. ActiveAt(t, time)'
    BY <1>6, <2>1 DEF ActiveAt
  <2>3. ActiveAt(t, time)
    BY <1>6, <2>1, <2>2
  <2>4. QED
    BY <2>1, <2>2, <2>3 DEF ActiveAt
<1>7. Left(w)' \subseteq Left(w) /\ Left(w)' \subseteq DOMAIN locks \cap DOMAIN locks'
  BY <1>2, <1>6 DEF Left, Sound, Known
<1>8. GetOn(w)'
  <2>1. SUFFICES ASSUME NEW t \in Left(w)', NEW u \in NamedBy(w) \ revived', u # t,
                        ActiveAt(u, write[w].began)'
                 PROVE  ~ Conflicts(locks'[t], locks'[u])
    BY DEF GetOn, NamedBy
  <2>2. /\ t \in Left(w) /\ t \in DOMAIN locks \cap DOMAIN locks'
        /\ u \in NamedBy(w) \ revived /\ ActiveAt(u, write[w].began)
        /\ u \in DOMAIN locks \cap DOMAIN locks'
    BY <1>2, <1>6, <1>7, <2>1 DEF Sound, Known
  <2>3. ~ Conflicts(locks[t], locks[u])
    BY <1>2, <2>1, <2>2 DEF Sound, GetOn
  <2>4. QED
    BY <2>2, <2>3, ConflictOfFields, ConflictSymmetric
<1>9. Covered(w)'
  <2>1. SUFFICES ASSUME LooksAtLocks(w), NEW t \in Left(w)'
                 PROVE  \/ \E i \in DOMAIN write[w].todo : Concerns(write[w].todo[i], locks'[t])
                        \/ Answered(w, t)'
    BY DEF Covered, LooksAtLocks
  <2>2. t \in Left(w) /\ t \in DOMAIN locks \cap DOMAIN locks'
    BY <1>7, <2>1
  <2>3. CASE \E i \in DOMAIN write[w].todo : Concerns(write[w].todo[i], locks[t])
    BY <2>2, <2>3, ConcernsOfFields
  <2>4. CASE Answered(w, t)
    BY <2>2, <2>4 DEF Answered, Presented
  <2>5. QED
    BY <1>2, <2>1, <2>2, <2>3, <2>4 DEF Sound, Covered
<1>10. QED
  BY <1>2, <1>4, <1>5, <1>8, <1>9 DEF Sound

-----------------------------------------------------------------------------
(* Steps of the changes.                                                   *)

\* One change acts.
LEMMA ChangeStep ==
    ASSUME KInv, CInv', NEW w \in Writer,
           UNCHANGED <<now, asked, locks, used, revived, table, lock>>,
           \A x \in Writer \ {w} : write'[x] = write[x],
           Busy(w)' => Sound(w)'
    PROVE  KInv'
<1>1. ASSUME NEW x \in Writer \ {w}, Busy(x)' PROVE Sound(x)'
  <2>1. Busy(x) /\ Sound(x)
    BY <1>1 DEF KInv, Busy
  <2>2. QED
    BY <2>1 DEF Sound, Known, GetOn, Covered, TodoRight, Answered, Presented, LooksAtLocks,
                Left, ActiveAt, NamedBy
<1>2. QED
  BY <1>1 DEF KInv

\* A change begins: its checks are still to come, and the locks get on at this moment.
LEMMA BeginKept ==
    ASSUME KInv, CInv', NEW w \in Writer, NEW o \in WriteOps, NEW form \in Forms,
           NEW t \in used, NEW u \in used, BeginWrite(w, o, form, t, u)
    PROVE  KInv'
<1> DEFINE standing == {k \in DOMAIN locks : /\ ActiveAt(k, now)
                                             /\ \E p \in Touched(o) : Covers(locks[k], p)}
           raw == Header(form, o.dest, t, u)
<1>1. /\ UNCHANGED <<now, asked, locks, used, revived, table, lock>> /\ write \in [Writer -> Writes]
      /\ used \subseteq Token /\ DOMAIN locks \subseteq used /\ now \in Nat
      /\ locks \in [DOMAIN locks -> LockRows]
      /\ write' = [write EXCEPT ![w] = [pc |-> "begun", kind |-> o.kind, todo |-> Checks(o),
                                        header |-> raw, began |-> now, rows |-> {},
                                        standing |-> standing]]
  BY WebDavLocksAssumption DEF BeginWrite, KInv, CInv, IInv, TypeOK
<1> HIDE DEF raw, standing
<1>2. /\ \A x \in Writer \ {w} : write'[x] = write[x]
      /\ write'[w].standing = standing /\ write'[w].began = now /\ write'[w].header = raw
      /\ write'[w].todo = Checks(o) /\ write'[w].kind = o.kind
  BY <1>1
<1>3. NamedBy(w)' \subseteq used
  <2>1. o.dest \in Path /\ t \in Token /\ u \in Token
    BY <1>1, WebDavLocksAssumption
  <2>2. Mentioned(raw) \cup Asserted(raw) \subseteq {t, u}
    BY <2>1, HeaderNames DEF raw
  <2>3. QED
    BY <1>2, <2>2 DEF NamedBy
<1>4. standing \subseteq DOMAIN locks /\ \A k \in standing : ActiveAt(k, now)
  BY DEF standing
<1>5. Known(w)'
  BY <1>1, <1>2, <1>3, <1>4 DEF Known
<1>6. GetOn(w)'
  BY <1>1, <1>2 DEF GetOn, Left, ActiveAt, KInv, CInv, LocksCompatible, Compatible
<1>7. Covered(w)'
  <2>1. SUFFICES ASSUME LooksAtLocks(w)'
                 PROVE  \A k \in standing : \E i \in DOMAIN Checks(o) : Concerns(Checks(o)[i], locks[k])
    BY <1>1, <1>2 DEF Covered, Left
  <2>2. o.kind \in {"PUT", "DELETE", "MOVE", "COPY"}
    BY <1>2, <2>1 DEF LooksAtLocks
  <2>3. QED
    BY <1>1, <1>4, <2>2, ChecksSuffice DEF standing
<1>8. TodoRight(w)'
  BY <1>2, SubtreeKinds DEF TodoRight
<1>9. QED
  BY <1>1, <1>2, <1>5, <1>6, <1>7, <1>8, ChangeStep DEF Sound

\* A check is passed: the standing locks that it looks for are among those it has found,
\* and the request has shown the token of one of them, which is theirs if they exclude it.
LEMMA CheckKept ==
    ASSUME KInv, CInv', NEW w \in Writer, Check(w)
    PROVE  KInv'
<1> DEFINE k == Head(write[w].todo)
           found == Found(w, k)
           todo == write[w].todo
           raw == write[w].header
<1>1. /\ UNCHANGED <<now, asked, locks, used, revived, table, lock>> /\ write \in [Writer -> Writes]
      /\ Busy(w) /\ todo # << >> /\ todo \in Seq(CheckSet) /\ Passes(k, raw, found)
      /\ write' = [write EXCEPT ![w].todo = Tail(todo), ![w].rows = write[w].rows \cup found]
      /\ locks \in [DOMAIN locks -> LockRows] /\ DOMAIN locks \subseteq Token
  BY DEF Check, Busy, KInv, CInv, IInv, TypeOK, Writes
<1>2. /\ \A x \in Writer \ {w} : write'[x] = write[x]
      /\ write'[w].todo = Tail(todo) /\ write'[w].rows = write[w].rows \cup found
      /\ write'[w].standing = write[w].standing /\ write'[w].began = write[w].began
      /\ write'[w].header = raw /\ write'[w].kind = write[w].kind
  BY <1>1 DEF Writes
<1>3. Sound(w)
  BY <1>1 DEF KInv
<1>4. /\ k \in CheckSet /\ 1 \in DOMAIN todo /\ k = todo[1]
      /\ \A i \in DOMAIN todo : i # 1 => i - 1 \in DOMAIN Tail(todo) /\ Tail(todo)[i - 1] = todo[i]
      /\ \A i \in DOMAIN Tail(todo) : i + 1 \in DOMAIN todo /\ Tail(todo)[i] = todo[i + 1]
  BY <1>1
<1>5. found \subseteq DOMAIN locks /\ found \in SUBSET Token
      /\ \A t \in DOMAIN locks : t \in found <=> ActiveAt(t, write[w].began) /\ Concerns(k, locks[t])
  BY <1>1 DEF Found
<1>6. k.how = "subtree" => write[w].kind \in {"DELETE", "MOVE"}
  BY <1>3, <1>4 DEF Sound, TodoRight
<1> HIDE DEF k, found, todo, raw
<1>7. Presented(w)' = Presented(w) /\ Left(w)' = Left(w) /\ NamedBy(w)' = NamedBy(w)
  BY <1>1, <1>2 DEF Presented, Left, ActiveAt, NamedBy, raw
<1>8. ASSUME NEW t \in Left(w), t \in found PROVE Answered(w, t)'
  <2>1. CASE k.how = "subtree"
    <3>1. PICK s \in Mentioned(raw) : found = {s}
      BY <1>1, <1>4, <1>5, <1>8, <2>1, SubtreeShown
    <3>2. t \in Presented(w)
      BY <1>6, <1>8, <2>1, <3>1 DEF Presented, raw
    <3>3. QED
      BY <1>2, <1>7, <1>8, <3>2 DEF Answered
  <2>2. CASE k.how = "covering"
    <3>1. PICK s \in Asserted(raw) : s \in found
      BY <1>1, <1>4, <1>5, <1>8, <2>2, CoveringShown
    <3>2. s \in Presented(w) /\ s \in NamedBy(w)
      BY <3>1 DEF Presented, NamedBy, raw
    <3>3. s \in revived \/ (locks[t].scope = "exclusive" => t = s)
      <4>1. SUFFICES ASSUME s \notin revived, locks[t].scope = "exclusive", t # s PROVE FALSE
        OBVIOUS
      <4>2. /\ locks[t] \in LockRows /\ locks[s] \in LockRows /\ k.path \in Path
            /\ Covers(locks[t], k.path) /\ Covers(locks[s], k.path)
            /\ ActiveAt(s, write[w].began)
        BY <1>1, <1>4, <1>5, <1>8, <2>2, <3>1 DEF Concerns, CheckSet
      <4>3. Conflicts(locks[t], locks[s])
        BY <4>1, <4>2, BothCover
      <4>4. QED
        BY <1>3, <1>8, <3>2, <4>1, <4>2, <4>3 DEF Sound, GetOn
    <3>4. QED
      BY <1>1, <1>2, <1>7, <3>1, <3>2, <3>3 DEF Answered
  <2>3. QED
    BY <1>4, <2>1, <2>2 DEF CheckSet
<1>9. Covered(w)'
  <2>1. SUFFICES ASSUME LooksAtLocks(w), NEW t \in Left(w)
                 PROVE  \/ \E i \in DOMAIN Tail(todo) : Concerns(Tail(todo)[i], locks[t])
                        \/ Answered(w, t)'
    BY <1>1, <1>2, <1>7 DEF Covered, LooksAtLocks
  <2>2. CASE Answered(w, t)
    BY <1>1, <1>2, <1>7, <2>2 DEF Answered
  <2>3. CASE \E i \in DOMAIN todo : Concerns(todo[i], locks[t])
    <3>1. PICK i \in DOMAIN todo : Concerns(todo[i], locks[t])
      BY <2>3
    <3>2. CASE i = 1
      <4>1. t \in found
        BY <1>4, <1>5, <2>1, <3>1, <3>2 DEF Left, ActiveAt
      <4>2. QED
        BY <1>8, <4>1
    <3>3. CASE i # 1
      BY <1>4, <3>1, <3>3
    <3>4. QED
      BY <3>2, <3>3
  <2>4. QED
    BY <1>3, <2>1, <2>2, <2>3 DEF Sound, Covered, todo
<1>10. TodoRight(w)'
  BY <1>2, <1>3, <1>4 DEF Sound, TodoRight, todo
<1>11. Known(w)' /\ GetOn(w)'
  BY <1>1, <1>2, <1>3, <1>7 DEF Sound, Known, GetOn, ActiveAt
<1>12. QED
  BY <1>1, <1>2, <1>9, <1>10, <1>11, ChangeStep DEF Sound

\* A change ends.
LEMMA EndKept ==
    ASSUME KInv, CInv', NEW w \in Writer, Commit(w) \/ Fail(w)
    PROVE  KInv'
<1>1. /\ UNCHANGED <<now, asked, locks, used, revived, table, lock>>
      /\ \A x \in Writer \ {w} : write'[x] = write[x]
      /\ write'[w].pc = "idle"
  BY DEF Commit, Fail, NoWrite, KInv, CInv, IInv
<1>2. ~ Busy(w)'
  BY <1>1 DEF Busy
<1>3. QED
  BY <1>1, <1>2, ChangeStep

-----------------------------------------------------------------------------
\* Every step preserves the invariant.
LEMMA StepKept == KInv /\ [Next]_vars => KInv'
<1> SUFFICES ASSUME KInv, [Next]_vars PROVE KInv'
  OBVIOUS
<1>1. CInv' /\ IInv
  BY StepCompatible DEF KInv, CInv
<1>2. ASSUME NEW c \in Locker, Refresh(c) PROVE KInv'
  BY <1>1, <1>2, RefreshBack, OthersStep
<1>3. ASSUME NEW c \in Locker, Create(c) PROVE KInv'
  <2>1. PICK f \in Token \ used :
            /\ used' = used \cup {f} /\ revived' = revived /\ now' = now /\ write' = write
            /\ DOMAIN locks' = DOMAIN locks \cup {f} /\ f \notin DOMAIN locks
            /\ \A t \in DOMAIN locks : locks'[t] = locks[t]
    BY <1>1, <1>3, CreateBack
  <2>2. \A t \in used, time \in Nat : ActiveAt(t, time)' => ActiveAt(t, time)
    BY <2>1 DEF ActiveAt
  <2>3. QED
    BY <1>1, <2>1, <2>2, OthersStep
<1>4. CASE /\ write' = write
           /\ NoNewRow
  <2>1. /\ revived' = revived /\ used' = used
        /\ now' = now \/ now' = now + 1
        /\ \A t \in DOMAIN locks' : t \in DOMAIN locks /\ locks'[t] = locks[t]
        /\ \A t, time : ActiveAt(t, time)' => ActiveAt(t, time)
    BY <1>4, OthersBack
  <2>2. QED
    BY <1>1, <1>4, <2>1, OthersStep
<1>5. ASSUME NEW w \in Writer, NEW o \in WriteOps, NEW form \in Forms, NEW t \in used, NEW u \in used,
             BeginWrite(w, o, form, t, u)
      PROVE  KInv'
  BY <1>1, <1>5, BeginKept
<1>6. ASSUME NEW w \in Writer, Check(w) PROVE KInv'
  BY <1>1, <1>6, CheckKept
<1>7. ASSUME NEW w \in Writer, Commit(w) \/ Fail(w) PROVE KInv'
  BY <1>1, <1>7, EndKept
<1>8. QED
  <2>1. CASE UNCHANGED vars \/ Done \/ Tick \/ Purge \/ \E t \in Token : Unlock(t)
    BY <1>4, <2>1 DEF NoNewRow, vars, Done, Tick, Purge, Unlock
  <2>2. ASSUME NEW c \in Locker,
               \/ \E o \in LockOps, t \in used \cup {NoToken} : BeginLock(c, o, t)
               \/ TakeTable(c) \/ Deny(c) \/ Abandon(c)
        PROVE  KInv'
    BY <1>4, <2>2 DEF NoNewRow, BeginLock, TakeTable, Deny, Abandon
  <2>3. QED
    BY <1>2, <1>3, <1>5, <1>6, <1>7, <2>1, <2>2 DEF Next

\* A lock that stood when a change began and has not been given back or cut short
\* since keeps the change out unless its If header presents the token (of one of the
\* locks, if they are shared): checkLockTx and checkLockSubtreeTx, for any tree, any number of
\* requests and any waiting for the table lock, for the kinds of change that look at locks
\* (not MKCOL, not the end of a chunked upload) and but for locks that a late refresh revived.
THEOREM StandingLocksKeepOut == Spec => []LockedOut
<1>1. Init => KInv
  <2>1. SUFFICES ASSUME Init PROVE KInv
    OBVIOUS
  <2>2. \A w \in Writer : ~ Busy(w)
    BY <2>1 DEF Init, NoWrite, Busy
  <2>3. QED
    BY <2>1, <2>2, InitInvariant DEF KInv
<1>2. KInv => LockedOut
  <2>1. SUFFICES ASSUME KInv, NEW w \in Writer, Passed(w), LooksAtLocks(w)
                 PROVE  KeptOut(w, Presented(w), revived)
    BY DEF LockedOut
  <2>2. Busy(w) /\ write[w].todo = << >>
    BY <2>1 DEF Passed, Busy
  <2>3. \A t \in Left(w) : Answered(w, t)
    BY <2>1, <2>2 DEF KInv, Sound, Covered
  <2>4. QED
    BY <2>3 DEF KeptOut, Left, Answered
<1>3. QED
  BY <1>1, <1>2, StepKept, PTL DEF Spec

-----------------------------------------------------------------------------
(***************************************************************************)
(* Seen from the outside the locks are those of ResourceLocks.  A step     *)
(* changes at most one lock besides ending others, and the locks in force  *)
(* after it exclude none of each other (LocksCompatible).                  *)
(***************************************************************************)

\* A lock in force as clients know it.
Shown(t) == [token |-> t, path |-> locks[t].path, depth |-> locks[t].depth, scope |-> locks[t].scope]

Live(t) == t \in DOMAIN locks \ revived /\ ActiveAt(t, now)

\* What is in force, token by token.
LEMMA InForceIs ==
    /\ \A t : Live(t) => Shown(t) \in InForce
    /\ \A l \in InForce : Live(l.token) /\ l = Shown(l.token)
BY DEF InForce, Shown, Live

\* Rows whose locks exclude each other, by the resources they protect, are in conflict by
\* the paths of the rows alone.
LEMMA ExcludedConflict ==
    ASSUME NEW r \in LockRows, NEW s \in LockRows, NEW k, NEW l,
           k.path = r.path, k.depth = r.depth, k.scope = r.scope,
           l.path = s.path, l.depth = s.depth, l.scope = s.scope,
           Promise!Excludes(k, l)
    PROVE  Conflicts(r, s)
<1>1. PICK p \in Path : Promise!Protects(k, p) /\ Promise!Protects(l, p)
  BY DEF Promise!Excludes
<1>2. Covers(r, p) /\ Covers(s, p)
  BY <1>1 DEF Covers, Promise!Protects, Descendant, Promise!Descendant
<1>3. r.scope = "exclusive" \/ s.scope = "exclusive"
  BY DEF Promise!Excludes
<1>4. QED
  BY <1>2, <1>3, BothCover

\* A step after which no other lock is in force than before.
LEMMA SomeEnd ==
    ASSUME InForce' \subseteq InForce
    PROVE  [Promise!Next]_InForce
<1> DEFINE S == InForce \ InForce'
<1>1. InForce' = InForce \ S /\ S \in SUBSET InForce
  OBVIOUS
<1>2. Promise!End(S)
  BY <1>1 DEF Promise!End
<1>3. QED
  BY <1>1, <1>2 DEF Promise!Next

\* A step that adds the row of token x.
LEMMA OneGranted ==
    ASSUME IInv, IInv', LocksCompatible', NEW x, now' = now, revived' = revived,
           x \notin DOMAIN locks, DOMAIN locks' = DOMAIN locks \cup {x},
           \A t \in DOMAIN locks : locks'[t] = locks[t]
    PROVE  [Promise!Next]_InForce
<1>1. \A t : t # x => (Live(t)' <=> Live(t)) /\ (Live(t) => Shown(t)' = Shown(t))
  BY DEF Live, ActiveAt, Shown
<1>2. ~ Live(x)
  BY DEF Live
<1>3. CASE ~ Live(x)'
  <2>1. ASSUME NEW l \in InForce' PROVE l \in InForce
    <3>1. PICK t : Live(t)' /\ l = Shown(t)'
      BY DEF InForce, Shown, Live
    <3>2. Live(t) /\ l = Shown(t)
      BY <1>1, <1>3, <3>1
    <3>3. QED
      BY <3>2, InForceIs
  <2>2. QED
    BY <2>1, SomeEnd
<1>4. CASE Live(x)'
  <2>1. PICK n : n = Shown(x)'
    OBVIOUS
  <2>2. n \in Promise!AllLocks
    <3>1. locks'[x] \in LockRows /\ x \in Token
      BY DEF IInv, TypeOK
    <3>2. QED
      BY <2>1, <3>1 DEF Shown, LockRows, Promise!AllLocks
  <2>3. n \in InForce' /\ n.token = x
    BY <1>4, <2>1 DEF InForce, Shown, Live
  <2>4. InForce' = InForce \cup {n}
    <3>1. ASSUME NEW l \in InForce' PROVE l \in InForce \cup {n}
      <4>1. PICK t : Live(t)' /\ l = Shown(t)'
        BY DEF InForce, Shown, Live
      <4>2. CASE t = x
        BY <2>1, <4>1, <4>2
      <4>3. CASE t # x
        <5>1. Live(t) /\ l = Shown(t)
          BY <1>1, <4>1, <4>3
        <5>2. QED
          BY <5>1, InForceIs
      <4>4. QED
        BY <4>2, <4>3
    <3>2. ASSUME NEW l \in InForce PROVE l \in InForce'
      <4>1. PICK t : Live(t) /\ l = Shown(t)
        BY DEF InForce, Shown, Live
      <4>2. Live(t)' /\ l = Shown(t)'
        BY <1>1, <1>2, <4>1
      <4>3. QED
        BY <4>2 DEF InForce, Shown, Live
    <3>3. QED
      BY <2>3, <3>1, <3>2
  <2>5. ASSUME NEW k \in InForce PROVE k.token # n.token /\ ~ Promise!Excludes(k, n)
    <3>1. PICK t : Live(t) /\ k = Shown(t) /\ k.token = t
      BY DEF InForce, Shown, Live
    <3>2. t # x /\ Live(t)' /\ k = Shown(t)'
      BY <1>1, <1>2, <3>1
    <3>3. x \in DOMAIN locks' /\ locks'[x] \in LockRows /\ locks'[t] \in LockRows
      BY <3>2 DEF Live, IInv
    <3>4. ~ Conflicts(locks'[t], locks'[x])
      BY <1>4, <3>2 DEF LocksCompatible, Compatible, Live
    <3>5. /\ k.path = locks'[t].path /\ k.depth = locks'[t].depth /\ k.scope = locks'[t].scope
          /\ n.path = locks'[x].path /\ n.depth = locks'[x].depth /\ n.scope = locks'[x].scope
      BY <2>1, <3>2 DEF Shown
    <3>6. ~ Promise!Excludes(k, n)
      BY <3>3, <3>4, <3>5, ExcludedConflict
    <3>7. QED
      BY <2>3, <3>1, <3>2, <3>6
  <2>6. Promise!Grant(n)
    BY <2>4, <2>5 DEF Promise!Grant
  <2>7. n \notin InForce
    BY <1>2, <2>3, InForceIs
  <2>8. QED
    BY <2>2, <2>3, <2>6, <2>7 DEF Promise!Next
<1>5. QED
  BY <1>3, <1>4

\* A step that draws no token: nothing comes into force.
LEMMA NoneGranted ==
    ASSUME IInv, IInv', used' = used, revived \subseteq revived', now' = now \/ now' = now + 1,
           \A t \in DOMAIN locks' : /\ t \in DOMAIN locks /\ locks'[t].path = locks[t].path
                                    /\ locks'[t].depth = locks[t].depth
                                    /\ locks'[t].scope = locks[t].scope,
           \A t \in used \ revived', time \in Nat :
               time <= now /\ ActiveAt(t, time)' => ActiveAt(t, time)
    PROVE  [Promise!Next]_InForce
<1>1. /\ now \in Nat /\ now' \in Nat /\ DOMAIN locks' \subseteq used
      /\ \A t \in DOMAIN locks' : locks'[t].until \in Nat
  BY WebDavLocksAssumption DEF IInv, TypeOK
<1>2. ASSUME NEW l \in InForce' PROVE l \in InForce
  <2>1. PICK t : Live(t)' /\ l = Shown(t)'
    BY DEF InForce, Shown, Live
  <2>2. PICK time \in Nat : time = now
    BY <1>1
  <2>3. ActiveAt(t, time)'
    BY <1>1, <2>1, <2>2 DEF Live, ActiveAt
  <2>4. ActiveAt(t, time)
    BY <1>1, <2>1, <2>2, <2>3 DEF Live
  <2>5. Live(t)
    BY <2>1, <2>2, <2>4 DEF Live, ActiveAt
  <2>6. l = Shown(t)
    BY <2>1 DEF Shown, Live
  <2>7. QED
    BY <2>5, <2>6, InForceIs
<1>3. QED
  BY <1>2, SomeEnd

\* Every step is one of ResourceLocks, or changes nothing there.
LEMMA StepPromised ==
    ASSUME CInv, CInv', [Next]_vars
    PROVE  [Promise!Next]_InForce
<1>1. IInv /\ IInv' /\ LocksCompatible'
  BY DEF CInv
<1>2. ASSUME NEW c \in Locker, Refresh(c) PROVE [Promise!Next]_InForce
  BY <1>1, <1>2, RefreshBack, NoneGranted
<1>3. ASSUME NEW c \in Locker, Create(c) PROVE [Promise!Next]_InForce
  BY <1>1, <1>3, CreateBack, OneGranted
<1>4. CASE NoNewRow
  <2>1. /\ revived' = revived /\ used' = used
        /\ now' = now \/ now' = now + 1
        /\ \A t \in DOMAIN locks' : t \in DOMAIN locks /\ locks'[t] = locks[t]
        /\ \A t, time : ActiveAt(t, time)' => ActiveAt(t, time)
    BY <1>4, OthersBack
  <2>2. QED
    BY <1>1, <2>1, NoneGranted
<1>5. QED
  BY <1>2, <1>3, <1>4 DEF Next, NoNewRow

\* LOCK, UNLOCK, refresh, expiry and the janitor, in whatever order and as of whatever earlier
\* time a LOCK request looks at the table, implement locks that are granted in one step and
\* protect resources; a lock that is refreshed after it has run out is no longer one of them.
THEOREM ResourceLocksImplemented == Spec => ImplementsResourceLocks
<1>1. Init => CInv /\ Promise!Init
  <2>1. SUFFICES ASSUME Init PROVE CInv /\ Promise!Init
    OBVIOUS
  <2>2. InForce = {}
    BY <2>1 DEF Init, InForce
  <2>3. QED
    BY <2>1, <2>2, InitInvariant DEF Promise!Init
<1>2. QED
  BY <1>1, StepCompatible, StepPromised, PTL DEF Spec, ImplementsResourceLocks, Promise!Spec

-----------------------------------------------------------------------------
(***************************************************************************)
(* The parser of If headers.  It is an automaton, the grammar speaks of    *)
(* places; the invariant Follows says what the automaton has read after n  *)
(* places, in terms of the grammar.  Induction on n is a smallest place    *)
(* that refutes it.                                                        *)
(***************************************************************************)

\* read goes through raw as the automaton does.
Reads(read, raw) == read = [i \in 0..Len(raw) |-> IF i = 0 THEN Start ELSE Step(read[i - 1], raw[i])]

\* Of the natural numbers that refute a claim one is the smallest.
LEMMA SmallestNumber ==
    ASSUME NEW T \in SUBSET Nat, T # {}
    PROVE  \E n \in T : \A k \in T : ~ (k < n)
<1>1. PICK n \in T : \A k \in T : ~ (<<k, n>> \in OpToRel(<, Nat))
  BY NatLessThanWellFounded, WFMin
<1>2. QED
  BY <1>1 DEF OpToRel

\* The automaton has a run through every header.
LEMMA RunExists ==
    ASSUME NEW raw, Len(raw) \in Nat
    PROVE  \E read : Reads(read, raw)
<1> DEFINE Runs(read, n) == /\ DOMAIN read = 0..n /\ read[0] = Start
                            /\ \A i \in 1..n : read[i] = Step(read[i - 1], raw[i])
           T == {n \in Nat : ~ \E read : Runs(read, n)}
<1>1. T = {}
  <2> SUFFICES ASSUME T # {} PROVE FALSE
    OBVIOUS
  <2>1. PICK n \in T : \A k \in T : ~ (k < n)
    BY SmallestNumber
  <2>2. n # 0
    <3>1. Runs([i \in 0..0 |-> Start], 0)
      OBVIOUS
    <3>2. QED
      BY <2>1, <3>1
  <2>3. n \in Nat /\ n - 1 \in Nat /\ n - 1 < n /\ 0..n-1 = 0..n \ {n}
    BY <2>1, <2>2
  <2>4. PICK f : Runs(f, n - 1)
    BY <2>1, <2>3
  <2> DEFINE g == [i \in 0..n |-> IF i = n THEN Step(f[n - 1], raw[n]) ELSE f[i]]
  <2>5. Runs(g, n)
    <3>1. DOMAIN g = 0..n /\ g[0] = Start
      BY <2>2, <2>3, <2>4
    <3>2. ASSUME NEW i \in 1..n PROVE g[i] = Step(g[i - 1], raw[i])
      <4>1. g[i - 1] = f[i - 1]
        BY <2>3, <3>2
      <4>2. CASE i = n
        BY <2>3, <4>1, <4>2
      <4>3. CASE i # n
        <5>1. i \in 1..n-1 /\ g[i] = f[i]
          BY <2>3, <4>3
        <5>2. QED
          BY <2>4, <4>1, <5>1
      <4>4. QED
        BY <4>2, <4>3
    <3>3. QED
      BY <3>1, <3>2
  <2>6. QED
    BY <2>1, <2>5
<1>2. PICK f : Runs(f, Len(raw))
  BY <1>1
<1> DEFINE g == [i \in 0..Len(raw) |-> IF i = 0 THEN Start ELSE Step(f[i - 1], raw[i])]
<1>3. \A i \in 0..Len(raw) : g[i] = f[i]
  BY <1>2
<1>4. Reads(g, raw)
  <2>1. ASSUME NEW i \in 0..Len(raw), i # 0 PROVE g[i] = Step(g[i - 1], raw[i])
    <3>1. i - 1 \in 0..Len(raw)
      BY <2>1
    <3>2. g[i - 1] = f[i - 1]
      BY <1>3, <3>1
    <3>3. QED
      BY <2>1, <3>2
  <2>2. QED
    BY <2>1 DEF Reads
<1>5. QED
  BY <1>4

\* Parse goes through the header.
LEMMA ParseReads ==
    ASSUME NEW raw, Len(raw) \in Nat
    PROVE  \E read : Reads(read, raw) /\ Parse(raw) = read[Len(raw)]
<1> DEFINE run == CHOOSE read : Reads(read, raw)
<1>1. Reads(run, raw)
  BY RunExists
<1>2. Parse(raw) = run[Len(raw)]
  BY DEF Parse, Reads
<1>3. QED
  BY <1>1, <1>2

\* A header is a sequence of lexemes.
Lexeme(N) == [type : {"(", ")", "Not", "stray"} \cup Names, name : N]

\* What stands at a place.
LEMMA LexemeAt ==
    ASSUME NEW N, NEW raw \in Seq(Lexeme(N)), NEW i \in DOMAIN raw
    PROVE  raw[i].type \in {"(", ")", "Not", "angle", "square", "word", "stray"}
<1>1. raw[i] \in Lexeme(N)
  OBVIOUS
<1>2. QED
  BY <1>1 DEF Lexeme, Names

\* Which list the place after i belongs to.
LEMMA OpenedNext ==
    ASSUME NEW N, NEW raw \in Seq(Lexeme(N)), NEW i \in DOMAIN raw, NEW j \in DOMAIN raw
    PROVE  /\ raw[i].type = "(" => (OpenedAt(raw, i + 1, j) <=> j = i)
           /\ raw[i].type = ")" => ~ OpenedAt(raw, i + 1, j)
           /\ raw[i].type \notin {"(", ")"} => (OpenedAt(raw, i + 1, j) <=> OpenedAt(raw, i, j))
<1>1. i \in Nat /\ j \in Nat /\ i + 1 - 1 = i
  OBVIOUS
<1>2. OpenedAt(raw, i + 1, j) <=>
        j <= i /\ raw[j].type = "(" /\ \A k \in j + 1 .. i : raw[k].type \notin {"(", ")"}
  BY <1>1 DEF OpenedAt
<1>3. CASE j = i
  BY <1>1, <1>2, <1>3 DEF OpenedAt
<1>4. CASE j < i
  <2>1. i \in j + 1 .. i /\ j + 1 .. i = (j + 1 .. i - 1) \cup {i}
    BY <1>1, <1>4
  <2>2. OpenedAt(raw, i + 1, j) <=> OpenedAt(raw, i, j) /\ raw[i].type \notin {"(", ")"}
    BY <1>1, <1>2, <1>4, <2>1 DEF OpenedAt
  <2>3. QED
    BY <1>4, <2>2
<1>5. CASE j > i
  <2>1. ~ OpenedAt(raw, i + 1, j) /\ ~ OpenedAt(raw, i, j) /\ j # i
    BY <1>1, <1>2, <1>5 DEF OpenedAt
  <2>2. QED
    BY <2>1
<1>6. QED
  BY <1>1, <1>3, <1>4, <1>5

\* A place belongs to one list at most.
LEMMA OneOpener ==
    ASSUME NEW N, NEW raw \in Seq(Lexeme(N)), NEW i \in Nat, NEW j \in DOMAIN raw, NEW k \in DOMAIN raw,
           OpenedAt(raw, i, j), OpenedAt(raw, i, k)
    PROVE  j = k
<1>1. j \in Nat /\ k \in Nat /\ j < i /\ k < i /\ raw[j].type = "(" /\ raw[k].type = "("
  BY DEF OpenedAt
<1>2. ~ (j < k)
  <2>1. j < k => k \in j + 1 .. i - 1
    BY <1>1
  <2>2. QED
    BY <1>1, <2>1 DEF OpenedAt
<1>3. ~ (k < j)
  <2>1. k < j => j \in k + 1 .. i - 1
    BY <1>1
  <2>2. QED
    BY <1>1, <2>1 DEF OpenedAt
<1>4. QED
  BY <1>1, <1>2, <1>3

\* What the grammar says of place i, as far as the first n places tell.
Fine(raw, i, n) ==
    CASE raw[i].type = "(" -> ~ Inside(raw, i)
      [] raw[i].type = ")" -> Inside(raw, i) /\ raw[i - 1].type \in Names
      [] raw[i].type = "Not" -> Inside(raw, i) /\ (i < n => raw[i + 1].type \in Names)
      [] raw[i].type = "angle" ->
            Inside(raw, i) \/ (raw[1].type = "angle" /\ (i < n => raw[i + 1].type = "("))
      [] OTHER -> Inside(raw, i) /\ raw[i].type \in Names
FineTo(raw, n) == \A i \in 1..n : Fine(raw, i, n)

\* What place n + 1 adds to that.
LEMMA FineNext ==
    ASSUME NEW N, NEW raw \in Seq(Lexeme(N)), NEW n \in Nat, n < Len(raw)
    PROVE  FineTo(raw, n + 1) <=>
              /\ FineTo(raw, n) /\ Fine(raw, n + 1, n + 1)
              /\ n > 0 /\ raw[n].type = "Not" => raw[n + 1].type \in Names
              /\ n > 0 /\ raw[n].type = "angle" /\ ~ Inside(raw, n) => raw[n + 1].type = "("
<1>1. 1..n+1 = (1..n) \cup {n + 1}
  OBVIOUS
<1>2. ASSUME NEW i \in 1..n, i # n PROVE Fine(raw, i, n + 1) <=> Fine(raw, i, n)
  BY <1>2 DEF Fine
<1>3. ASSUME n > 0
      PROVE  Fine(raw, n, n + 1) <=>
                /\ Fine(raw, n, n)
                /\ raw[n].type = "Not" => raw[n + 1].type \in Names
                /\ raw[n].type = "angle" /\ ~ Inside(raw, n) => raw[n + 1].type = "("
  <2>1. n < n + 1 /\ ~ (n < n)
    OBVIOUS
  <2>2. raw[n].type \in {"(", ")", "Not", "angle", "square", "word", "stray"}
    <3>1. n \in DOMAIN raw
      BY <1>3
    <3>2. QED
      BY <3>1, LexemeAt
  <2>3. QED
    BY <2>1, <2>2 DEF Fine
<1>4. QED
  BY <1>1, <1>2, <1>3 DEF FineTo

\* The condition place i stands for, and those of the list opened at place j up to place n.
ConditionAt(raw, i) ==
    [kind |-> IF raw[i].type = "square" THEN "etag" ELSE "token",
     name |-> raw[i].name, negated |-> raw[i - 1].type = "Not"]
ConditionsTo(raw, j, n) ==
    {ConditionAt(raw, i) : i \in {k \in 1..n : OpenedAt(raw, k, j) /\ raw[k].type \in Names}}

\* The list opened at place j, and the places of the lists that are closed by place n.
Entry(raw, j) == [tag |-> TagOf(raw, j), conditions |-> ConditionsOf(raw, j)]
Closed(raw, n) == {j \in 1..n : raw[j].type = "(" /\ ~ OpenedAt(raw, n + 1, j)}

\* Where the automaton is after n places that are fine.
Position(raw, n) ==
    IF n = 0 THEN "start"
    ELSE IF raw[n].type = ")" THEN "between"
    ELSE IF raw[n].type = "Not" THEN "not"
    ELSE IF Inside(raw, n + 1) THEN "list"
    ELSE "tag"

\* What it has read by then.
HasRead(s, raw, n) ==
    /\ s.at = Position(raw, n)
    /\ s.tagged = (n > 0 /\ raw[1].type = "angle")
    /\ s.tag = TagOf(raw, n)
    /\ s.negated = (s.at = "not")
    /\ \A j \in 1..n : OpenedAt(raw, n + 1, j) => s.open = ConditionsTo(raw, j, n)
    /\ s.lists = {Entry(raw, j) : j \in Closed(raw, n)}

Fields == {"at", "tagged", "tag", "negated", "open", "lists"}
Follows(s, raw, n) ==
    /\ DOMAIN s = Fields
    /\ IF FineTo(raw, n) THEN HasRead(s, raw, n) ELSE s.at = "bad"

\* Before the first place nothing has been read.
LEMMA FollowsAtFirst ==
    ASSUME NEW N, NEW raw \in Seq(Lexeme(N))
    PROVE  Follows(Start, raw, 0)
<1>1. 1..0 = {}
  OBVIOUS
<1>2. FineTo(raw, 0) /\ Closed(raw, 0) = {}
  BY <1>1 DEF FineTo, Closed
<1>3. TagOf(raw, 0) = NoName
  BY <1>1 DEF TagOf
<1>4. Position(raw, 0) = "start"
  BY DEF Position
<1>5. HasRead(Start, raw, 0)
  <2>1. /\ Start.at = "start" /\ Start.tag = NoName /\ Start.lists = {}
    BY DEF Start
  <2>2. Start.tagged = FALSE /\ Start.negated = FALSE
    BY DEF Start
  <2>3. Start.tagged = (0 > 0 /\ raw[1].type = "angle")
    <3>1. ~ (0 > 0)
      OBVIOUS
    <3>2. QED
      BY <2>2, <3>1, Zenon
  <2>4. Start.negated = (Start.at = "not")
    BY <2>1, <2>2
  <2>5. QED
    BY <1>1, <1>2, <1>3, <1>4, <2>1, <2>3, <2>4 DEF HasRead
<1>6. QED
  BY <1>2, <1>5 DEF Follows, Fields, Start

\* After places that are fine the automaton knows whether it is in a list.
LEMMA InsideKnown ==
    ASSUME NEW N, NEW raw \in Seq(Lexeme(N)), NEW n \in 0..Len(raw), FineTo(raw, n)
    PROVE  /\ Inside(raw, n + 1) <=> Position(raw, n) \in {"list", "not"}
           /\ Position(raw, n) \in {"start", "tag", "list", "not", "between"}
<1>1. CASE n = 0
  <2>1. ~ Inside(raw, n + 1)
    BY <1>1 DEF Inside, OpenedAt
  <2>2. QED
    BY <1>1, <2>1 DEF Position
<1>2. CASE n > 0 /\ raw[n].type = ")"
  <2>1. ~ Inside(raw, n + 1)
    BY <1>2, OpenedNext DEF Inside
  <2>2. QED
    BY <1>2, <2>1 DEF Position
<1>3. CASE n > 0 /\ raw[n].type = "Not"
  <2>1. Inside(raw, n)
    BY <1>3 DEF FineTo, Fine
  <2>2. Inside(raw, n + 1)
    BY <1>3, <2>1, OpenedNext DEF Inside
  <2>3. QED
    BY <1>3, <2>2 DEF Position
<1>4. CASE n > 0 /\ raw[n].type \notin {")", "Not"}
  BY <1>4 DEF Position
<1>5. QED
  BY <1>1, <1>2, <1>3, <1>4

\* The tag of a place is that of the place before, unless a tag stands there.
LEMMA TagNext ==
    ASSUME NEW N, NEW raw \in Seq(Lexeme(N)), NEW n \in Nat, n < Len(raw)
    PROVE  TagOf(raw, n + 1) = IF raw[n + 1].type = "angle" /\ ~ Inside(raw, n + 1)
                               THEN raw[n + 1].name ELSE TagOf(raw, n)
<1> DEFINE Tags(m) == {i \in 1..m : raw[i].type = "angle" /\ ~ Inside(raw, i)}
           Last(m) == CHOOSE i \in Tags(m) : \A k \in Tags(m) : k <= i
<1>1. 1..n+1 = (1..n) \cup {n + 1}
  OBVIOUS
<1>2. \A m : TagOf(raw, m) = IF Tags(m) = {} THEN NoName ELSE raw[Last(m)].name
  BY DEF TagOf
<1>3. CASE raw[n + 1].type = "angle" /\ ~ Inside(raw, n + 1)
  <2>1. n + 1 \in Tags(n + 1) /\ \A k \in Tags(n + 1) : k <= n + 1
    BY <1>3
  <2>2. \A i \in Tags(n + 1) : (\A k \in Tags(n + 1) : k <= i) => i = n + 1
    BY <2>1
  <2>3. Last(n + 1) = n + 1
    BY <2>1, <2>2
  <2> HIDE DEF Tags, Last
  <2>4. QED
    BY <1>2, <1>3, <2>1, <2>3
<1>4. CASE ~ (raw[n + 1].type = "angle" /\ ~ Inside(raw, n + 1))
  <2>1. Tags(n + 1) = Tags(n)
    BY <1>1, <1>4
  <2>2. Last(n + 1) = Last(n)
    BY <2>1
  <2> HIDE DEF Tags, Last
  <2>3. QED
    BY <1>2, <1>4, <2>1, <2>2
<1>5. QED
  BY <1>3, <1>4

\* The conditions of a list after a place of it: one more if a name stands there.
LEMMA ConditionsNext ==
    ASSUME NEW N, NEW raw \in Seq(Lexeme(N)), NEW n \in Nat, n < Len(raw), NEW j \in DOMAIN raw,
           OpenedAt(raw, n + 1, j)
    PROVE  /\ raw[n + 1].type \in Names =>
                  ConditionsTo(raw, j, n + 1) = ConditionsTo(raw, j, n) \cup {ConditionAt(raw, n + 1)}
           /\ raw[n + 1].type \notin Names => ConditionsTo(raw, j, n + 1) = ConditionsTo(raw, j, n)
<1> DEFINE P(m) == {k \in 1..m : OpenedAt(raw, k, j) /\ raw[k].type \in Names}
<1>1. 1..n+1 = (1..n) \cup {n + 1}
  OBVIOUS
<1>2. raw[n + 1].type \in Names => P(n + 1) = P(n) \cup {n + 1}
  BY <1>1
<1>3. raw[n + 1].type \notin Names => P(n + 1) = P(n)
  BY <1>1
<1>4. \A m : ConditionsTo(raw, j, m) = {ConditionAt(raw, i) : i \in P(m)}
  BY DEF ConditionsTo
<1> HIDE DEF P
<1>5. ConditionsTo(raw, j, n + 1) = {ConditionAt(raw, i) : i \in P(n + 1)}
  BY <1>4
<1>6. ConditionsTo(raw, j, n) = {ConditionAt(raw, i) : i \in P(n)}
  BY <1>4
<1>7. QED
  BY <1>2, <1>3, <1>5, <1>6

\* A list that is closed has no more conditions than it had before.
LEMMA ConditionsAtClose ==
    ASSUME NEW N, NEW raw \in Seq(Lexeme(N)), NEW n \in Nat, n < Len(raw), NEW j \in DOMAIN raw,
           OpenedAt(raw, n + 1, j), raw[n + 1].type = ")"
    PROVE  ConditionsOf(raw, j) = ConditionsTo(raw, j, n)
<1>1. ASSUME NEW k \in DOMAIN raw, OpenedAt(raw, k, j), raw[k].type \in Names
      PROVE  k \in 1..n
  <2>1. j \in Nat /\ k \in Nat /\ j < k /\ k >= 1 /\ k # n + 1 /\ raw[j].type = "("
    BY <1>1 DEF OpenedAt, Names
  <2>2. ~ (k > n + 1)
    <3>1. j < n + 1
      BY DEF OpenedAt
    <3>2. k > n + 1 => n + 1 \in j + 1 .. k - 1
      BY <2>1, <3>1
    <3>3. QED
      BY <1>1, <3>2 DEF OpenedAt
  <2>3. QED
    BY <2>1, <2>2
<1>2. \A k \in 1..n : k \in DOMAIN raw
  OBVIOUS
<1>3. {k \in DOMAIN raw : OpenedAt(raw, k, j) /\ raw[k].type \in Names}
      = {k \in 1..n : OpenedAt(raw, k, j) /\ raw[k].type \in Names}
  BY <1>1, <1>2
<1>4. QED
  BY <1>3 DEF ConditionsOf, ConditionsTo, ConditionAt

\* What is fine is no stray bracket.
LEMMA NoStray ==
    ASSUME NEW N, NEW raw \in Seq(Lexeme(N)), NEW n \in Nat, n <= Len(raw), FineTo(raw, n), n > 0
    PROVE  raw[n].type \in {"(", ")", "Not", "angle", "square", "word"}
<1>1. Fine(raw, n, n) /\ n \in DOMAIN raw
  BY DEF FineTo
<1>2. raw[n].type # "stray"
  BY <1>1 DEF Fine, Names
<1>3. QED
  BY <1>1, <1>2, LexemeAt

\* Which place may follow n places that are fine depends on where the automaton is.
LEMMA FineHere ==
    ASSUME NEW N, NEW raw \in Seq(Lexeme(N)), NEW n \in Nat, n < Len(raw), FineTo(raw, n),
           NEW at, at = Position(raw, n), NEW type, type = raw[n + 1].type
    PROVE  FineTo(raw, n + 1) <=>
              \/ type = "(" /\ at \in {"start", "tag", "between"}
              \/ type = ")" /\ at = "list" /\ raw[n].type \in Names
              \/ type = "Not" /\ at = "list"
              \/ type = "angle" /\ raw[1].type = "angle" /\ at \in {"start", "between"}
              \/ type \in Names /\ at \in {"list", "not"}
<1>1. /\ Inside(raw, n + 1) <=> at \in {"list", "not"}
      /\ at \in {"start", "tag", "list", "not", "between"}
  BY InsideKnown
<1>2. n > 0 /\ raw[n].type = "Not" <=> at = "not"
  BY DEF Position
<1>3. n > 0 /\ raw[n].type = "angle" /\ ~ Inside(raw, n) <=> at = "tag"
  <2>1. CASE n = 0
    BY <2>1 DEF Position
  <2>2. CASE n > 0 /\ raw[n].type = "("
    <3>1. OpenedAt(raw, n + 1, n)
      BY <2>2, OpenedNext
    <3>2. Inside(raw, n + 1)
      BY <2>2, <3>1 DEF Inside
    <3>3. QED
      BY <1>1, <2>2, <3>2
  <2>3. CASE n > 0 /\ raw[n].type \in {")", "Not"}
    BY <2>3 DEF Position
  <2>4. CASE n > 0 /\ raw[n].type \in Names
    <3>1. Inside(raw, n + 1) <=> Inside(raw, n)
      BY <2>4, OpenedNext DEF Inside, Names
    <3>2. raw[n].type # "angle" => Inside(raw, n)
      BY <2>4 DEF FineTo, Fine, Names
    <3>3. at = "tag" <=> ~ Inside(raw, n + 1)
      BY <1>1, <2>4 DEF Position, Names
    <3>4. QED
      BY <2>4, <3>1, <3>2, <3>3
  <2>5. n > 0 => raw[n].type \in {"(", ")", "Not", "angle", "square", "word"}
    BY NoStray
  <2>6. QED
    BY <2>1, <2>2, <2>3, <2>4, <2>5 DEF Names
<1>4. FineTo(raw, n + 1) <=> /\ Fine(raw, n + 1, n + 1)
                             /\ at = "not" => type \in Names
                             /\ at = "tag" => type = "("
  BY <1>2, <1>3, FineNext
<1>5. type \in {"(", ")", "Not", "angle", "square", "word", "stray"}
  BY LexemeAt
<1>6. ~ (n + 1 < n + 1) /\ n + 1 - 1 = n
  OBVIOUS
<1>7. Fine(raw, n + 1, n + 1) <=>
         \/ type = "(" /\ ~ Inside(raw, n + 1)
         \/ type = ")" /\ Inside(raw, n + 1) /\ raw[n].type \in Names
         \/ type \in {"Not", "square", "word"} /\ Inside(raw, n + 1)
         \/ type = "angle" /\ (Inside(raw, n + 1) \/ raw[1].type = "angle")
  <2>1. CASE type = "("
    BY <2>1 DEF Fine
  <2>2. CASE type = ")"
    BY <1>6, <2>2 DEF Fine
  <2>3. CASE type = "Not"
    BY <1>6, <2>3 DEF Fine
  <2>4. CASE type = "angle"
    BY <1>6, <2>4 DEF Fine
  <2>5. CASE type \in {"square", "word"}
    BY <2>5 DEF Fine, Names
  <2>6. CASE type = "stray"
    BY <2>6 DEF Fine, Names
  <2>7. QED
    BY <1>5, <2>1, <2>2, <2>3, <2>4, <2>5, <2>6
<1>8. at = "not" => raw[n].type \notin Names
  BY <1>2 DEF Names
<1>9. QED
  BY <1>1, <1>4, <1>5, <1>7, <1>8 DEF Names

\* The lists that are closed after one more place.
LEMMA ClosedNext ==
    ASSUME NEW N, NEW raw \in Seq(Lexeme(N)), NEW n \in Nat, n < Len(raw)
    PROVE  /\ raw[n + 1].type = "(" /\ ~ Inside(raw, n + 1) => Closed(raw, n + 1) = Closed(raw, n)
           /\ raw[n + 1].type = ")" =>
                 \A j \in 1..n : OpenedAt(raw, n + 1, j) => Closed(raw, n + 1) = Closed(raw, n) \cup {j}
           /\ raw[n + 1].type \notin {"(", ")"} => Closed(raw, n + 1) = Closed(raw, n)
<1>1. 1..n+1 = (1..n) \cup {n + 1} /\ n + 1 \in DOMAIN raw /\ 1..n+1 \subseteq DOMAIN raw /\ n + 1 \notin 1..n
  OBVIOUS
<1>2. \A j \in 1..n+1 :
         /\ raw[n + 1].type = "(" => (OpenedAt(raw, n + 1 + 1, j) <=> j = n + 1)
         /\ raw[n + 1].type = ")" => ~ OpenedAt(raw, n + 1 + 1, j)
         /\ raw[n + 1].type \notin {"(", ")"} => (OpenedAt(raw, n + 1 + 1, j) <=> OpenedAt(raw, n + 1, j))
  BY <1>1, OpenedNext
<1>3. ASSUME raw[n + 1].type = "(", ~ Inside(raw, n + 1)
      PROVE  Closed(raw, n + 1) = Closed(raw, n)
  <2>1. \A j \in 1..n : ~ OpenedAt(raw, n + 1, j)
    BY <1>1, <1>3 DEF Inside
  <2>2. QED
    BY <1>1, <1>2, <1>3, <2>1 DEF Closed
<1>4. ASSUME raw[n + 1].type = ")", NEW j \in 1..n, OpenedAt(raw, n + 1, j)
      PROVE  Closed(raw, n + 1) = Closed(raw, n) \cup {j}
  <2>1. \A k \in 1..n : OpenedAt(raw, n + 1, k) => k = j
    BY <1>1, <1>4, OneOpener
  <2>2. raw[j].type = "("
    BY <1>4 DEF OpenedAt
  <2>3. QED
    BY <1>1, <1>2, <1>4, <2>1, <2>2 DEF Closed
<1>5. ASSUME raw[n + 1].type \notin {"(", ")"}
      PROVE  Closed(raw, n + 1) = Closed(raw, n)
  BY <1>1, <1>2, <1>5 DEF Closed
<1>6. QED
  BY <1>3, <1>4, <1>5

\* Whether a header is tagged is settled at its first place.
LEMMA TaggedNext ==
    ASSUME NEW raw, NEW n \in Nat, n > 0 \/ raw[n + 1].type # "angle"
    PROVE  (n + 1 > 0 /\ raw[1].type = "angle") = (n > 0 /\ raw[1].type = "angle")
<1>1. n + 1 > 0 /\ (n > 0 \/ raw[1].type # "angle")
  OBVIOUS
<1>2. QED
  BY <1>1, Zenon

\* An opening bracket.
LEMMA ReadsOpen ==
    ASSUME NEW N, NEW raw \in Seq(Lexeme(N)), NEW n \in Nat, n < Len(raw), NEW s, DOMAIN s = Fields,
           FineTo(raw, n), HasRead(s, raw, n), raw[n + 1].type = "(", s.at \in {"start", "tag", "between"}
    PROVE  HasRead([s EXCEPT !.at = "list", !.open = {}], raw, n + 1)
<1> DEFINE t == [s EXCEPT !.at = "list", !.open = {}]
<1>1. n + 1 \in DOMAIN raw /\ 1..n+1 \subseteq DOMAIN raw
  OBVIOUS
<1>2. /\ t.at = "list" /\ t.open = {} /\ t.tag = s.tag /\ t.lists = s.lists
      /\ t.tagged = s.tagged /\ t.negated = s.negated
  BY DEF Fields
<1> HIDE DEF t
<1>3. \A j \in 1..n+1 : OpenedAt(raw, n + 1 + 1, j) <=> j = n + 1
  BY <1>1, OpenedNext
<1>4. t.at = Position(raw, n + 1)
  BY <1>1, <1>2, <1>3 DEF Position, Inside
<1>5. t.tagged = (n + 1 > 0 /\ raw[1].type = "angle")
  <2>1. raw[n + 1].type # "angle"
    OBVIOUS
  <2>2. QED
    BY <1>2, <2>1, TaggedNext DEF HasRead
<1>6. ~ Inside(raw, n + 1)
  BY InsideKnown DEF HasRead
<1>7. t.tag = TagOf(raw, n + 1) /\ t.lists = {Entry(raw, j) : j \in Closed(raw, n + 1)}
  BY <1>2, <1>6, TagNext, ClosedNext DEF HasRead
<1>8. t.negated = (t.at = "not")
  <2>1. s.at # "not" /\ t.at # "not"
    BY <1>2
  <2>2. QED
    BY <1>2, <2>1, Zenon DEF HasRead
<1>9. ConditionsTo(raw, n + 1, n + 1) = {}
  BY DEF ConditionsTo, OpenedAt
<1>10. \A j \in 1..n+1 : OpenedAt(raw, n + 1 + 1, j) => t.open = ConditionsTo(raw, j, n + 1)
  BY <1>2, <1>3, <1>9
<1>11. HasRead(t, raw, n + 1)
  BY <1>4, <1>5, <1>7, <1>8, <1>10 DEF HasRead
<1>12. QED
  BY <1>11 DEF t

\* In a list stands a place that does not close it and opens no other.
LEMMA ReadsInside ==
    ASSUME NEW N, NEW raw \in Seq(Lexeme(N)), NEW n \in Nat, n < Len(raw), NEW s, DOMAIN s = Fields,
           FineTo(raw, n), HasRead(s, raw, n), raw[n + 1].type \notin {"(", ")"}, s.at \in {"list", "not"}
    PROVE  /\ \E j \in 1..n : OpenedAt(raw, n + 1, j) /\ s.open = ConditionsTo(raw, j, n)
                             /\ \A k \in 1..n+1 : OpenedAt(raw, n + 1 + 1, k) <=> k = j
           /\ n > 0
<1>1. n + 1 \in DOMAIN raw /\ 1..n+1 \subseteq DOMAIN raw /\ 1..n \subseteq 1..n+1
  OBVIOUS
<1>2. Inside(raw, n + 1) /\ n > 0
  <2>1. s.at = Position(raw, n)
    BY DEF HasRead
  <2>2. QED
    BY <2>1, InsideKnown DEF Position
<1>3. PICK j \in DOMAIN raw : OpenedAt(raw, n + 1, j)
  BY <1>2 DEF Inside
<1>4. j \in 1..n
  BY <1>3 DEF OpenedAt
<1>5. s.open = ConditionsTo(raw, j, n)
  BY <1>3, <1>4 DEF HasRead
<1>6. \A k \in 1..n+1 : OpenedAt(raw, n + 1 + 1, k) <=> k = j
  BY <1>1, <1>3, <1>4, OpenedNext, OneOpener
<1>7. QED
  BY <1>2, <1>3, <1>4, <1>5, <1>6

\* It closes no list and is no tag.
LEMMA KeepsInside ==
    ASSUME NEW N, NEW raw \in Seq(Lexeme(N)), NEW n \in Nat, n < Len(raw), NEW s, DOMAIN s = Fields,
           FineTo(raw, n), HasRead(s, raw, n), raw[n + 1].type \notin {"(", ")"}, s.at \in {"list", "not"}
    PROVE  /\ s.tagged = (n + 1 > 0 /\ raw[1].type = "angle")
           /\ s.tag = TagOf(raw, n + 1)
           /\ s.lists = {Entry(raw, j) : j \in Closed(raw, n + 1)}
<1>1. Inside(raw, n + 1) /\ n > 0
  <2>1. s.at = Position(raw, n)
    BY DEF HasRead
  <2>2. QED
    BY <2>1, InsideKnown DEF Position
<1>2. s.tagged = (n + 1 > 0 /\ raw[1].type = "angle")
  BY <1>1, TaggedNext DEF HasRead
<1>3. s.tag = TagOf(raw, n + 1) /\ s.lists = {Entry(raw, k) : k \in Closed(raw, n + 1)}
  BY <1>1, TagNext, ClosedNext DEF HasRead
<1>4. QED
  BY <1>2, <1>3

\* A Not.
LEMMA ReadsNot ==
    ASSUME NEW N, NEW raw \in Seq(Lexeme(N)), NEW n \in Nat, n < Len(raw), NEW s, DOMAIN s = Fields,
           FineTo(raw, n), HasRead(s, raw, n), raw[n + 1].type = "Not", s.at = "list"
    PROVE  HasRead([s EXCEPT !.at = "not", !.negated = TRUE], raw, n + 1)
<1> DEFINE t == [s EXCEPT !.at = "not", !.negated = TRUE]
<1>1. /\ t.at = "not" /\ t.open = s.open /\ t.tag = s.tag /\ t.lists = s.lists
      /\ t.tagged = s.tagged /\ t.negated = TRUE
  BY DEF Fields
<1> HIDE DEF t
<1>2. PICK j \in 1..n : /\ OpenedAt(raw, n + 1, j) /\ s.open = ConditionsTo(raw, j, n)
                        /\ \A k \in 1..n+1 : OpenedAt(raw, n + 1 + 1, k) <=> k = j
  BY ReadsInside
<1>3. /\ s.tagged = (n + 1 > 0 /\ raw[1].type = "angle")
      /\ s.tag = TagOf(raw, n + 1)
      /\ s.lists = {Entry(raw, k) : k \in Closed(raw, n + 1)}
  BY KeepsInside
<1>4. t.at = Position(raw, n + 1)
  BY <1>1 DEF Position
<1>5. t.negated = (t.at = "not")
  BY <1>1
<1>6. ConditionsTo(raw, j, n + 1) = ConditionsTo(raw, j, n)
  BY <1>2, ConditionsNext DEF Names
<1>7. \A k \in 1..n+1 : OpenedAt(raw, n + 1 + 1, k) => t.open = ConditionsTo(raw, k, n + 1)
  BY <1>1, <1>2, <1>6
<1>8. HasRead(t, raw, n + 1)
  BY <1>1, <1>3, <1>4, <1>5, <1>7 DEF HasRead
<1>9. QED
  BY <1>8 DEF t

\* A condition.
LEMMA ReadsName ==
    ASSUME NEW N, NEW raw \in Seq(Lexeme(N)), NEW n \in Nat, n < Len(raw), NEW s, DOMAIN s = Fields,
           FineTo(raw, n), HasRead(s, raw, n), raw[n + 1].type \in Names, s.at \in {"list", "not"}
    PROVE  HasRead(ReadCondition(s, raw[n + 1]), raw, n + 1)
<1> DEFINE c == [kind |-> IF raw[n + 1].type = "square" THEN "etag" ELSE "token",
                 name |-> raw[n + 1].name, negated |-> s.negated]
           t == [s EXCEPT !.at = "list", !.negated = FALSE, !.open = @ \cup {c}]
<1>1. /\ t.at = "list" /\ t.open = s.open \cup {c} /\ t.tag = s.tag /\ t.lists = s.lists
      /\ t.tagged = s.tagged /\ t.negated = FALSE
  BY DEF Fields
<1>2. t = ReadCondition(s, raw[n + 1])
  BY DEF ReadCondition
<1>3. c = ConditionAt(raw, n + 1)
  <2>1. s.negated = (s.at = "not") /\ s.at = Position(raw, n)
    BY DEF HasRead
  <2>2. n > 0
    BY <2>1 DEF Position
  <2>3. s.at = "not" <=> raw[n].type = "Not"
    BY <2>1, <2>2 DEF Position
  <2>4. s.negated = (raw[n].type = "Not")
    BY <2>1, <2>3, Zenon
  <2>5. n + 1 - 1 = n
    OBVIOUS
  <2>6. s.negated = (raw[n + 1 - 1].type = "Not")
    BY <2>4, <2>5, Zenon
  <2> DEFINE Condition(b) == [kind |-> IF raw[n + 1].type = "square" THEN "etag" ELSE "token",
                             name |-> raw[n + 1].name, negated |-> b]
  <2>7. ConditionAt(raw, n + 1) = Condition(raw[n + 1 - 1].type = "Not")
    BY DEF ConditionAt
  <2>8. c = Condition(s.negated)
    OBVIOUS
  <2> HIDE DEF Condition, c
  <2>9. QED
    BY <2>6, <2>7, <2>8, Zenon
<1> HIDE DEF t, c
<1>4. raw[n + 1].type \notin {"(", ")", "Not"}
  BY DEF Names
<1>5. PICK j \in 1..n : /\ OpenedAt(raw, n + 1, j) /\ s.open = ConditionsTo(raw, j, n)
                        /\ \A k \in 1..n+1 : OpenedAt(raw, n + 1 + 1, k) <=> k = j
  BY <1>4, ReadsInside
<1>6. /\ s.tagged = (n + 1 > 0 /\ raw[1].type = "angle")
      /\ s.tag = TagOf(raw, n + 1)
      /\ s.lists = {Entry(raw, k) : k \in Closed(raw, n + 1)}
  BY <1>4, KeepsInside
<1>7. t.at = Position(raw, n + 1)
  <2>1. Inside(raw, n + 1 + 1)
    BY <1>5 DEF Inside
  <2>2. QED
    BY <1>1, <1>4, <2>1 DEF Position
<1>8. t.negated = (t.at = "not")
  BY <1>1
<1>9. ConditionsTo(raw, j, n + 1) = ConditionsTo(raw, j, n) \cup {ConditionAt(raw, n + 1)}
  BY <1>5, ConditionsNext
<1>10. \A k \in 1..n+1 : OpenedAt(raw, n + 1 + 1, k) => t.open = ConditionsTo(raw, k, n + 1)
  BY <1>1, <1>3, <1>5, <1>9
<1>11. HasRead(t, raw, n + 1)
  BY <1>1, <1>6, <1>7, <1>8, <1>10 DEF HasRead
<1>12. QED
  BY <1>2, <1>11

\* Between the opening of a list and the next place of it stands no tag.
LEMMA TagInside ==
    ASSUME NEW N, NEW raw \in Seq(Lexeme(N)), NEW n \in 0..Len(raw), NEW j \in 1..n, OpenedAt(raw, n + 1, j)
    PROVE  TagOf(raw, n) = TagOf(raw, j)
<1> DEFINE Tags(m) == {i \in 1..m : raw[i].type = "angle" /\ ~ Inside(raw, i)}
<1>1. ASSUME NEW i \in 1..n, i \notin 1..j PROVE Inside(raw, i)
  <2>1. j < i /\ j + 1 .. i - 1 \subseteq j + 1 .. n + 1 - 1 /\ j \in DOMAIN raw
    BY <1>1
  <2>2. OpenedAt(raw, i, j)
    BY <2>1 DEF OpenedAt
  <2>3. QED
    BY <2>1, <2>2 DEF Inside
<1>2. 1..j \subseteq 1..n
  OBVIOUS
<1>3. Tags(n) = Tags(j)
  BY <1>1, <1>2
<1>4. \A m : TagOf(raw, m) = IF Tags(m) = {} THEN NoName
                             ELSE raw[CHOOSE i \in Tags(m) : \A k \in Tags(m) : k <= i].name
  BY DEF TagOf
<1> HIDE DEF Tags
<1>5. QED
  BY <1>3, <1>4

\* A closing bracket.
LEMMA ReadsClose ==
    ASSUME NEW N, NEW raw \in Seq(Lexeme(N)), NEW n \in Nat, n < Len(raw), NEW s, DOMAIN s = Fields,
           FineTo(raw, n), HasRead(s, raw, n), raw[n + 1].type = ")", s.at = "list"
    PROVE  /\ s.open # {} <=> raw[n].type \in Names
           /\ HasRead([s EXCEPT !.at = "between",
                                !.lists = @ \cup {[tag |-> s.tag, conditions |-> s.open]}], raw, n + 1)
<1> DEFINE t == [s EXCEPT !.at = "between", !.lists = @ \cup {[tag |-> s.tag, conditions |-> s.open]}]
<1>1. /\ t.at = "between" /\ t.open = s.open /\ t.tag = s.tag
      /\ t.lists = s.lists \cup {[tag |-> s.tag, conditions |-> s.open]}
      /\ t.tagged = s.tagged /\ t.negated = s.negated
  BY DEF Fields
<1> HIDE DEF t
<1>2. s.at = Position(raw, n)
  BY DEF HasRead
<1>3. n > 0 /\ Inside(raw, n + 1) /\ n \in DOMAIN raw /\ n + 1 \in DOMAIN raw /\ 1..n+1 \subseteq DOMAIN raw
  BY <1>2, InsideKnown DEF Position
<1>4. PICK j \in DOMAIN raw : OpenedAt(raw, n + 1, j)
  BY <1>3 DEF Inside
<1>5. j \in 1..n
  BY <1>4 DEF OpenedAt
<1>6. s.open = ConditionsTo(raw, j, n)
  BY <1>4, <1>5 DEF HasRead
<1>7. s.open # {} <=> raw[n].type \in Names
  <2>1. raw[n].type \in {"(", "angle", "square", "word"}
    BY <1>2, <1>3, NoStray DEF Position
  <2>2. CASE raw[n].type = "("
    <3>1. j = n
      BY <1>3, <1>4, <2>2, OpenedNext
    <3>2. \A k \in 1..n : ~ OpenedAt(raw, k, n)
      BY DEF OpenedAt
    <3>3. s.open = {}
      BY <1>6, <3>1, <3>2 DEF ConditionsTo
    <3>4. QED
      BY <2>2, <3>3 DEF Names
  <2>3. CASE raw[n].type \in Names
    <3>1. OpenedAt(raw, n, j)
      BY <1>3, <1>4, <2>3, OpenedNext DEF Names
    <3>2. n \in 1..n
      BY <1>3
    <3>3. ConditionAt(raw, n) \in s.open
      BY <1>6, <2>3, <3>1, <3>2 DEF ConditionsTo
    <3>4. QED
      BY <2>3, <3>3
  <2>4. QED
    BY <2>1, <2>2, <2>3 DEF Names
<1>8. t.at = Position(raw, n + 1)
  BY <1>1 DEF Position
<1>9. t.tagged = (n + 1 > 0 /\ raw[1].type = "angle")
  BY <1>1, <1>3, TaggedNext DEF HasRead
<1>10. t.tag = TagOf(raw, n + 1)
  BY <1>1, TagNext DEF HasRead
<1>11. t.negated = (t.at = "not")
  <2>1. s.at # "not" /\ t.at # "not"
    BY <1>1
  <2>2. QED
    BY <1>1, <2>1, Zenon DEF HasRead
<1>12. \A k \in 1..n+1 : ~ OpenedAt(raw, n + 1 + 1, k)
  BY <1>3, OpenedNext
<1>13. [tag |-> s.tag, conditions |-> s.open] = Entry(raw, j)
  <2>1. s.tag = TagOf(raw, n) /\ TagOf(raw, n) = TagOf(raw, j)
    BY <1>4, <1>5, TagInside DEF HasRead
  <2>2. s.open = ConditionsOf(raw, j)
    BY <1>4, <1>6, ConditionsAtClose
  <2>3. QED
    BY <2>1, <2>2 DEF Entry
<1>14. Closed(raw, n + 1) = Closed(raw, n) \cup {j}
  BY <1>4, <1>5, ClosedNext
<1>15. t.lists = {Entry(raw, k) : k \in Closed(raw, n + 1)}
  <2>1. s.lists = {Entry(raw, k) : k \in Closed(raw, n)}
    BY DEF HasRead
  <2>2. QED
    BY <1>1, <1>13, <1>14, <2>1
<1>16. HasRead(t, raw, n + 1)
  BY <1>8, <1>9, <1>10, <1>11, <1>12, <1>15 DEF HasRead
<1>17. QED
  BY <1>7, <1>16 DEF t

\* A tag.
LEMMA ReadsTag ==
    ASSUME NEW N, NEW raw \in Seq(Lexeme(N)), NEW n \in Nat, n < Len(raw), NEW s, DOMAIN s = Fields,
           FineTo(raw, n), HasRead(s, raw, n), raw[n + 1].type = "angle", raw[1].type = "angle",
           s.at \in {"start", "between"}
    PROVE  HasRead([s EXCEPT !.at = "tag", !.tagged = TRUE, !.tag = raw[n + 1].name], raw, n + 1)
<1> DEFINE t == [s EXCEPT !.at = "tag", !.tagged = TRUE, !.tag = raw[n + 1].name]
<1>1. /\ t.at = "tag" /\ t.open = s.open /\ t.tag = raw[n + 1].name /\ t.lists = s.lists
      /\ t.tagged = TRUE /\ t.negated = s.negated
  BY DEF Fields
<1> HIDE DEF t
<1>2. ~ Inside(raw, n + 1) /\ n + 1 \in DOMAIN raw /\ 1..n+1 \subseteq DOMAIN raw
  BY InsideKnown DEF HasRead
<1>3. \A j \in DOMAIN raw : ~ OpenedAt(raw, n + 1 + 1, j)
  BY <1>2, OpenedNext DEF Inside
<1>4. t.at = Position(raw, n + 1)
  BY <1>1, <1>3 DEF Position, Inside
<1>5. t.tagged = (n + 1 > 0 /\ raw[1].type = "angle")
  <2>1. n + 1 > 0
    OBVIOUS
  <2>2. QED
    BY <1>1, <2>1, Zenon
<1>6. t.tag = TagOf(raw, n + 1)
  BY <1>1, <1>2, TagNext
<1>7. t.negated = (t.at = "not")
  <2>1. s.at # "not" /\ t.at # "not"
    BY <1>1
  <2>2. QED
    BY <1>1, <2>1, Zenon DEF HasRead
<1>8. t.lists = {Entry(raw, k) : k \in Closed(raw, n + 1)}
  BY <1>1, ClosedNext DEF HasRead
<1>9. HasRead(t, raw, n + 1)
  BY <1>2, <1>3, <1>4, <1>5, <1>6, <1>7, <1>8 DEF HasRead
<1>10. QED
  BY <1>9 DEF t

\* From place to place the automaton reads what is fine, and stops at what is not.
LEMMA FollowsOn ==
    ASSUME NEW N, NEW raw \in Seq(Lexeme(N)), NEW n \in Nat, n < Len(raw), NEW s, Follows(s, raw, n)
    PROVE  Follows(Step(s, raw[n + 1]), raw, n + 1)
<1>1. PICK l : l = raw[n + 1]
  OBVIOUS
<1>2. PICK t : t = Step(s, l)
  OBVIOUS
<1>3. DOMAIN s = Fields
  BY DEF Follows
<1> DEFINE Opening == s.at \in {"start", "tag", "between"} /\ l.type = "("
           Tagging == l.type = "angle" /\ (s.at = "start" \/ (s.at = "between" /\ s.tagged))
           Negating == s.at = "list" /\ l.type = "Not"
           Naming == s.at \in {"list", "not"} /\ l.type \in Names
           Closing == s.at = "list" /\ l.type = ")" /\ s.open # {}
           Refusing == \/ l.type = "(" /\ s.at \notin {"start", "tag", "between"}
                       \/ l.type = ")" /\ (s.at # "list" \/ s.open = {})
                       \/ l.type = "Not" /\ s.at # "list"
                       \/ l.type = "angle" /\ s.at \notin {"list", "not", "start", "between"}
                       \/ l.type = "angle" /\ s.at = "between" /\ ~ s.tagged
                       \/ l.type \in {"square", "word"} /\ s.at \notin {"list", "not"}
                       \/ l.type = "stray"
<1>4. /\ DOMAIN t = Fields
      /\ Opening => t = [s EXCEPT !.at = "list", !.open = {}]
      /\ Tagging => t = [s EXCEPT !.at = "tag", !.tagged = TRUE, !.tag = l.name]
      /\ Negating => t = [s EXCEPT !.at = "not", !.negated = TRUE]
      /\ Naming => t = ReadCondition(s, l)
      /\ Closing => t = [s EXCEPT !.at = "between",
                                  !.lists = @ \cup {[tag |-> s.tag, conditions |-> s.open]}]
      /\ Refusing => t.at = "bad"
  <2>1. DOMAIN t = Fields
    BY <1>2, <1>3 DEF Step, ReadCondition, Fields
  <2>2. ASSUME Opening PROVE t = [s EXCEPT !.at = "list", !.open = {}]
    BY <1>2, <1>3, <2>2 DEF Step, Fields, Names
  <2>3. ASSUME Tagging PROVE t = [s EXCEPT !.at = "tag", !.tagged = TRUE, !.tag = l.name]
    BY <1>2, <1>3, <2>3 DEF Step, Fields
  <2>4. ASSUME Negating PROVE t = [s EXCEPT !.at = "not", !.negated = TRUE]
    BY <1>2, <1>3, <2>4 DEF Step, Fields, Names
  <2>5. ASSUME Naming PROVE t = ReadCondition(s, l)
    BY <1>2, <1>3, <2>5 DEF Step, Fields, Names
  <2>6. ASSUME Closing
        PROVE  t = [s EXCEPT !.at = "between",
                             !.lists = @ \cup {[tag |-> s.tag, conditions |-> s.open]}]
    BY <1>2, <1>3, <2>6 DEF Step, Fields, Names
  <2>7. ASSUME Refusing PROVE t.at = "bad"
    BY <1>2, <1>3, <2>7 DEF Step, Fields, Names
  <2> HIDE DEF Opening, Tagging, Negating, Naming, Closing, Refusing
  <2>8. QED
    BY <2>1, <2>2, <2>3, <2>4, <2>5, <2>6, <2>7, Zenon
<1>5. l.type \in {"(", ")", "Not", "angle", "square", "word", "stray"} /\ Names = {"angle", "square", "word"}
  BY <1>1, LexemeAt DEF Names
<1>6. CASE ~ FineTo(raw, n)
  <2>1. ~ FineTo(raw, n + 1)
    BY <1>6, FineNext
  <2>2. s.at = "bad"
    BY <1>6 DEF Follows
  <2>3. t.at = "bad"
    BY <1>5, <1>4, <2>2
  <2>4. QED
    BY <1>1, <1>2, <1>4, <2>1, <2>3 DEF Follows
<1>7. CASE FineTo(raw, n)
  <2>1. HasRead(s, raw, n)
    BY <1>7 DEF Follows
  <2>2. s.at = Position(raw, n) /\ s.at \in {"start", "tag", "list", "not", "between"}
    BY <1>7, <2>1, InsideKnown DEF HasRead
  <2>3. FineTo(raw, n + 1) <=>
              \/ l.type = "(" /\ s.at \in {"start", "tag", "between"}
              \/ l.type = ")" /\ s.at = "list" /\ raw[n].type \in Names
              \/ l.type = "Not" /\ s.at = "list"
              \/ l.type = "angle" /\ raw[1].type = "angle" /\ s.at \in {"start", "between"}
              \/ l.type \in Names /\ s.at \in {"list", "not"}
    BY <1>1, <1>7, <2>2, FineHere
  <2>4. s.at = "start" /\ l.type = "angle" => raw[1].type = "angle"
    BY <1>1, <2>2 DEF Position
  <2>5. s.at = "between" => (s.tagged <=> raw[1].type = "angle")
    <3>1. s.at = "between" => n > 0
      BY <2>2 DEF Position
    <3>2. s.tagged = (n > 0 /\ raw[1].type = "angle")
      BY <2>1 DEF HasRead
    <3>3. QED
      BY <3>1, <3>2, Zenon
  <2>6. s.at = "list" /\ l.type = ")" => (s.open # {} <=> raw[n].type \in Names)
    BY <1>1, <1>3, <1>7, <2>1, ReadsClose
  <2>7. ASSUME FineTo(raw, n + 1) PROVE HasRead(t, raw, n + 1)
    <3>1. CASE l.type = "(" /\ s.at \in {"start", "tag", "between"}
      <4>1. HasRead([s EXCEPT !.at = "list", !.open = {}], raw, n + 1)
        BY <1>1, <1>3, <1>7, <2>1, <3>1, ReadsOpen
      <4>2. t = [s EXCEPT !.at = "list", !.open = {}]
        BY <1>4, <3>1
      <4>3. QED
        BY <4>1, <4>2, Zenon
    <3>2. CASE l.type = ")" /\ s.at = "list" /\ raw[n].type \in Names
      <4>1. t = [s EXCEPT !.at = "between", !.lists = @ \cup {[tag |-> s.tag, conditions |-> s.open]}]
        BY <1>4, <2>6, <3>2
      <4>2. HasRead([s EXCEPT !.at = "between",
                              !.lists = @ \cup {[tag |-> s.tag, conditions |-> s.open]}], raw, n + 1)
        BY <1>1, <1>3, <1>7, <2>1, <3>2, ReadsClose
      <4>3. QED
        BY <4>1, <4>2, Zenon
    <3>3. CASE l.type = "Not" /\ s.at = "list"
      <4>1. HasRead([s EXCEPT !.at = "not", !.negated = TRUE], raw, n + 1)
        BY <1>1, <1>3, <1>7, <2>1, <3>3, ReadsNot
      <4>2. t = [s EXCEPT !.at = "not", !.negated = TRUE]
        BY <1>4, <3>3
      <4>3. QED
        BY <4>1, <4>2, Zenon
    <3>4. CASE l.type = "angle" /\ raw[1].type = "angle" /\ s.at \in {"start", "between"}
      <4>1. t = [s EXCEPT !.at = "tag", !.tagged = TRUE, !.tag = l.name]
        <5>1. Tagging
          BY <2>5, <3>4
        <5>2. QED
          BY <1>4, <5>1, Zenon
      <4>2. HasRead([s EXCEPT !.at = "tag", !.tagged = TRUE, !.tag = raw[n + 1].name], raw, n + 1)
        BY <1>1, <1>3, <1>7, <2>1, <3>4, ReadsTag
      <4>3. QED
        BY <1>1, <4>1, <4>2, Zenon
    <3>5. CASE l.type \in Names /\ s.at \in {"list", "not"}
      <4>1. HasRead(ReadCondition(s, raw[n + 1]), raw, n + 1)
        BY <1>1, <1>3, <1>7, <2>1, <3>5, ReadsName
      <4>2. t = ReadCondition(s, l)
        BY <1>4, <3>5
      <4>3. QED
        BY <1>1, <4>1, <4>2, Zenon
    <3>6. QED
      BY <2>3, <2>7, <3>1, <3>2, <3>3, <3>4, <3>5
  <2>8. ASSUME ~ FineTo(raw, n + 1) PROVE t.at = "bad"
    <3>1. \/ l.type = "(" /\ s.at \notin {"start", "tag", "between"}
          \/ l.type = ")" /\ (s.at # "list" \/ raw[n].type \notin Names)
          \/ l.type = "Not" /\ s.at # "list"
          \/ l.type = "angle" /\ s.at \notin {"list", "not", "start", "between"}
          \/ l.type = "angle" /\ s.at = "between" /\ raw[1].type # "angle"
          \/ l.type \in {"square", "word"} /\ s.at \notin {"list", "not"}
          \/ l.type = "stray"
      BY <1>5, <2>2, <2>3, <2>4, <2>8
    <3>2. l.type = ")" => s.at # "list" \/ s.open = {}
      BY <2>6, <3>1
    <3>3. l.type = "angle" /\ s.at = "between" => ~ s.tagged
      BY <2>3, <2>5, <2>8
    <3>4. Refusing
      BY <3>1, <3>2, <3>3
    <3>5. QED
      BY <1>4, <3>4, Zenon
  <2>9. QED
    BY <1>1, <1>2, <1>4, <2>7, <2>8 DEF Follows
<1>8. QED
  BY <1>6, <1>7

\* After the last place it has read all lists, if the header is well formed.
LEMMA ReadToTheEnd ==
    ASSUME NEW N, NEW raw \in Seq(Lexeme(N)), NEW s, Follows(s, raw, Len(raw))
    PROVE  /\ WellFormed(raw) <=> s.at = "between"
           /\ WellFormed(raw) => s.lists = Lists(raw)
<1> DEFINE n == Len(raw)
<1>1. n \in Nat /\ DOMAIN raw = 1..n /\ (raw = << >> <=> n = 0)
  OBVIOUS
<1>2. WellFormed(raw) <=> n > 0 /\ raw[n].type = ")" /\ FineTo(raw, n)
  <2>1. ASSUME n > 0, raw[n].type = ")", NEW i \in 1..n
        PROVE  Fine(raw, i, n) <=>
                  CASE raw[i].type = "(" -> ~ Inside(raw, i)
                    [] raw[i].type = ")" -> Inside(raw, i) /\ raw[i - 1].type \in Names
                    [] raw[i].type = "Not" -> Inside(raw, i) /\ raw[i + 1].type \in Names
                    [] raw[i].type = "angle" ->
                          Inside(raw, i) \/ (raw[1].type = "angle" /\ raw[i + 1].type = "(")
                    [] OTHER -> Inside(raw, i) /\ raw[i].type \in Names
    <3>1. raw[i].type # ")" => i < n
      BY <2>1
    <3>2. CASE raw[i].type \in {"(", ")", "square", "word", "stray"}
      BY <3>2 DEF Fine
    <3>3. CASE raw[i].type = "Not"
      BY <3>1, <3>3 DEF Fine
    <3>4. CASE raw[i].type = "angle"
      BY <3>1, <3>4 DEF Fine
    <3>5. QED
      BY <3>2, <3>3, <3>4, LexemeAt
  <2>2. QED
    BY <1>1, <2>1 DEF WellFormed, Grammar, FineTo
<1>3. s.at = "between" <=> n > 0 /\ raw[n].type = ")" /\ FineTo(raw, n)
  BY <1>1 DEF Follows, HasRead, Position
<1>4. ASSUME WellFormed(raw) PROVE s.lists = Lists(raw)
  <2>1. n > 0 /\ raw[n].type = ")" /\ FineTo(raw, n) /\ n \in DOMAIN raw
    BY <1>1, <1>2, <1>4
  <2>2. \A j \in 1..n : ~ OpenedAt(raw, n + 1, j)
    BY <2>1, OpenedNext
  <2>3. Closed(raw, n) = {j \in DOMAIN raw : raw[j].type = "("}
    BY <1>1, <2>2 DEF Closed
  <2>4. s.lists = {Entry(raw, j) : j \in Closed(raw, n)}
    BY <2>1 DEF Follows, HasRead
  <2>5. QED
    BY <2>3, <2>4 DEF Lists, Entry
<1>5. QED
  BY <1>2, <1>3, <1>4

\* The headers of RFC 4918 are the well-formed ones without bare words and empty brackets.
LEMMA StandardBracketed ==
    ASSUME NEW N, NEW raw \in Seq(Lexeme(N))
    PROVE  Standard(raw) <=> WellFormed(raw) /\ Bracketed(raw)
<1>1. Len(raw) \in Nat /\ DOMAIN raw = 1..Len(raw)
  OBVIOUS
<1>2. \A i \in DOMAIN raw : Inside(raw, i) => i - 1 \in DOMAIN raw
  BY <1>1 DEF Inside, OpenedAt
<1>3. ASSUME Standard(raw) PROVE WellFormed(raw) /\ Bracketed(raw)
  BY <1>3 DEF Standard, WellFormed, Grammar, Names, Bracketed
<1>4. ASSUME WellFormed(raw), Bracketed(raw) PROVE Standard(raw)
  <2>1. /\ raw # << >> /\ raw[Len(raw)].type = ")"
        /\ \A i \in DOMAIN raw : raw[i].type = "Not" => i + 1 \in DOMAIN raw
    BY <1>1, <1>4 DEF WellFormed, Grammar
  <2>2. QED
    BY <1>2, <1>4, <2>1 DEF Standard, WellFormed, Grammar, Names, Bracketed
<1>5. QED
  BY <1>3, <1>4

\* The parser of If headers (parseDAVIfHeader) accepts the headers that RFC 4918 allows and,
\* beyond them, just those with a bare word or empty brackets where the RFC has a state token, an
\* entity tag or a resource tag; of all it accepts it reads the lists that stand there, whatever
\* the header and however long it is.
THEOREM ParserFollowsGrammar ==
    ASSUME NEW N, NEW raw \in Seq(Lexeme(N))
    PROVE  /\ Standard(raw) <=> Parse(raw).at = "between" /\ Bracketed(raw)
           /\ WellFormed(raw) <=> Parse(raw).at = "between"
           /\ WellFormed(raw) => Parse(raw).lists = Lists(raw)
<1>1. Len(raw) \in Nat
  OBVIOUS
<1>2. PICK read : Reads(read, raw) /\ Parse(raw) = read[Len(raw)]
  BY <1>1, ParseReads
<1>3. read[0] = Start
  BY <1>1, <1>2 DEF Reads
<1>4. \A n \in Nat : n < Len(raw) => read[n + 1] = Step(read[n], raw[n + 1])
  <2> SUFFICES ASSUME NEW n \in Nat, n < Len(raw) PROVE read[n + 1] = Step(read[n], raw[n + 1])
    OBVIOUS
  <2>1. n + 1 \in 0..Len(raw) /\ n + 1 # 0 /\ n + 1 - 1 = n
    BY <1>1
  <2>2. QED
    BY <1>2, <2>1 DEF Reads
<1> DEFINE T == {n \in 0..Len(raw) : ~ Follows(read[n], raw, n)}
<1>5. T = {}
  <2> SUFFICES ASSUME T # {} PROVE FALSE
    OBVIOUS
  <2>1. PICK n \in T : \A k \in T : ~ (k < n)
    <3>1. T \in SUBSET Nat
      OBVIOUS
    <3> HIDE DEF T
    <3>2. QED
      BY <3>1, SmallestNumber
  <2>2. n # 0
    BY <1>3, <2>1, FollowsAtFirst
  <2>3. PICK m : m = n - 1
    OBVIOUS
  <2>4. m \in Nat /\ m < Len(raw) /\ m < n /\ n = m + 1 /\ m \in 0..Len(raw)
    BY <1>1, <2>1, <2>2, <2>3
  <2>5. Follows(read[m], raw, m)
    BY <2>1, <2>4
  <2>6. Follows(Step(read[m], raw[m + 1]), raw, m + 1)
    BY <2>4, <2>5, FollowsOn
  <2>7. QED
    BY <1>4, <2>1, <2>4, <2>6
<1>6. Follows(Parse(raw), raw, Len(raw))
  BY <1>1, <1>2, <1>5
<1>7. QED
  BY <1>6, ReadToTheEnd, StandardBracketed

\* So a check that is passed by what stands in the header (Passes) is passed by what the parser
\* makes of it, and the other way round: checkLockTx evaluates the lists that it parsed.
THEOREM ChecksUseTheParser ==
    ASSUME NEW N, NEW raw \in Seq(Lexeme(N)), raw # NoHeader, NEW k, k.how = "covering", NEW active
    PROVE  Passes(k, raw, active) <=>
              /\ Parse(raw).at = "between"
              /\ LET lockPaths == {locks[t].path : t \in active}
                 IN  Allows({l \in Parse(raw).lists : Applies(l, k.path, lockPaths)}, active, k.path)
BY ParserFollowsGrammar DEF Passes

=============================================================================
