---------------------------- MODULE AdvisoryLocks ----------------------------
(***************************************************************************)
(* The path locks of the WebDAV handlers (handlers/webdav.go).             *)
(*                                                                         *)
(* Every handler that changes the tree takes one database connection and,  *)
(* on its session, PostgreSQL advisory locks: exclusive ones on its        *)
(* targets, in string order, then shared ones on all their ancestors, in   *)
(* string order (lockDAVSessionLocks).  It keeps them across its           *)
(* transaction and its file system work and gives them back one by one     *)
(* (unlockDAVSessionLocks) before it returns the connection.               *)
(*                                                                         *)
(* PostgreSQL itself is external: its lock table (held), its wait queues   *)
(* (want, ahead), its deadlock detector (DeadlockAbort, MoveUp) and the end  *)
(* of a session (SessionLost).  A cancelled request context - the client   *)
(* went away - makes the pgx driver close the connection: the session ends *)
(* and its locks are gone while the handler is still running.              *)
(***************************************************************************)
EXTENDS DavPaths, FiniteSets

CONSTANTS Req,        \* request handlers that may run at the same time
          Work,       \* the sets of target paths they may ask for
          Rank,       \* the position of a path in string order (sort.Strings)
          Severable   \* requests whose session may end under them

ASSUME WorkAssumption ==
    \A T \in Work : T # {} /\ T \subseteq Path /\ IsFiniteSet(T)

ASSUME RankAssumption ==
    /\ Rank \in [Path -> Nat]
    /\ \A p, q \in Path : (p # q => Rank[p] # Rank[q])
                       /\ (Descendant(p, q) => Rank[p] < Rank[q])

VARIABLES status,   \* where each handler is
          targets,  \* the paths it works on, {} when it has no connection
          held,     \* the advisory locks its session holds
          want,     \* the lock its session is waiting for, if any
          ahead     \* the sessions that precede it in that lock's wait queue

vars == <<status, targets, held, want, ahead>>

Lock == [path : Path, mode : {"exclusive", "shared"}]
NoLock == [path |-> Root, mode |-> "none"]

Status == {"idle", "locking", "inside", "adrift", "leaving"}

Conflict(k, l) ==
    /\ k.path = l.path
    /\ k.mode = "exclusive" \/ l.mode = "exclusive"

\* The locks the handlers build: exclusive on each target, shared on each
\* ancestor of a target.
ExclusiveOnFirst(T) ==    \* faulty variant: only one of the two paths of a MOVE
    {[path |-> CHOOSE p \in T : \A q \in T : Rank[p] <= Rank[q], mode |-> "exclusive"]}
ExclusivesAndParents(T) ==    \* faulty variant: the parent collections too
    {[path |-> p, mode |-> "exclusive"] : p \in T \cup {Parent(q) : q \in T}}
Exclusives(T) == {[path |-> p, mode |-> "exclusive"] : p \in T}
SharedParents(T) == {[path |-> Parent(p), mode |-> "shared"] : p \in T \ {Root}}    \* faulty variant
Shareds(T) == {[path |-> a, mode |-> "shared"] : a \in UNION {ParentPaths(p) : p \in T}}
Needed(T) == Exclusives(T) \cup Shareds(T)

First(K) == CHOOSE k \in K : \A l \in K : Rank[k.path] <= Rank[l.path]
Last(K) == CHOOSE k \in K : \A l \in K : Rank[l.path] <= Rank[k.path]

\* All exclusive locks come first, whatever their paths.
NextLock(r) ==
    IF Exclusives(targets[r]) \subseteq held[r]
    THEN First(Shareds(targets[r]) \ held[r])
    ELSE First(Exclusives(targets[r]) \ held[r])

Waiting(r) == want[r] # NoLock
Queue(p) == {q \in Req : Waiting(q) /\ want[q].path = p}

-----------------------------------------------------------------------------
Init ==
    /\ status = [r \in Req |-> "idle"]
    /\ targets = [r \in Req |-> {}]
    /\ held = [r \in Req |-> {}]
    /\ want = [r \in Req |-> NoLock]
    /\ ahead = [r \in Req |-> {}]

\* A handler has validated its paths and taken a connection.
Connect(r, T) ==
    /\ status[r] = "idle"
    /\ status' = [status EXCEPT ![r] = "locking"]
    /\ targets' = [targets EXCEPT ![r] = T]
    /\ UNCHANGED <<held, want, ahead>>

\* The session joins the wait queue of its next lock: at the end, or in front
\* of everybody when it already holds the exclusive lock on that path.
RequestLock(r) ==
    /\ status[r] = "locking"
    /\ ~ Waiting(r)
    /\ ~ Needed(targets[r]) \subseteq held[r]
    /\ LET k == NextLock(r)
           owner == [path |-> k.path, mode |-> "exclusive"] \in held[r]
       IN /\ want' = [want EXCEPT ![r] = k]
          /\ ahead' = [q \in Req |->
                          IF q = r THEN IF owner THEN {} ELSE Queue(k.path)
                          ELSE IF owner /\ q \in Queue(k.path) THEN ahead[q] \cup {r}
                          ELSE ahead[q]]
    /\ UNCHANGED <<status, targets, held>>

\* ahead without r: r has left its queue.
Dequeued(r) == [q \in Req |-> IF q = r THEN {} ELSE ahead[q] \ {r}]

\* PostgreSQL grants a lock that conflicts with no other holder and with no
\* request ahead of it in the queue.
Grant(r) ==
    /\ Waiting(r)
    /\ \A q \in Req \ {r} : \A k \in held[q] : ~ Conflict(want[r], k)
    /\ \A q \in ahead[r] : ~ Conflict(want[r], want[q])
    /\ held' = [held EXCEPT ![r] = @ \cup {want[r]}]
    /\ want' = [want EXCEPT ![r] = NoLock]
    /\ ahead' = Dequeued(r)
    /\ UNCHANGED <<status, targets>>

\* lockDAVSessionLocks has returned nil; the critical section starts.
EnterRegardless(r) ==    \* faulty variant: a failed lock statement is ignored
    /\ status[r] = "locking"
    /\ status' = [status EXCEPT ![r] = "inside"]
    /\ UNCHANGED <<targets, held, want, ahead>>
Enter(r) ==
    /\ status[r] = "locking"
    /\ ~ Waiting(r)
    /\ Needed(targets[r]) \subseteq held[r]
    /\ status' = [status EXCEPT ![r] = "inside"]
    /\ UNCHANGED <<targets, held, want, ahead>>

\* The handler returns, with whatever outcome; its deferred unlock starts.
Finish(r) ==
    /\ status[r] = "inside"
    /\ status' = [status EXCEPT ![r] = "leaving"]
    /\ UNCHANGED <<targets, held, want, ahead>>

\* One pg_advisory_unlock: the exclusive locks in reverse order, then the
\* shared ones in reverse order.
Unlock(r) ==
    /\ status[r] = "leaving"
    /\ held[r] # {}
    /\ LET X == {k \in held[r] : k.mode = "exclusive"}
       IN held' = [held EXCEPT ![r] = @ \ {Last(IF X # {} THEN X ELSE @)}]
    /\ UNCHANGED <<status, targets, want, ahead>>

\* The connection goes back to the pool.
CloseEarly(r) ==    \* faulty variant: back to the pool after the exclusive locks
    /\ status[r] = "leaving"
    /\ \A k \in held[r] : k.mode = "shared"
    /\ status' = [status EXCEPT ![r] = "idle"]
    /\ targets' = [targets EXCEPT ![r] = {}]
    /\ UNCHANGED <<held, want, ahead>>
Close(r) ==
    /\ status[r] = "leaving"
    /\ held[r] = {}
    /\ status' = [status EXCEPT ![r] = "idle"]
    /\ targets' = [targets EXCEPT ![r] = {}]
    /\ UNCHANGED <<held, want, ahead>>

-----------------------------------------------------------------------------
\* Who waits for whom: for the holder of a conflicting lock, or for somebody
\* who asks for one ahead in the queue.
Blocked == {e \in Req \X Req :
    /\ e[1] # e[2] /\ Waiting(e[1])
    /\ \E k \in held[e[2]] : Conflict(want[e[1]], k)}
Queued == {e \in Req \X Req :
    e[2] \in ahead[e[1]] /\ Conflict(want[e[1]], want[e[2]])}

\* A cycle of a relation: a set closed under "waits for some member of it",
\* no part of which is closed by itself.
Closed(S, E) == S # {} /\ \A r \in S : \E q \in S : <<r, q>> \in E
Cycle(S, E) == Closed(S, E) /\ \A U \in SUBSET S : Closed(U, E) => U = S

\* Handlers whose waits only an abort can end.
Deadlock(S) == Cycle(S, Blocked)

\* The deadlock detector fails one statement of the cycle: the handler returns
\* an error and its deferred unlock releases what it had.
DeadlockAbort(r) ==
    /\ Waiting(r)
    /\ \E S \in SUBSET Req : r \in S /\ Deadlock(S)
    /\ status' = [status EXCEPT ![r] = "leaving"]
    /\ want' = [want EXCEPT ![r] = NoLock]
    /\ ahead' = Dequeued(r)
    /\ UNCHANGED <<targets, held>>

\* A cycle through the order of a queue is no reason to fail: the detector
\* moves the session to the front of the queue instead.
MoveUp(r) ==
    /\ ahead[r] # {}
    /\ \E S \in SUBSET Req, q \in Req :
          /\ {r, q} \subseteq S
          /\ Cycle(S, Blocked \cup Queued)
          /\ <<r, q>> \in Queued \ Blocked
    /\ ahead' = [q \in Req |-> IF q = r THEN {}
                              ELSE IF q \in Queue(want[r].path) THEN ahead[q] \cup {r}
                              ELSE ahead[q]]
    /\ UNCHANGED <<status, targets, held, want>>

\* The session ends.  A handler that is still locking, or already unlocking,
\* gives up; one inside its critical section runs on without its locks.
SessionLost(r) ==
    /\ r \in Severable
    /\ status[r] \in {"locking", "inside", "leaving"}
    /\ status' = [status EXCEPT ![r] = IF @ = "inside" THEN "adrift" ELSE "idle"]
    /\ targets' = [targets EXCEPT ![r] = IF status[r] = "inside" THEN @ ELSE {}]
    /\ held' = [held EXCEPT ![r] = {}]
    /\ want' = [want EXCEPT ![r] = NoLock]
    /\ ahead' = Dequeued(r)

\* The handler without a session returns.
FinishAdrift(r) ==
    /\ status[r] = "adrift"
    /\ status' = [status EXCEPT ![r] = "idle"]
    /\ targets' = [targets EXCEPT ![r] = {}]
    /\ UNCHANGED <<held, want, ahead>>

Next == \E r \in Req :
    \/ \E T \in Work : Connect(r, T)
    \/ RequestLock(r)
    \/ Grant(r)
    \/ Enter(r)
    \/ Finish(r)
    \/ Unlock(r)
    \/ Close(r)
    \/ DeadlockAbort(r)
    \/ MoveUp(r)
    \/ SessionLost(r)
    \/ FinishAdrift(r)

Spec == Init /\ [][Next]_vars

\* A handler that has a connection keeps running and PostgreSQL grants what
\* it can; nobody has to connect and no session has to be lost.
Fairness == \A r \in Req :
    /\ WF_vars(RequestLock(r) \/ Enter(r))
    /\ WF_vars(Grant(r))
    /\ WF_vars(Finish(r) \/ Unlock(r) \/ Close(r) \/ FinishAdrift(r))
    /\ WF_vars(DeadlockAbort(r))
    /\ WF_vars(MoveUp(r))

FairSpec == Spec /\ Fairness

-----------------------------------------------------------------------------
\* Type invariant: besides the types, only a handler that is locking waits.
TypeOK ==
    /\ status \in [Req -> Status]
    /\ targets \in [Req -> Work \cup {{}}]
    /\ held \in [Req -> SUBSET Lock]
    /\ want \in [Req -> Lock \cup {NoLock}]
    /\ ahead \in [Req -> SUBSET Req]
    /\ \A r \in Req : Waiting(r) => status[r] = "locking"

\* Two handlers in their critical sections never work on overlapping subtrees
\* as long as both still have their session: the reason for the whole scheme
\* of an exclusive lock on the target and shared locks on its ancestors.
SubtreeExclusion ==
    \A r, q \in Req :
        r # q /\ status[r] = "inside" /\ status[q] = "inside"
            => ~ SetsOverlap(targets[r], targets[q])

\* A connection that is back in the pool carries no advisory lock, waits for
\* none and stands in nobody's way, whichever way its request ended (normal
\* return, error half way through locking, deadlock victim, lost session).
NoStrayLocks ==
    \A r \in Req : status[r] = "idle" =>
        /\ held[r] = {}
        /\ ~ Waiting(r)
        /\ \A q \in Req : r \notin ahead[q]

\* Requests with one target never deadlock among themselves: every cycle of
\* waits goes through a MOVE or COPY, which locks two targets.
DeadlockNeedsPair ==
    \A S \in SUBSET Req : Deadlock(S) => \E r \in S : Cardinality(targets[r]) > 1

\* Every handler that starts locking gets its critical section or an error: no
\* wait lasts forever, because the queues are fair and the deadlock detector
\* breaks the cycles the lock order allows.
RequestsServed == \A r \in Req : status[r] = "locking" ~> status[r] # "locking"

\* The path locks implement TreeLock: entering is atomic for everybody else.
Abstract == INSTANCE TreeLock
                WITH inside <- [r \in Req |-> IF status[r] = "inside" THEN targets[r] ELSE {}]
ImplementsTreeLock == Abstract!Spec

\* What the comment of handleDAVMove says of its lock order ("sort paths to
\* avoid deadlocks"): no set of handlers waits for one another in a circle.
NoDeadlock == \A S \in SUBSET Req : ~ Deadlock(S)

\* What publishFile asks of its callers ("must be called with the advisory lock
\* on relCanon already held"), read as mutual exclusion of the handlers, the
\* ones whose session has ended under them included.
HandlersExcluded ==
    \A r, q \in Req :
        r # q /\ {status[r], status[q]} \subseteq {"inside", "adrift"}
            => ~ SetsOverlap(targets[r], targets[q])
=============================================================================
