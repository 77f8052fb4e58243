------------------------ MODULE AdvisoryLocksProofs ------------------------
(***************************************************************************)
(* Proofs about AdvisoryLocks, for every set of requests, every tree of    *)
(* paths and every set of targets: type correctness, mutual exclusion of   *)
(* overlapping subtrees, no lock left on a connection in the pool, no      *)
(* deadlock among requests with one target each, and that the one-by-one   *)
(* locking implements TreeLock.                                            *)
(***************************************************************************)
EXTENDS AdvisoryLocks, FiniteSetTheorems, WellFoundedInduction, TLAPS

(***************************************************************************)
(* The inductive invariant.  SubtreeExclusion is not inductive: it follows *)
(* from what the handlers inside hold and from the lock table being free   *)
(* of conflicts.                                                           *)
(***************************************************************************)

\* The lock table never holds two conflicting locks of different sessions.
LocksExclude ==
    \A r, q \in Req : r # q => \A k \in held[r], l \in held[q] : ~ Conflict(k, l)

\* A handler inside its critical section holds every lock it asked for.
InsideHolds ==
    \A r \in Req : status[r] = "inside" => Needed(targets[r]) \subseteq held[r]

\* Only a handler at work has targets, and they are ones it may ask for.
TargetsKnown ==
    \A r \in Req : status[r] # "idle" => targets[r] \in Work

\* A handler without a session holds nothing.
SessionlessHoldNothing ==
    \A r \in Req : status[r] \in {"idle", "adrift"} => held[r] = {}

\* Only sessions that wait stand in a queue.
QueueOfWaiters ==
    \A q \in Req : \A r \in ahead[q] : Waiting(q) /\ Waiting(r)

IInv ==
    /\ TypeOK
    /\ LocksExclude
    /\ InsideHolds
    /\ TargetsKnown
    /\ SessionlessHoldNothing
    /\ QueueOfWaiters

-----------------------------------------------------------------------------
\* A set of naturals has a least element.
LEMMA LeastNatural ==
    ASSUME NEW T, T \subseteq Nat, T # {}
    PROVE  \E x \in T : \A y \in T : x <= y
<1>1. PICK x \in T : \A y \in T : ~ (<<y, x>> \in OpToRel(<, Nat))
  BY NatLessThanWellFounded, WFMin
<1>2. \A y \in T : ~ (y < x)
  BY <1>1 DEF OpToRel
<1>3. QED
  BY <1>2

\* The next lock in string order is one of the locks still missing.
LEMMA FirstIsMember ==
    ASSUME NEW K, K \subseteq Lock, K # {}
    PROVE  First(K) \in K
<1> DEFINE T == {Rank[k.path] : k \in K}
<1>1. \A k \in K : k.path \in Path
  BY DEF Lock
<1>2. T \subseteq Nat /\ T # {}
  BY <1>1, RankAssumption
<1>3. PICK x \in T : \A y \in T : x <= y
  BY <1>2, LeastNatural
<1>4. PICK k \in K : Rank[k.path] = x
  BY <1>3
<1>5. \A l \in K : Rank[k.path] <= Rank[l.path]
  BY <1>3, <1>4
<1>6. QED
  BY <1>5 DEF First

\* utils.ParentPaths gives the paths above p, which are in use like p.
LEMMA Ancestors ==
    ASSUME NEW p \in Path
    PROVE  /\ ParentPaths(p) \subseteq Path
           /\ \A a \in Path : a \in ParentPaths(p) <=> Descendant(a, p)
<1>1. p \in Seq(Nat) /\ \A n \in 0..Len(p) : SubSeq(p, 1, n) \in Path
  BY PathAssumption
<1>2. ParentPaths(p) \subseteq Path
  <2>1. \A n \in 0..Len(p) - 1 : n \in 0..Len(p)
    BY <1>1
  <2>2. QED
    BY <1>1, <2>1 DEF ParentPaths
<1>3. ASSUME NEW a \in ParentPaths(p) PROVE Descendant(a, p)
  <2>1. PICK n \in 0..Len(p) - 1 : a = SubSeq(p, 1, n)
    BY DEF ParentPaths
  <2>2. Len(a) = n
    BY <1>1, <2>1
  <2>3. QED
    BY <1>1, <2>1, <2>2 DEF Descendant
<1>4. ASSUME NEW a \in Path, Descendant(a, p) PROVE a \in ParentPaths(p)
  <2>1. a \in Seq(Nat) /\ Len(a) \in 0..Len(p) - 1 /\ a = SubSeq(p, 1, Len(a))
    BY <1>1, <1>4, PathAssumption DEF Descendant
  <2>2. QED
    BY <2>1 DEF ParentPaths
<1>5. QED
  BY <1>2, <1>3, <1>4

\* The locks a set of targets needs are locks.
LEMMA NeededAreLocks ==
    ASSUME NEW T \in Work
    PROVE  /\ Exclusives(T) \subseteq Lock
           /\ Shareds(T) \subseteq Lock
<1>1. T \subseteq Path
  BY WorkAssumption
<1>2. Exclusives(T) \subseteq Lock
  BY <1>1 DEF Exclusives, Lock
<1>3. Shareds(T) \subseteq Lock
  BY <1>1, Ancestors DEF Shareds, Lock
<1>4. QED
  BY <1>2, <1>3

\* While some lock is missing, the next one is a lock the targets need.
LEMMA NextLockType ==
    ASSUME NEW r \in Req, targets[r] \in Work, ~ Needed(targets[r]) \subseteq held[r]
    PROVE  NextLock(r) \in Lock
<1>1. Exclusives(targets[r]) \subseteq Lock /\ Shareds(targets[r]) \subseteq Lock
  BY NeededAreLocks
<1>2. CASE Exclusives(targets[r]) \subseteq held[r]
  <2>1. Shareds(targets[r]) \ held[r] # {}
    BY <1>2 DEF Needed
  <2>2. First(Shareds(targets[r]) \ held[r]) \in Shareds(targets[r]) \ held[r]
    BY <1>1, <2>1, FirstIsMember
  <2>3. QED
    BY <1>1, <1>2, <2>2 DEF NextLock
<1>3. CASE ~ Exclusives(targets[r]) \subseteq held[r]
  <2>1. Exclusives(targets[r]) \ held[r] # {}
    BY <1>3
  <2>2. First(Exclusives(targets[r]) \ held[r]) \in Exclusives(targets[r]) \ held[r]
    BY <1>1, <2>1, FirstIsMember
  <2>3. QED
    BY <1>1, <1>3, <2>2 DEF NextLock
<1>4. QED
  BY <1>2, <1>3

\* A lock is never the placeholder for "none".
LEMMA NoLockIsNoLock == NoLock \notin Lock
  BY DEF NoLock, Lock

\* Conflicts do not depend on the order of the two locks.
LEMMA ConflictSymmetric == \A k, l : Conflict(k, l) <=> Conflict(l, k)
  BY DEF Conflict

-----------------------------------------------------------------------------
\* No lock is held or asked for when the server starts.
LEMMA InitInvariant == Init => IInv
  BY DEF Init, IInv, TypeOK, LocksExclude, InsideHolds, TargetsKnown,
         SessionlessHoldNothing, QueueOfWaiters, Waiting, Status, Lock, NoLock

\* Leaving a queue keeps the queues well formed, whoever stops waiting.
LEMMA DequeueKeepsQueues ==
    ASSUME NEW r \in Req, TypeOK, QueueOfWaiters,
           want' = [want EXCEPT ![r] = NoLock], ahead' = Dequeued(r)
    PROVE  QueueOfWaiters' /\ ahead' \in [Req -> SUBSET Req]
<1>1. \A q \in Req : ahead'[q] \subseteq ahead[q] \ {r}
  BY DEF Dequeued, TypeOK
<1>2. ahead'[r] = {} /\ \A q \in Req \ {r} : want'[q] = want[q]
  BY DEF Dequeued, TypeOK
<1>3. QueueOfWaiters'
  BY <1>1, <1>2 DEF QueueOfWaiters, Waiting, TypeOK
<1>4. QED
  BY <1>3 DEF Dequeued, TypeOK

\* Every step of the locks preserves the invariant.
LEMMA StepInvariant == IInv /\ [Next]_vars => IInv'
<1> SUFFICES ASSUME IInv, [Next]_vars PROVE IInv'
  OBVIOUS
<1> USE DEF IInv
<1>1. ASSUME NEW r \in Req, NEW T \in Work, Connect(r, T) PROVE IInv'
  <2>1. TypeOK'
    BY <1>1 DEF Connect, TypeOK, Status, Waiting
  <2>2. LocksExclude' /\ SessionlessHoldNothing' /\ QueueOfWaiters'
    BY <1>1 DEF Connect, LocksExclude, SessionlessHoldNothing, QueueOfWaiters, TypeOK, Waiting
  <2>3. InsideHolds' /\ TargetsKnown'
    BY <1>1 DEF Connect, InsideHolds, TargetsKnown, TypeOK
  <2>4. QED
    BY <2>1, <2>2, <2>3
<1>2. ASSUME NEW r \in Req, RequestLock(r) PROVE IInv'
  <2>1. NextLock(r) \in Lock
    BY <1>2, NextLockType DEF RequestLock, TargetsKnown
  <2>2. want' = [want EXCEPT ![r] = NextLock(r)]
    BY <1>2 DEF RequestLock
  <2>3. Queue(NextLock(r).path) \subseteq Req
    BY DEF Queue
  <2>4. /\ ahead'[r] \subseteq Queue(NextLock(r).path)
        /\ \A q \in Req \ {r} :
              \/ ahead'[q] = ahead[q]
              \/ q \in Queue(NextLock(r).path) /\ ahead'[q] = ahead[q] \cup {r}
    BY <1>2 DEF RequestLock
  <2>5. ahead' \in [Req -> SUBSET Req]
    <3>1. ahead' = [q \in Req |-> ahead'[q]]
      BY <1>2 DEF RequestLock
    <3>2. QED
      BY <2>3, <2>4, <3>1 DEF TypeOK
  <2>6. TypeOK'
    BY <1>2, <2>1, <2>2, <2>5 DEF RequestLock, TypeOK, Waiting
  <2>7. QueueOfWaiters'
    <3>1. \A q \in Req : Waiting(q) => Waiting(q)'
      BY <2>1, <2>2, NoLockIsNoLock DEF Waiting, TypeOK
    <3>2. Waiting(r)'
      BY <2>1, <2>2, NoLockIsNoLock DEF Waiting, TypeOK
    <3>3. QED
      BY <2>4, <3>1, <3>2 DEF QueueOfWaiters, Queue, TypeOK
  <2>8. LocksExclude' /\ InsideHolds' /\ TargetsKnown' /\ SessionlessHoldNothing'
    BY <1>2 DEF RequestLock, LocksExclude, InsideHolds, TargetsKnown, SessionlessHoldNothing
  <2>9. QED
    BY <2>6, <2>7, <2>8
<1>3. ASSUME NEW r \in Req, Grant(r) PROVE IInv'
  <2>1. want[r] \in Lock /\ status[r] = "locking"
    BY <1>3 DEF Grant, Waiting, TypeOK
  <2>2. held'[r] = held[r] \cup {want[r]} /\ \A q \in Req \ {r} : held'[q] = held[q]
    BY <1>3 DEF Grant, TypeOK
  <2>3. QueueOfWaiters' /\ ahead' \in [Req -> SUBSET Req]
    BY <1>3, DequeueKeepsQueues DEF Grant
  <2>4. TypeOK'
    BY <1>3, <2>1, <2>3 DEF Grant, TypeOK, Waiting
  <2>5. LocksExclude'
    <3>1. \A q \in Req \ {r} : \A k \in held[q] : ~ Conflict(want[r], k) /\ ~ Conflict(k, want[r])
      BY <1>3, ConflictSymmetric DEF Grant
    <3>2. QED
      BY <2>2, <3>1 DEF LocksExclude
  <2>6. InsideHolds' /\ TargetsKnown' /\ SessionlessHoldNothing'
    BY <1>3, <2>1, <2>2 DEF Grant, InsideHolds, TargetsKnown, SessionlessHoldNothing
  <2>7. QED
    BY <2>3, <2>4, <2>5, <2>6
<1>4. ASSUME NEW r \in Req, Enter(r) PROVE IInv'
  <2>1. TypeOK'
    BY <1>4 DEF Enter, TypeOK, Status, Waiting
  <2>2. InsideHolds' /\ TargetsKnown'
    BY <1>4 DEF Enter, InsideHolds, TargetsKnown, TypeOK
  <2>3. LocksExclude' /\ SessionlessHoldNothing' /\ QueueOfWaiters'
    BY <1>4 DEF Enter, LocksExclude, SessionlessHoldNothing, QueueOfWaiters, TypeOK, Waiting
  <2>4. QED
    BY <2>1, <2>2, <2>3
<1>5. ASSUME NEW r \in Req, Finish(r) PROVE IInv'
  <2>1. TypeOK'
    BY <1>5 DEF Finish, TypeOK, Status, Waiting
  <2>2. InsideHolds' /\ TargetsKnown'
    BY <1>5 DEF Finish, InsideHolds, TargetsKnown, TypeOK
  <2>3. LocksExclude' /\ SessionlessHoldNothing' /\ QueueOfWaiters'
    BY <1>5 DEF Finish, LocksExclude, SessionlessHoldNothing, QueueOfWaiters, TypeOK, Waiting
  <2>4. QED
    BY <2>1, <2>2, <2>3
<1>6. ASSUME NEW r \in Req, Unlock(r) PROVE IInv'
  <2>1. held'[r] \subseteq held[r] /\ \A q \in Req \ {r} : held'[q] = held[q]
    BY <1>6 DEF Unlock, TypeOK
  <2>2. TypeOK'
    BY <1>6, <2>1 DEF Unlock, TypeOK, Waiting
  <2>3. LocksExclude' /\ SessionlessHoldNothing'
    BY <1>6, <2>1 DEF Unlock, LocksExclude, SessionlessHoldNothing
  <2>4. InsideHolds' /\ TargetsKnown' /\ QueueOfWaiters'
    BY <1>6, <2>1 DEF Unlock, InsideHolds, TargetsKnown, QueueOfWaiters, Waiting
  <2>5. QED
    BY <2>2, <2>3, <2>4
<1>7. ASSUME NEW r \in Req, Close(r) PROVE IInv'
  <2>1. TypeOK'
    BY <1>7 DEF Close, TypeOK, Status, Waiting
  <2>2. InsideHolds' /\ TargetsKnown' /\ SessionlessHoldNothing'
    BY <1>7 DEF Close, InsideHolds, TargetsKnown, SessionlessHoldNothing, TypeOK
  <2>3. LocksExclude' /\ QueueOfWaiters'
    BY <1>7 DEF Close, LocksExclude, QueueOfWaiters, Waiting
  <2>4. QED
    BY <2>1, <2>2, <2>3
<1>8. ASSUME NEW r \in Req, DeadlockAbort(r) PROVE IInv'
  <2>1. QueueOfWaiters' /\ ahead' \in [Req -> SUBSET Req]
    BY <1>8, DequeueKeepsQueues DEF DeadlockAbort
  <2>2. status[r] = "locking"
    <3>1. PICK S \in SUBSET Req : r \in S /\ Deadlock(S)
      BY <1>8 DEF DeadlockAbort
    <3>2. Waiting(r)
      BY <3>1 DEF Deadlock, Cycle, Closed, Blocked
    <3>3. QED
      BY <3>2 DEF TypeOK
  <2>3. TypeOK'
    BY <1>8, <2>1 DEF DeadlockAbort, TypeOK, Status, Waiting
  <2>4. InsideHolds' /\ TargetsKnown' /\ SessionlessHoldNothing'
    BY <1>8, <2>2 DEF DeadlockAbort, InsideHolds, TargetsKnown, SessionlessHoldNothing, TypeOK
  <2>5. LocksExclude'
    BY <1>8 DEF DeadlockAbort, LocksExclude
  <2>6. QED
    BY <2>1, <2>3, <2>4, <2>5
<1>9. ASSUME NEW r \in Req, MoveUp(r) PROVE IInv'
  <2>1. PICK q \in Req : <<r, q>> \in Queued
    BY <1>9 DEF MoveUp
  <2>2. Waiting(r)
    BY <2>1 DEF Queued, QueueOfWaiters
  <2>3. ahead' \in [Req -> SUBSET Req]
    BY <1>9 DEF MoveUp, TypeOK
  <2>4. TypeOK'
    BY <1>9, <2>3 DEF MoveUp, TypeOK, Waiting
  <2>5. QueueOfWaiters'
    BY <1>9, <2>2 DEF MoveUp, QueueOfWaiters, Queue, Waiting, TypeOK
  <2>6. LocksExclude' /\ InsideHolds' /\ TargetsKnown' /\ SessionlessHoldNothing'
    BY <1>9 DEF MoveUp, LocksExclude, InsideHolds, TargetsKnown, SessionlessHoldNothing
  <2>7. QED
    BY <2>4, <2>5, <2>6
<1>10. ASSUME NEW r \in Req, SessionLost(r) PROVE IInv'
  <2>1. QueueOfWaiters' /\ ahead' \in [Req -> SUBSET Req]
    BY <1>10, DequeueKeepsQueues DEF SessionLost
  <2>2. TypeOK'
    BY <1>10, <2>1 DEF SessionLost, TypeOK, Status, Waiting
  <2>3. LocksExclude' /\ SessionlessHoldNothing'
    BY <1>10 DEF SessionLost, LocksExclude, SessionlessHoldNothing, TypeOK
  <2>4. InsideHolds' /\ TargetsKnown'
    BY <1>10 DEF SessionLost, InsideHolds, TargetsKnown, TypeOK
  <2>5. QED
    BY <2>1, <2>2, <2>3, <2>4
<1>11. ASSUME NEW r \in Req, FinishAdrift(r) PROVE IInv'
  <2>1. TypeOK'
    BY <1>11 DEF FinishAdrift, TypeOK, Status, Waiting
  <2>2. InsideHolds' /\ TargetsKnown' /\ SessionlessHoldNothing'
    BY <1>11 DEF FinishAdrift, InsideHolds, TargetsKnown, SessionlessHoldNothing, TypeOK
  <2>3. LocksExclude' /\ QueueOfWaiters'
    BY <1>11 DEF FinishAdrift, LocksExclude, QueueOfWaiters, Waiting
  <2>4. QED
    BY <2>1, <2>2, <2>3
<1>12. CASE UNCHANGED vars
  BY <1>12 DEF vars, TypeOK, LocksExclude, InsideHolds, TargetsKnown,
               SessionlessHoldNothing, QueueOfWaiters, Waiting
<1>13. QED
  BY <1>1, <1>2, <1>3, <1>4, <1>5, <1>6, <1>7, <1>8, <1>9, <1>10, <1>11, <1>12 DEF Next

\* The inductive invariant holds in every behaviour.
THEOREM Invariant == Spec => []IInv
<1>1. Init => IInv
  BY InitInvariant
<1>2. IInv /\ [Next]_vars => IInv'
  BY StepInvariant
<1>3. QED
  BY <1>1, <1>2, PTL DEF Spec

-----------------------------------------------------------------------------
\* The locks are typed, and only handlers that are locking wait.
THEOREM TypeCorrect == Spec => []TypeOK
<1>1. IInv => TypeOK
  BY DEF IInv
<1>2. QED
  BY <1>1, Invariant, PTL

\* The needed locks of overlapping targets conflict: if one target is the other
\* both ask for it exclusively, if it is above the other the shared lock on the
\* ancestor meets the exclusive one.
LEMMA OverlapConflicts ==
    ASSUME NEW T \in Work, NEW U \in Work, SetsOverlap(T, U)
    PROVE  \E k \in Needed(T), l \in Needed(U) : Conflict(k, l)
<1>1. PICK p \in T, q \in U : Overlap(p, q)
  BY DEF SetsOverlap
<1>2. p \in Path /\ q \in Path
  BY WorkAssumption
<1> DEFINE X(a) == [path |-> a, mode |-> "exclusive"]
           S(a) == [path |-> a, mode |-> "shared"]
<1>3. X(p) \in Needed(T) /\ X(q) \in Needed(U)
  BY DEF Needed, Exclusives
<1>4. CASE p = q
  BY <1>3, <1>4 DEF Conflict
<1>5. CASE Descendant(p, q)
  <2>1. S(p) \in Needed(U)
    BY <1>2, <1>5, Ancestors DEF Needed, Shareds
  <2>2. Conflict(X(p), S(p))
    BY DEF Conflict
  <2>3. QED
    BY <1>3, <2>1, <2>2
<1>6. CASE Descendant(q, p)
  <2>1. S(q) \in Needed(T)
    BY <1>2, <1>6, Ancestors DEF Needed, Shareds
  <2>2. Conflict(S(q), X(q))
    BY DEF Conflict
  <2>3. QED
    BY <1>3, <2>1, <2>2
<1>7. QED
  BY <1>1, <1>4, <1>5, <1>6 DEF Overlap

\* Mutual exclusion follows from the invariant: overlapping targets need
\* conflicting locks, which two handlers inside would both hold.
LEMMA InvariantExcludes == IInv => SubtreeExclusion
<1> SUFFICES ASSUME IInv, NEW r \in Req, NEW q \in Req, r # q,
                    status[r] = "inside", status[q] = "inside",
                    SetsOverlap(targets[r], targets[q])
             PROVE  FALSE
  BY DEF SubtreeExclusion
<1>1. targets[r] \in Work /\ targets[q] \in Work
  BY DEF IInv, TargetsKnown
<1>2. PICK k \in Needed(targets[r]), l \in Needed(targets[q]) : Conflict(k, l)
  BY <1>1, OverlapConflicts
<1>3. k \in held[r] /\ l \in held[q]
  BY <1>2 DEF IInv, InsideHolds
<1>4. QED
  BY <1>2, <1>3 DEF IInv, LocksExclude

\* The same after a step.
LEMMA InvariantExcludesNext == IInv' => SubtreeExclusion'
  BY InvariantExcludes, PTL

\* No two handlers with a live session work on overlapping subtrees.
THEOREM MutualExclusion == Spec => []SubtreeExclusion
  BY Invariant, InvariantExcludes, PTL

\* No connection in the pool holds, awaits or delays an advisory lock.
THEOREM PoolIsClean == Spec => []NoStrayLocks
<1>1. IInv => NoStrayLocks
  BY DEF IInv, TypeOK, SessionlessHoldNothing, QueueOfWaiters, NoStrayLocks
<1>2. QED
  BY <1>1, Invariant, PTL

-----------------------------------------------------------------------------
(* Deadlocks.  lockDAVSessionLocks takes the exclusive locks before the    *)
(* shared ones: who is waited for has its exclusive lock, if it needs only *)
(* one, and waits for the exclusive lock on a path above.                  *)

\* A handler that is locking holds and asks for locks it needs, and no shared one before
\* it has all exclusive ones.
ExclusivesFirst ==
    \A r \in Req : status[r] = "locking" =>
        /\ held[r] \subseteq Needed(targets[r])
        /\ Waiting(r) => want[r] \in Needed(targets[r]) \ held[r]
        /\ \/ Exclusives(targets[r]) \subseteq held[r]
           \/ /\ held[r] \subseteq Exclusives(targets[r])
              /\ Waiting(r) => want[r] \in Exclusives(targets[r])

\* What NextLock chooses: a missing lock, shared only when no exclusive one is missing.
LEMMA NextLockInOrder ==
    ASSUME NEW r \in Req, targets[r] \in Work, ~ Needed(targets[r]) \subseteq held[r]
    PROVE  /\ NextLock(r) \in Needed(targets[r]) \ held[r]
           /\ Exclusives(targets[r]) \subseteq held[r] \/ NextLock(r) \in Exclusives(targets[r])
<1>1. Exclusives(targets[r]) \subseteq Lock /\ Shareds(targets[r]) \subseteq Lock
  BY NeededAreLocks
<1>2. CASE Exclusives(targets[r]) \subseteq held[r]
  <2>1. Shareds(targets[r]) \ held[r] # {} /\ Shareds(targets[r]) \ held[r] \subseteq Lock
    BY <1>1, <1>2 DEF Needed
  <2>2. First(Shareds(targets[r]) \ held[r]) \in Shareds(targets[r]) \ held[r]
    BY <2>1, FirstIsMember
  <2>3. QED
    BY <1>2, <2>2 DEF NextLock, Needed
<1>3. CASE ~ Exclusives(targets[r]) \subseteq held[r]
  <2>1. Exclusives(targets[r]) \ held[r] # {} /\ Exclusives(targets[r]) \ held[r] \subseteq Lock
    BY <1>1, <1>3
  <2>2. First(Exclusives(targets[r]) \ held[r]) \in Exclusives(targets[r]) \ held[r]
    BY <2>1, FirstIsMember
  <2>3. QED
    BY <1>3, <2>2 DEF NextLock, Needed
<1>4. QED
  BY <1>2, <1>3

\* Every step keeps the order.
LEMMA StepInOrder ==
    ASSUME IInv, ExclusivesFirst, [Next]_vars
    PROVE  ExclusivesFirst'
<1>0. TypeOK
  BY DEF IInv
<1>1. ASSUME NEW r \in Req, NEW T \in Work, Connect(r, T) PROVE ExclusivesFirst'
  <2>1. held[r] = {} /\ ~ Waiting(r)
    BY <1>1 DEF Connect, IInv, SessionlessHoldNothing, TypeOK
  <2>2. QED
    BY <1>0, <1>1, <2>1 DEF Connect, ExclusivesFirst, TypeOK, Waiting
<1>2. ASSUME NEW r \in Req, RequestLock(r) PROVE ExclusivesFirst'
  <2>1. /\ status[r] = "locking" /\ ~ Waiting(r) /\ ~ Needed(targets[r]) \subseteq held[r]
        /\ want' = [want EXCEPT ![r] = NextLock(r)]
        /\ UNCHANGED <<status, targets, held>>
    BY <1>2 DEF RequestLock
  <2>2. /\ NextLock(r) \in Needed(targets[r]) \ held[r]
        /\ Exclusives(targets[r]) \subseteq held[r] \/ NextLock(r) \in Exclusives(targets[r])
    BY <2>1, NextLockInOrder DEF IInv, TargetsKnown
  <2>3. want'[r] = NextLock(r) /\ \A q \in Req \ {r} : want'[q] = want[q]
    BY <1>0, <2>1 DEF TypeOK
  <2>4. QED
    BY <2>1, <2>2, <2>3 DEF ExclusivesFirst, Waiting
<1>3. ASSUME NEW r \in Req, Grant(r) PROVE ExclusivesFirst'
  <2>1. /\ Waiting(r) /\ held' = [held EXCEPT ![r] = @ \cup {want[r]}]
        /\ want' = [want EXCEPT ![r] = NoLock] /\ UNCHANGED <<status, targets>>
    BY <1>3 DEF Grant
  <2>2. /\ held'[r] = held[r] \cup {want[r]} /\ ~ Waiting(r)'
        /\ \A q \in Req \ {r} : held'[q] = held[q] /\ want'[q] = want[q]
    BY <1>0, <2>1 DEF TypeOK, Waiting
  <2>3. QED
    BY <2>1, <2>2 DEF ExclusivesFirst, Waiting
<1>4. ASSUME NEW r \in Req,
             Enter(r) \/ Finish(r) \/ Close(r) \/ FinishAdrift(r) \/ SessionLost(r) \/ DeadlockAbort(r)
      PROVE  ExclusivesFirst'
  <2>1. /\ status'[r] # "locking"
        /\ \A q \in Req \ {r} : /\ status'[q] = status[q] /\ targets'[q] = targets[q]
                                /\ held'[q] = held[q] /\ want'[q] = want[q]
    BY <1>0, <1>4 DEF Enter, Finish, Close, FinishAdrift, SessionLost, DeadlockAbort, TypeOK
  <2>2. QED
    BY <2>1 DEF ExclusivesFirst, Waiting
<1>5. ASSUME NEW r \in Req, Unlock(r) PROVE ExclusivesFirst'
  <2>1. /\ status[r] = "leaving" /\ UNCHANGED <<status, targets, want>>
        /\ \A q \in Req \ {r} : held'[q] = held[q]
    BY <1>0, <1>5 DEF Unlock, TypeOK
  <2>2. QED
    BY <2>1 DEF ExclusivesFirst, Waiting
<1>6. ASSUME NEW r \in Req, MoveUp(r) PROVE ExclusivesFirst'
  BY <1>6 DEF MoveUp, ExclusivesFirst, Waiting
<1>7. CASE UNCHANGED vars
  BY <1>7 DEF vars, ExclusivesFirst, Waiting
<1>8. QED
  BY <1>1, <1>2, <1>3, <1>4, <1>5, <1>6, <1>7 DEF Next

\* The order holds in every behaviour.
LEMMA OrderHolds == Spec => []ExclusivesFirst
<1>1. Init => ExclusivesFirst
  BY DEF Init, ExclusivesFirst
<1>2. IInv /\ ExclusivesFirst /\ [Next]_vars => ExclusivesFirst'
  BY StepInOrder
<1>3. QED
  BY <1>1, <1>2, Invariant, PTL DEF Spec

\* In a cycle everybody is waited for: without a member nobody waits for, the rest would be
\* closed by itself.
LEMMA CycleIsRound ==
    ASSUME NEW S, NEW E, Cycle(S, E), \A x : <<x, x>> \notin E, NEW r \in S
    PROVE  \E q \in S : <<q, r>> \in E
<1>1. ASSUME \A q \in S : <<q, r>> \notin E PROVE FALSE
  <2> DEFINE U == S \ {r}
  <2>1. PICK q \in S : <<r, q>> \in E
    BY DEF Cycle, Closed
  <2>2. q \in U
    BY <2>1
  <2>3. \A p \in U : \E t \in U : <<p, t>> \in E
    BY <1>1 DEF Cycle, Closed
  <2>4. U \in SUBSET S /\ Closed(U, E)
    BY <2>2, <2>3 DEF Closed
  <2>5. QED
    BY <2>4 DEF Cycle
<1>2. QED
  BY <1>1

\* A handler with one target that waits and holds something has the exclusive lock on its
\* target and waits for a handler with the exclusive lock on a path above it.
LEMMA WaitsUpwards ==
    ASSUME IInv, ExclusivesFirst, NEW r \in Req, NEW q \in Req, NEW a, NEW b,
           targets[r] = {a}, targets[q] = {b}, held[r] # {},
           Waiting(r), Waiting(q), NEW k \in held[q], Conflict(want[r], k)
    PROVE  Descendant(b, a)
<1>1. status[r] = "locking" /\ status[q] = "locking"
  BY DEF IInv, TypeOK
<1>2. /\ held[r] \subseteq Needed({a}) /\ want[r] \in Needed({a}) \ held[r]
      /\ held[q] \subseteq Needed({b})
      /\ Exclusives({a}) \subseteq held[r] \/ held[r] \cup {want[r]} \subseteq Exclusives({a})
  BY <1>1 DEF ExclusivesFirst
<1>3. Exclusives({a}) = {[path |-> a, mode |-> "exclusive"]}
  BY DEF Exclusives
<1>4. want[r] \in Shareds({a})
  BY ZenonT(60), <1>2, <1>3 DEF Needed
<1>5. Descendant(want[r].path, a) /\ want[r].mode = "shared"
  <2>1. a \in Path
    BY <1>1, WorkAssumption DEF IInv, TargetsKnown
  <2>2. PICK c \in ParentPaths(a) : want[r] = [path |-> c, mode |-> "shared"]
    BY <1>4 DEF Shareds
  <2>3. QED
    BY <2>1, <2>2, Ancestors
<1>6. k.mode = "exclusive" /\ k.path = want[r].path
  BY <1>5 DEF Conflict
<1>7. k \in Exclusives({b})
  <2>1. \A l \in Shareds({b}) : l.mode = "shared"
    BY DEF Shareds
  <2>2. QED
    BY <1>2, <1>6, <2>1 DEF Needed
<1>8. k.path = b
  BY <1>7 DEF Exclusives
<1>9. QED
  BY <1>5, <1>6, <1>8

\* handleDAVMove and handleDAVCopy are the only ones that can deadlock: among handlers with one
\* target each the one whose path comes first in string order waits for nobody.
THEOREM DeadlockTakesPair == Spec => []DeadlockNeedsPair
<1>1. ASSUME IInv, ExclusivesFirst PROVE DeadlockNeedsPair
  <2> SUFFICES ASSUME NEW S \in SUBSET Req, Deadlock(S),
                      \A r \in S : ~ (Cardinality(targets[r]) > 1)
               PROVE  FALSE
    BY DEF DeadlockNeedsPair
  <2>1. ASSUME NEW r \in S
        PROVE  Waiting(r) /\ (\E q \in S : <<r, q>> \in Blocked) /\ \E q \in S : <<q, r>> \in Blocked
    <3>1. Cycle(S, Blocked) /\ \A x : <<x, x>> \notin Blocked
      BY DEF Deadlock, Blocked
    <3>2. \E q \in S : <<q, r>> \in Blocked
      BY <3>1, CycleIsRound
    <3>3. QED
      BY <3>1, <3>2 DEF Cycle, Closed, Blocked
  <2>2. ASSUME NEW r \in S PROVE \E a \in Path : targets[r] = {a}
    <3>1. targets[r] \in Work
      BY <1>1, <2>1 DEF IInv, TypeOK, TargetsKnown
    <3>2. /\ targets[r] # {} /\ targets[r] \subseteq Path /\ IsFiniteSet(targets[r])
          /\ Cardinality(targets[r]) \in Nat /\ Cardinality(targets[r]) # 0
      BY <3>1, WorkAssumption, FS_CardinalityType, FS_EmptySet
    <3>3. Cardinality(targets[r]) = 1
      BY <3>2
    <3>4. QED
      BY <3>2, <3>3, FS_Singleton
  <2>3. ASSUME NEW r \in S
        PROVE  \E q \in S : \E a, b \in Path :
                  targets[r] = {a} /\ targets[q] = {b} /\ Descendant(b, a)
    <3>1. PICK q \in S : <<r, q>> \in Blocked
      BY <2>1
    <3>2. PICK k \in held[q] : Conflict(want[r], k)
      BY <3>1 DEF Blocked
    <3>3. held[r] # {}
      BY <2>1 DEF Blocked
    <3>4. PICK a \in Path : targets[r] = {a}
      BY <2>2
    <3>5. PICK b \in Path : targets[q] = {b}
      BY <2>2
    <3>6. Waiting(r) /\ Waiting(q) /\ r \in Req /\ q \in Req
      BY <2>1
    <3>7. Descendant(b, a)
      BY <1>1, <3>2, <3>3, <3>4, <3>5, <3>6, WaitsUpwards
    <3>8. QED
      BY <3>4, <3>5, <3>7
  <2> DEFINE T == {Rank[a] : a \in {c \in Path : \E r \in S : targets[r] = {c}}}
  <2>4. T \subseteq Nat /\ T # {}
    BY <2>2, RankAssumption DEF Deadlock, Cycle, Closed
  <2>5. PICK x \in T : \A y \in T : x <= y
    BY <2>4, LeastNatural
  <2>6. PICK a \in Path, r \in S : targets[r] = {a} /\ Rank[a] = x
    BY <2>5
  <2>7. PICK q \in S, b \in Path : targets[q] = {b} /\ Descendant(b, a)
    <3>1. PICK q \in S, c \in Path, b \in Path :
             targets[r] = {c} /\ targets[q] = {b} /\ Descendant(b, c)
      BY <2>3, <2>6
    <3>2. c = a
      BY <2>6, <3>1
    <3>3. QED
      BY <3>1, <3>2
  <2>8. Rank[b] < Rank[a] /\ Rank[b] \in T /\ Rank[a] \in Nat /\ Rank[b] \in Nat
    BY <2>6, <2>7, RankAssumption
  <2>9. QED
    BY <2>5, <2>6, <2>8
<1>2. QED
  BY <1>1, Invariant, OrderHolds, PTL

-----------------------------------------------------------------------------
\* What a handler works on, as TreeLock sees it.
Working == [r \in Req |-> IF status[r] = "inside" THEN targets[r] ELSE {}]

\* At first nobody is inside in the abstract specification either.
LEMMA InitRefines == Init => Abstract!Init
  BY DEF Init, Abstract!Init, Abstract!Outside

\* A step that moves no handler into or out of the critical section is a stutter.
LEMMA StatusKeepsWorking ==
    ASSUME NEW r \in Req, TypeOK,
           \A q \in Req \ {r} : status'[q] = status[q] /\ targets'[q] = targets[q],
           status[r] # "inside", status'[r] # "inside"
    PROVE  Working' = Working
  BY DEF Working

\* TreeLock speaks of the same paths.
LEMMA SameOverlap == \A T, U : Abstract!SetsOverlap(T, U) <=> SetsOverlap(T, U)
  BY DEF Abstract!SetsOverlap, Abstract!Overlap, Abstract!Descendant,
         SetsOverlap, Overlap, Descendant

\* Enter is TreeLock's Enter, the ends of the critical section are its Leave.
LEMMA StepRefines == IInv /\ IInv' /\ [Next]_vars => [Abstract!Next]_Working
<1> SUFFICES ASSUME IInv, IInv', [Next]_vars PROVE [Abstract!Next]_Working
  OBVIOUS
<1>0. TypeOK
  BY DEF IInv
<1>1. ASSUME NEW r \in Req, NEW T \in Work, Connect(r, T) PROVE Working' = Working
  BY <1>0, <1>1, StatusKeepsWorking DEF Connect, TypeOK
<1>2. ASSUME NEW r \in Req, RequestLock(r) \/ Grant(r) \/ Unlock(r) \/ MoveUp(r)
      PROVE  Working' = Working
  BY <1>2 DEF RequestLock, Grant, Unlock, MoveUp, Working
<1>3. ASSUME NEW r \in Req, Enter(r) PROVE Abstract!Next
  <2>1. status[r] = "locking" /\ status' = [status EXCEPT ![r] = "inside"] /\ targets' = targets
    BY <1>3 DEF Enter
  <2>2. targets[r] \in Work
    BY <2>1 DEF IInv, TargetsKnown
  <2>3. \A q \in Req \ {r} : ~ SetsOverlap(targets[r], Working[q])
    <3> SUFFICES ASSUME NEW q \in Req \ {r} PROVE ~ SetsOverlap(targets[r], Working[q])
      OBVIOUS
    <3>1. CASE status[q] = "inside"
      <4>1. SubtreeExclusion'
        BY InvariantExcludesNext
      <4>2. status'[r] = "inside" /\ status'[q] = "inside"
        BY <1>0, <2>1, <3>1 DEF TypeOK
      <4>3. QED
        BY <2>1, <3>1, <4>1, <4>2 DEF SubtreeExclusion, Working
    <3>2. CASE status[q] # "inside"
      BY <3>2 DEF Working, SetsOverlap
    <3>3. QED
      BY <3>1, <3>2
  <2>4. Working[r] = {} /\ Working' = [Working EXCEPT ![r] = targets[r]]
    BY <1>0, <2>1 DEF Working, TypeOK
  <2>5. PICK T \in Work : T = targets[r]
    BY <2>2
  <2>6. Abstract!Enter(r, T)
    BY <2>3, <2>4, <2>5, SameOverlap
    DEF Abstract!Enter, Abstract!MayEnter, Abstract!Outside, Working
  <2>7. QED
    BY <2>6 DEF Abstract!Next
<1>4. ASSUME NEW r \in Req, status[r] = "inside", targets[r] \in Work,
             status'[r] # "inside",
             \A q \in Req \ {r} : status'[q] = status[q] /\ targets'[q] = targets[q]
      PROVE  Abstract!Next
  <2>1. Working[r] # {}
    BY <1>4, WorkAssumption DEF Working
  <2>2. Working' = [Working EXCEPT ![r] = {}]
    BY <1>4 DEF Working
  <2>3. Abstract!Leave(r)
    BY <2>1, <2>2 DEF Abstract!Leave, Abstract!Outside, Working
  <2>4. QED
    BY <2>3 DEF Abstract!Next
<1>5. ASSUME NEW r \in Req, Finish(r) PROVE Abstract!Next
  <2>1. targets[r] \in Work
    BY <1>5 DEF Finish, IInv, TargetsKnown
  <2>2. QED
    BY <1>0, <1>4, <1>5, <2>1 DEF Finish, TypeOK
<1>6. ASSUME NEW r \in Req, Close(r) \/ FinishAdrift(r) PROVE Working' = Working
  BY <1>0, <1>6, StatusKeepsWorking DEF Close, FinishAdrift, TypeOK
<1>7. ASSUME NEW r \in Req, DeadlockAbort(r) PROVE Working' = Working
  <2>1. PICK S \in SUBSET Req : r \in S /\ Deadlock(S)
    BY <1>7 DEF DeadlockAbort
  <2>2. status[r] = "locking"
    BY <1>0, <2>1 DEF Deadlock, Cycle, Closed, Blocked, TypeOK
  <2>3. QED
    BY <1>0, <1>7, <2>2, StatusKeepsWorking DEF DeadlockAbort, TypeOK
<1>8. ASSUME NEW r \in Req, SessionLost(r) PROVE [Abstract!Next]_Working
  <2>1. /\ status'[r] # "inside"
        /\ \A q \in Req \ {r} : status'[q] = status[q] /\ targets'[q] = targets[q]
    BY <1>0, <1>8 DEF SessionLost, TypeOK
  <2>2. CASE status[r] = "inside"
    <3>1. targets[r] \in Work
      BY <2>2 DEF IInv, TargetsKnown
    <3>2. QED
      BY <1>4, <2>1, <2>2, <3>1
  <2>3. CASE status[r] # "inside"
    BY <1>0, <2>1, <2>3, StatusKeepsWorking
  <2>4. QED
    BY <2>2, <2>3
<1>9. CASE UNCHANGED vars
  BY <1>9 DEF vars, Working
<1>10. QED
  BY <1>1, <1>2, <1>3, <1>5, <1>6, <1>7, <1>8, <1>9 DEF Next

\* Whatever the interleaving of single lock requests, deadlock victims and lost
\* sessions, the handlers enter and leave as if each took all its locks at once.
THEOREM RefinesTreeLock == Spec => ImplementsTreeLock
<1>1. Init => Abstract!Init
  BY InitRefines
<1>2. IInv /\ IInv' /\ [Next]_vars => [Abstract!Next]_Working
  BY StepRefines
<1>3. Working = [r \in Req |-> IF status[r] = "inside" THEN targets[r] ELSE {}]
  BY DEF Working
<1>4. QED
  BY <1>1, <1>2, <1>3, Invariant, PTL DEF Spec, ImplementsTreeLock, Abstract!Spec, Working
=============================================================================
