------------------------------ MODULE TreeLock ------------------------------
(***************************************************************************)
(* What the path locks of handlers/webdav.go promise: a request works on   *)
(* its targets (one path; source and destination for MOVE and COPY) only   *)
(* while no other request works on a path equal to, above or below one of  *)
(* them.  Entering takes every lock in one step here; AdvisoryLocks, which *)
(* takes PostgreSQL advisory locks one by one, implements this module.     *)
(***************************************************************************)
EXTENDS DavPaths

CONSTANTS Req,      \* request handlers that may run at the same time
          Work      \* the sets of target paths they may ask for

VARIABLE inside     \* inside[r]: targets r is working on, {} when it is not

Outside == {}

Init == inside = [r \in Req |-> Outside]

MayEnterApart(r, T) == \A q \in Req \ {r} : T \cap inside[q] = {}    \* faulty variant
MayEnter(r, T) == \A q \in Req \ {r} : ~ SetsOverlap(T, inside[q])

Enter(r, T) ==
    /\ inside[r] = Outside
    /\ MayEnter(r, T)
    /\ inside' = [inside EXCEPT ![r] = T]

Leave(r) ==
    /\ inside[r] # Outside
    /\ inside' = [inside EXCEPT ![r] = Outside]

Next == \E r \in Req : Leave(r) \/ \E T \in Work : Enter(r, T)

Spec == Init /\ [][Next]_inside
=============================================================================
