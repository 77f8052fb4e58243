---------------------------- MODULE AppPasswords ----------------------------
(***************************************************************************)
(* App passwords and the cache of validated Basic-auth credentials         *)
(* (handlers/credcache.go, auth.go, user_settings.go, main.go).            *)
(*                                                                         *)
(* A sync client sends its app password with every request.  A credential  *)
(* found in the in-memory cache is accepted at once; otherwise the active  *)
(* passwords are read from the database, compared with bcrypt, and the     *)
(* match is put into the cache.  Revoking a password updates its row and   *)
(* then drops its cache entries: nothing ties these two steps to the       *)
(* requests that have read the row before and put their entry after.       *)
(*                                                                         *)
(* Time is abstract: an entry expires some time after it was put, a        *)
(* revoked row is deleted some time after its revocation (7 days).         *)
(***************************************************************************)
EXTENDS Naturals, FiniteSets

CONSTANTS Password,     \* app passwords; a password is its own credential
          Wrong,        \* a credential that belongs to no password
          Req,          \* requests with Basic authentication
          Owner,        \* browser sessions that create, revoke and wipe
          MaxEntries,   \* credentialCacheMaxEntries
          MaxWipes      \* bound: remote wipes asked for

Cred == Password \cup {Wrong}

ASSUME AppPasswordAssumption ==
    /\ Wrong \notin Password
    /\ MaxEntries \in Nat \ {0} /\ MaxWipes \in Nat

VARIABLES row,        \* the row of each password in app_passwords
          wipe,       \* its remote_wipe_at and remote_wipe_completed_at
          cache,      \* credCache.entries: is the cached credential still fresh?
          auth,       \* what each request is doing
          owner,      \* what each owner's handler is doing
          reported    \* passwords whose owner has been told they are revoked

vars == <<row, wipe, cache, auth, owner, reported>>

NoRequest == [pc |-> "idle", cred |-> Wrong, seen |-> {}, late |-> FALSE]
NoHandler == [pc |-> "idle", password |-> Wrong]
NoEntries == [k \in {} |-> "fresh"]

Active == {p \in Password : row[p] = "active"}
Restricted(S) == [k \in S |-> cache[k]]

Init ==
    /\ row \in [Password -> {"none", "active"}]
    /\ wipe = [p \in Password |-> "no"]
    /\ cache = NoEntries
    /\ auth = [r \in Req |-> NoRequest]
    /\ owner = [o \in Owner |-> NoHandler]
    /\ reported = {}

-----------------------------------------------------------------------------
(* getAppPasswordFromBasicAuth                                             *)

\* credentialCache.get: a hit is accepted; an expired entry is dropped.
Lookup(r, k) ==
    /\ auth[r].pc = "idle"
    /\ auth' = [auth EXCEPT ![r] =
                   [pc |-> IF k \in DOMAIN cache /\ cache[k] = "fresh" THEN "accepted" ELSE "missed",
                    cred |-> k, seen |-> {}, late |-> k \in reported]]
    /\ cache' = IF k \in DOMAIN cache /\ cache[k] = "expired"
                THEN Restricted(DOMAIN cache \ {k}) ELSE cache
    /\ UNCHANGED <<row, wipe, owner, reported>>

SelectAll(r) ==    \* faulty variant: without the condition on revoked_at
    /\ auth[r].pc = "missed"
    /\ auth' = [auth EXCEPT ![r].pc = "selected", ![r].seen = {p \in Password : row[p] # "none"}]
    /\ UNCHANGED <<row, wipe, cache, owner, reported>>

\* SELECT ... WHERE revoked_at IS NULL
Select(r) ==
    /\ auth[r].pc = "missed"
    /\ auth' = [auth EXCEPT ![r].pc = "selected", ![r].seen = Active]
    /\ UNCHANGED <<row, wipe, cache, owner, reported>>

CompareLoosely(r) ==    \* faulty variant: any active password lets the request in
    /\ auth[r].pc = "selected"
    /\ auth' = [auth EXCEPT ![r] = IF @.seen # {} THEN [@ EXCEPT !.pc = "matched", !.seen = {}]
                                   ELSE NoRequest]
    /\ UNCHANGED <<row, wipe, cache, owner, reported>>

\* bcrypt, against the rows as they were read.
Compare(r) ==
    /\ auth[r].pc = "selected"
    /\ auth' = [auth EXCEPT ![r] = IF @.cred \in @.seen THEN [@ EXCEPT !.pc = "matched", !.seen = {}]
                                   ELSE NoRequest]
    /\ UNCHANGED <<row, wipe, cache, owner, reported>>

Fresh == {k \in DOMAIN cache : cache[k] = "fresh"}

\* What evictLocked leaves: at capacity the expired entries go, and if that
\* frees nothing, all of them.
Kept ==
    IF Cardinality(DOMAIN cache) < MaxEntries THEN DOMAIN cache
    ELSE IF Cardinality(Fresh) < MaxEntries THEN Fresh
    ELSE {}

\* credentialCache.put
Put(r) ==
    /\ auth[r].pc = "matched"
    /\ cache' = [k \in Kept \cup {auth[r].cred} |->
                    IF k = auth[r].cred THEN "fresh" ELSE cache[k]]
    /\ auth' = [auth EXCEPT ![r].pc = "accepted"]
    /\ UNCHANGED <<row, wipe, owner, reported>>

\* The request is served.
Respond(r) ==
    /\ auth[r].pc = "accepted"
    /\ auth' = [auth EXCEPT ![r] = NoRequest]
    /\ UNCHANGED <<row, wipe, cache, owner, reported>>

-----------------------------------------------------------------------------
(* Time: an entry reaches expiresAt; the janitors run every minute.        *)

Expire(k) ==
    /\ k \in Fresh
    /\ cache' = [cache EXCEPT ![k] = "expired"]
    /\ UNCHANGED <<row, wipe, auth, owner, reported>>

\* sweepExpired
Sweep ==
    /\ Fresh # DOMAIN cache
    /\ cache' = Restricted(Fresh)
    /\ UNCHANGED <<row, wipe, auth, owner, reported>>

\* runJanitor: DELETE FROM app_passwords, 7 days after the revocation.
Purge(p) ==
    /\ row[p] = "revoked"
    /\ row' = [row EXCEPT ![p] = "deleted"]
    /\ UNCHANGED <<wipe, cache, auth, owner, reported>>

-----------------------------------------------------------------------------
(* The owner's handlers: AppPasswordCreateHandler, AppPasswordRevokeHandler *)
(* and AppPasswordRemoteWipeHandler.                                        *)

Create(p) ==
    /\ row[p] = "none"
    /\ row' = [row EXCEPT ![p] = "active"]
    /\ UNCHANGED <<wipe, cache, auth, owner, reported>>

Revoke(o, p) ==
    /\ owner[o].pc = "idle" /\ row[p] = "active"
    /\ row' = [row EXCEPT ![p] = "revoked"]
    /\ owner' = [owner EXCEPT ![o] = [pc |-> "updated", password |-> p]]
    /\ UNCHANGED <<wipe, cache, auth, reported>>

\* A remote wipe also revokes; a revoked password can still be wiped.
Wipe(o, p) ==
    /\ owner[o].pc = "idle" /\ row[p] \in {"active", "revoked"} /\ wipe[p] = "no"
    /\ Cardinality({q \in Password : wipe[q] # "no"}) < MaxWipes
    /\ row' = [row EXCEPT ![p] = "revoked"]
    /\ wipe' = [wipe EXCEPT ![p] = "asked"]
    /\ owner' = [owner EXCEPT ![o] = [pc |-> "updated", password |-> p]]
    /\ UNCHANGED <<cache, auth, reported>>

\* invalidateAppPassword, then the answer "revoked".
Invalidate(o) ==
    /\ owner[o].pc = "updated"
    /\ cache' = Restricted(DOMAIN cache \ {owner[o].password})
    /\ reported' = reported \cup {owner[o].password}
    /\ owner' = [owner EXCEPT ![o] = NoHandler]
    /\ UNCHANGED <<row, wipe, auth>>

\* The update was made but its result is lost: the owner gets an error, and the
\* cache entries stay.  Trying again finds no active row and drops nothing.
LoseUpdate(o) ==
    /\ owner[o].pc = "updated"
    /\ owner' = [owner EXCEPT ![o] = NoHandler]
    /\ UNCHANGED <<row, wipe, cache, auth, reported>>

\* RemoteWipeSuccessHandler: the device says that it has wiped its data.
WipeSuccess(p) ==
    /\ row[p] \in {"active", "revoked"} /\ wipe[p] = "asked"
    /\ wipe' = [wipe EXCEPT ![p] = "completed"]
    /\ UNCHANGED <<row, cache, auth, owner, reported>>

\* The server stops and starts again: the cache and the handlers are gone.
Restart ==
    /\ cache' = NoEntries
    /\ auth' = [r \in Req |-> NoRequest]
    /\ owner' = [o \in Owner |-> NoHandler]
    /\ UNCHANGED <<row, wipe, reported>>

Next ==
    \/ \E r \in Req : \/ \E k \in Cred : Lookup(r, k)
                      \/ Select(r) \/ Compare(r) \/ Put(r) \/ Respond(r)
    \/ \E k \in Cred : Expire(k)
    \/ Sweep
    \/ \E p \in Password : Purge(p) \/ Create(p) \/ WipeSuccess(p)
    \/ \E o \in Owner : \/ \E p \in Password : Revoke(o, p) \/ Wipe(o, p)
                        \/ Invalidate(o) \/ LoseUpdate(o)
    \/ Restart

Spec == Init /\ [][Next]_vars

\* Requests in progress go on and time passes; nobody has to send a request or
\* to revoke anything, and an update whose result is lost stays lost.
Fairness ==
    /\ \A r \in Req : WF_vars(Select(r) \/ Compare(r) \/ Put(r) \/ Respond(r))
    /\ \A k \in Cred : WF_vars(Expire(k))

FairSpec == Spec /\ Fairness

-----------------------------------------------------------------------------
\* Type invariant: only passwords that exist are ever cached or matched, and
\* one that is wiped is revoked.
TypeOK ==
    /\ row \in [Password -> {"none", "active", "revoked", "deleted"}]
    /\ wipe \in [Password -> {"no", "asked", "completed"}]
    /\ DOMAIN cache \subseteq {p \in Password : row[p] # "none"}
    /\ \A k \in DOMAIN cache : cache[k] \in {"fresh", "expired"}
    /\ auth \in [Req -> [pc : {"idle", "missed", "selected", "matched", "accepted"},
                         cred : Cred, seen : SUBSET Password, late : BOOLEAN]]
    /\ \A r \in Req : auth[r].pc \in {"matched", "accepted"} =>
          auth[r].cred \in Password /\ row[auth[r].cred] # "none"
    /\ owner \in [Owner -> [pc : {"idle", "updated"}, password : Cred]]
    /\ \A o \in Owner : owner[o].pc = "updated" => row[owner[o].password] \in {"revoked", "deleted"}
    /\ \A p \in Password : wipe[p] # "no" => row[p] \in {"revoked", "deleted"}
    /\ \A p \in reported : row[p] \in {"revoked", "deleted"}

\* The cache never holds more entries than its maximum, however many requests
\* put their credential at the same time.
CacheBounded == Cardinality(DOMAIN cache) <= MaxEntries

\* r has found p among the active rows and can still put it into the cache.
MayPut(r, p) ==
    /\ auth[r].cred = p
    /\ auth[r].pc = "matched" \/ (auth[r].pc = "selected" /\ p \in auth[r].seen)

Revoked(p) == row[p] \in {"revoked", "deleted"}
Dead(p) ==
    /\ Revoked(p)
    /\ p \notin Fresh
    /\ \A r \in Req : ~ MayPut(r, p)

\* A revoked password that is in no fresh entry and in no request that read its
\* row before is dead for good: nothing caches it again and no request that
\* presents it is accepted.
DeadStaysDead ==
    [][\A p \in Password : Dead(p) =>
          /\ Dead(p)'
          /\ \A r \in Req : auth'[r].cred = p /\ auth'[r].pc = "accepted" => auth[r].pc = "accepted"]_vars

\* Every revoked password dies (and stays so, DeadStaysDead), even when the cache was not invalidated or a
\* late request cached it again: no hit makes an entry live longer.
RevocationTakesHold == \A p \in Password : Revoked(p) ~> Dead(p)

\* What the comment of AppPasswordRevokeHandler promises ("so the revoked
\* credential stops working now, not just after the cache TTL elapses"): no
\* request that arrives after the owner was told is accepted.
RevokedStopsNow ==
    \A r \in Req : auth[r].pc = "accepted" => ~ auth[r].late
=============================================================================
