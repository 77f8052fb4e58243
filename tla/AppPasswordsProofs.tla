-------------------------- MODULE AppPasswordsProofs --------------------------
(***************************************************************************)
(* Proofs about AppPasswords, for every set of passwords, requests and     *)
(* owner sessions and every size of the cache: type correctness, the bound *)
(* of the cache, and that a dead password is dead for good.                *)
(***************************************************************************)
EXTENDS AppPasswords, FiniteSetTheorems, TLAPS

(***************************************************************************)
(* The inductive invariant: TypeOK says what is cached and matched, but    *)
(* not that what a request has read exists, nor that the cache is finite,  *)
(* which its bound rests on.                                               *)
(***************************************************************************)

\* Owners work on passwords.
OwnersKnown ==
    /\ \A o \in Owner : owner[o].pc = "updated" => owner[o].password \in Password
    /\ reported \subseteq Password

\* Rows that a request has read were made before.
SeenExist ==
    \A r \in Req : \A p \in auth[r].seen : row[p] # "none"

CacheFinite ==
    /\ cache \in [DOMAIN cache -> {"fresh", "expired"}]
    /\ IsFiniteSet(DOMAIN cache)

IInv ==
    /\ TypeOK
    /\ OwnersKnown
    /\ SeenExist
    /\ CacheFinite
    /\ CacheBounded

-----------------------------------------------------------------------------
\* The rows as created before the server starts, and an empty cache, satisfy the
\* invariant.
LEMMA InitInvariant == Init => IInv
<1> SUFFICES ASSUME Init PROVE IInv
  OBVIOUS
<1>1. DOMAIN cache = {} /\ cache \in [DOMAIN cache -> {"fresh", "expired"}]
  BY DEF Init, NoEntries
<1>2. IsFiniteSet(DOMAIN cache) /\ Cardinality(DOMAIN cache) = 0
  BY <1>1, FS_EmptySet
<1>3. TypeOK
  BY <1>1 DEF Init, TypeOK, NoRequest, NoHandler, Cred
<1>4. SeenExist /\ OwnersKnown
  BY DEF Init, SeenExist, NoRequest, OwnersKnown, NoHandler
<1>5. CacheBounded
  BY <1>2, AppPasswordAssumption DEF CacheBounded
<1>6. QED
  BY <1>1, <1>2, <1>3, <1>4, <1>5 DEF IInv, CacheFinite

\* Entries leave the cache: it stays finite and within its bound.
LEMMA FewerEntries ==
    ASSUME IInv, NEW S \in SUBSET DOMAIN cache, cache' = Restricted(S)
    PROVE  CacheFinite' /\ CacheBounded' /\ DOMAIN cache' = S
           /\ \A k \in S : cache'[k] = cache[k]
<1>1. DOMAIN cache' = S /\ \A k \in S : cache'[k] = cache[k]
  BY DEF Restricted
<1>2. IsFiniteSet(S) /\ Cardinality(S) <= Cardinality(DOMAIN cache)
  BY FS_Subset DEF IInv, CacheFinite
<1>3. Cardinality(S) \in Nat /\ Cardinality(DOMAIN cache) \in Nat
  BY <1>2, FS_CardinalityType DEF IInv, CacheFinite
<1>4. CacheFinite'
  BY <1>1, <1>2 DEF IInv, CacheFinite, Restricted
<1>5. CacheBounded'
  BY <1>1, <1>2, <1>3, AppPasswordAssumption DEF IInv, CacheBounded
<1>6. QED
  BY <1>1, <1>4, <1>5

\* What evictLocked leaves has room for one more entry.
LEMMA KeptHasRoom ==
    ASSUME IInv
    PROVE  Kept \subseteq DOMAIN cache /\ IsFiniteSet(Kept) /\ Cardinality(Kept) < MaxEntries
<1>1. Fresh \subseteq DOMAIN cache
  BY DEF Fresh
<1>2. Kept \subseteq DOMAIN cache
  BY <1>1 DEF Kept
<1>3. IsFiniteSet(Kept)
  BY <1>2, FS_Subset DEF IInv, CacheFinite
<1>4. Cardinality({}) = 0 /\ 0 < MaxEntries
  BY FS_EmptySet, AppPasswordAssumption
<1>5. Cardinality(Kept) < MaxEntries
  BY <1>4 DEF Kept
<1>6. QED
  BY <1>2, <1>3, <1>5

\* credentialCache.put keeps the cache finite and within its bound.
LEMMA PutEntry ==
    ASSUME IInv, NEW k,
           cache' = [l \in Kept \cup {k} |-> IF l = k THEN "fresh" ELSE cache[l]]
    PROVE  CacheFinite' /\ CacheBounded'
<1>1. IsFiniteSet(Kept) /\ Cardinality(Kept) \in Nat /\ Cardinality(Kept) < MaxEntries
  BY KeptHasRoom, FS_CardinalityType
<1>2. /\ IsFiniteSet(Kept \cup {k})
      /\ Cardinality(Kept \cup {k}) <= Cardinality(Kept) + 1
  BY <1>1, FS_AddElement
<1>3. DOMAIN cache' = Kept \cup {k} /\ cache' \in [DOMAIN cache' -> {"fresh", "expired"}]
  BY KeptHasRoom DEF IInv, CacheFinite
<1>4. Cardinality(Kept \cup {k}) \in Nat
  BY <1>2, FS_CardinalityType
<1>5. Cardinality(DOMAIN cache') <= MaxEntries
  BY <1>1, <1>2, <1>3, <1>4, AppPasswordAssumption
<1>6. QED
  BY <1>2, <1>3, <1>5 DEF CacheFinite, CacheBounded

\* A request that goes on: what it has read and matched exists.
LEMMA RequestStep ==
    ASSUME IInv, NEW r \in Req,
           NEW a \in [pc : {"idle", "missed", "selected", "matched", "accepted"},
                      cred : Cred, seen : SUBSET Password, late : BOOLEAN],
           auth' = [auth EXCEPT ![r] = a],
           UNCHANGED <<row, wipe, owner, reported>>,
           a.pc \in {"matched", "accepted"} => a.cred \in Password /\ row[a.cred] # "none",
           \A p \in a.seen : row[p] # "none",
           DOMAIN cache' \subseteq {p \in Password : row[p] # "none"},
           CacheFinite', CacheBounded'
    PROVE  IInv'
<1>1. /\ auth'[r] = a /\ \A q \in Req \ {r} : auth'[q] = auth[q]
      /\ auth' \in [Req -> [pc : {"idle", "missed", "selected", "matched", "accepted"},
                            cred : Cred, seen : SUBSET Password, late : BOOLEAN]]
  BY DEF IInv, TypeOK
<1>2. SeenExist' /\ OwnersKnown'
  BY <1>1 DEF IInv, SeenExist, OwnersKnown
<1>3. \A k \in DOMAIN cache' : cache'[k] \in {"fresh", "expired"}
  BY DEF CacheFinite
<1>4. TypeOK'
  BY <1>1, <1>3 DEF IInv, TypeOK
<1>5. QED
  BY <1>2, <1>4 DEF IInv

\* Each step of getAppPasswordFromBasicAuth preserves the invariant.
LEMMA AuthInvariant ==
    ASSUME IInv, NEW r \in Req,
           (\E k \in Cred : Lookup(r, k)) \/ Select(r) \/ Compare(r) \/ Put(r) \/ Respond(r)
    PROVE  IInv'
<1> DEFINE Auths == [pc : {"idle", "missed", "selected", "matched", "accepted"},
                     cred : Cred, seen : SUBSET Password, late : BOOLEAN]
<1>1. /\ auth[r] \in Auths /\ NoRequest \in Auths /\ NoRequest.pc = "idle" /\ NoRequest.seen = {}
      /\ auth[r].pc \in {"matched", "accepted"} =>
             auth[r].cred \in Password /\ row[auth[r].cred] # "none"
      /\ \A p \in auth[r].seen : row[p] # "none"
      /\ DOMAIN cache \subseteq {p \in Password : row[p] # "none"}
      /\ CacheFinite /\ CacheBounded
  BY DEF IInv, TypeOK, SeenExist, NoRequest, Cred
<1>2. cache' = cache => CacheFinite' /\ CacheBounded'
  BY <1>1 DEF CacheFinite, CacheBounded
<1>3. CASE \E k \in Cred : Lookup(r, k)
  <2>1. PICK k \in Cred : Lookup(r, k)
    BY <1>3
  <2> DEFINE a == [pc |-> IF k \in DOMAIN cache /\ cache[k] = "fresh" THEN "accepted" ELSE "missed",
                   cred |-> k, seen |-> {}, late |-> k \in reported]
  <2>2. auth' = [auth EXCEPT ![r] = a] /\ UNCHANGED <<row, wipe, owner, reported>>
    BY <2>1 DEF Lookup
  <2>3. /\ a \in Auths /\ a.seen = {} /\ a.cred = k
        /\ a.pc \in {"matched", "accepted"} => k \in DOMAIN cache
    BY <2>1
  <2>4. /\ CacheFinite' /\ CacheBounded' /\ DOMAIN cache' \subseteq DOMAIN cache
    <3>1. CASE k \in DOMAIN cache /\ cache[k] = "expired"
      <4>1. cache' = Restricted(DOMAIN cache \ {k})
        BY <2>1, <3>1 DEF Lookup
      <4>2. DOMAIN cache \ {k} \in SUBSET DOMAIN cache
        OBVIOUS
      <4>3. CacheFinite' /\ CacheBounded' /\ DOMAIN cache' = DOMAIN cache \ {k}
        BY <4>1, <4>2, FewerEntries
      <4>4. QED
        BY <4>3
    <3>2. CASE ~ (k \in DOMAIN cache /\ cache[k] = "expired")
      <4>1. cache' = cache
        BY <2>1, <3>2 DEF Lookup
      <4>2. QED
        BY <1>2, <4>1
    <3>3. QED
      BY <3>1, <3>2
  <2> HIDE DEF a
  <2>5. QED
    BY <1>1, <2>2, <2>3, <2>4, RequestStep
<1>4. CASE Select(r)
  <2> DEFINE a == [auth[r] EXCEPT !.pc = "selected", !.seen = Active]
  <2>1. a \in Auths /\ a.pc = "selected" /\ a.seen = Active
    BY <1>1 DEF Active
  <2>2. /\ auth' = [auth EXCEPT ![r] = a]
        /\ UNCHANGED <<row, wipe, cache, owner, reported>>
    BY <1>4 DEF Select, IInv, TypeOK
  <2>3. \A p \in Active : row[p] # "none"
    BY DEF Active
  <2> HIDE DEF a
  <2>4. QED
    BY <1>1, <1>2, <2>1, <2>2, <2>3, RequestStep
<1>5. CASE Compare(r)
  <2>1. UNCHANGED <<row, wipe, cache, owner, reported>>
    BY <1>5 DEF Compare
  <2>2. CASE auth[r].cred \in auth[r].seen
    <3> DEFINE a == [auth[r] EXCEPT !.pc = "matched", !.seen = {}]
    <3>1. a \in Auths /\ a.pc = "matched" /\ a.seen = {} /\ a.cred = auth[r].cred
      BY <1>1
    <3>2. auth' = [auth EXCEPT ![r] = a]
      BY <1>5, <2>2 DEF Compare
    <3>3. auth[r].cred \in Password /\ row[auth[r].cred] # "none"
      BY <1>1, <2>2
    <3> HIDE DEF a
    <3>4. QED
      BY <1>1, <1>2, <2>1, <3>1, <3>2, <3>3, RequestStep
  <2>3. CASE auth[r].cred \notin auth[r].seen
    <3>1. auth' = [auth EXCEPT ![r] = NoRequest]
      BY <1>5, <2>3 DEF Compare
    <3>2. QED
      BY <1>1, <1>2, <2>1, <3>1, RequestStep
  <2>4. QED
    BY <2>2, <2>3
<1>6. CASE Put(r)
  <2> DEFINE a == [auth[r] EXCEPT !.pc = "accepted"]
             k == auth[r].cred
  <2>1. a \in Auths /\ a.pc = "accepted" /\ a.seen = auth[r].seen /\ a.cred = k
    BY <1>1
  <2>2. /\ auth' = [auth EXCEPT ![r] = a] /\ auth[r].pc = "matched"
        /\ UNCHANGED <<row, wipe, owner, reported>>
        /\ cache' = [l \in Kept \cup {k} |-> IF l = k THEN "fresh" ELSE cache[l]]
    BY <1>6 DEF Put, IInv, TypeOK
  <2>3. CacheFinite' /\ CacheBounded' /\ DOMAIN cache' = Kept \cup {k}
    BY <2>2, PutEntry
  <2>4. Kept \cup {k} \subseteq {p \in Password : row[p] # "none"}
    BY <1>1, <2>2, KeptHasRoom
  <2> HIDE DEF a
  <2>5. QED
    BY <1>1, <2>1, <2>2, <2>3, <2>4, RequestStep
<1>7. CASE Respond(r)
  <2>1. auth' = [auth EXCEPT ![r] = NoRequest] /\ UNCHANGED <<row, wipe, cache, owner, reported>>
    BY <1>7 DEF Respond
  <2>2. QED
    BY <1>1, <1>2, <2>1, RequestStep
<1>8. QED
  BY <1>3, <1>4, <1>5, <1>6, <1>7

\* Rows change and owners go on, while the cache and the requests stay: no row that
\* was made is unmade, and none that was revoked is active again.
LEMMA RowStep ==
    ASSUME IInv, UNCHANGED <<cache, auth>>, NEW p \in Password,
           NEW v \in {"active", "revoked", "deleted"}, NEW w \in {"no", "asked", "completed"},
           row' = [row EXCEPT ![p] = v], wipe' = [wipe EXCEPT ![p] = w],
           row[p] \in {"revoked", "deleted"} => v \in {"revoked", "deleted"},
           w # "no" => v \in {"revoked", "deleted"},
           owner' \in [Owner -> [pc : {"idle", "updated"}, password : Cred]],
           \A o \in Owner : owner'[o].pc = "updated" =>
               (owner'[o].password = p /\ v = "revoked") \/ owner'[o] = owner[o],
           reported' = reported
    PROVE  IInv'
<1>1. /\ row' \in [Password -> {"none", "active", "revoked", "deleted"}]
      /\ wipe' \in [Password -> {"no", "asked", "completed"}]
      /\ row'[p] = v /\ wipe'[p] = w
      /\ \A q \in Password \ {p} : row'[q] = row[q] /\ wipe'[q] = wipe[q]
  BY DEF IInv, TypeOK
<1>2. /\ \A q \in Password : row[q] # "none" => row'[q] # "none"
      /\ \A q \in Password : row[q] \in {"revoked", "deleted"} => row'[q] \in {"revoked", "deleted"}
  BY <1>1 DEF IInv, TypeOK
<1>3. OwnersKnown'
  BY DEF IInv, OwnersKnown
<1>4. SeenExist' /\ CacheFinite' /\ CacheBounded'
  BY <1>2 DEF IInv, TypeOK, SeenExist, CacheFinite, CacheBounded
<1>5. \A o \in Owner : owner'[o].pc = "updated" => row'[owner'[o].password] \in {"revoked", "deleted"}
  BY <1>1, <1>2 DEF IInv, TypeOK, OwnersKnown
<1>6. \A q \in Password : wipe'[q] # "no" => row'[q] \in {"revoked", "deleted"}
  BY <1>1, <1>2 DEF IInv, TypeOK
<1>7. \A q \in reported' : row'[q] \in {"revoked", "deleted"}
  BY <1>2 DEF IInv, TypeOK, OwnersKnown
<1>8. TypeOK'
  BY <1>1, <1>2, <1>5, <1>6, <1>7 DEF IInv, TypeOK
<1>9. QED
  BY <1>3, <1>4, <1>8 DEF IInv

\* Steps of the cache, the owners and the server: rows stay, entries leave, and
\* who has been told has a revoked password.
LEMMA OtherStep ==
    ASSUME IInv, UNCHANGED <<row, wipe>>,
           auth' = auth \/ auth' = [r \in Req |-> NoRequest],
           CacheFinite', CacheBounded', DOMAIN cache' \subseteq DOMAIN cache,
           owner' \in [Owner -> [pc : {"idle", "updated"}, password : Cred]],
           \A o \in Owner : owner'[o].pc = "updated" => owner'[o] = owner[o],
           \A p \in reported' : p \in Password /\ row[p] \in {"revoked", "deleted"}
    PROVE  IInv'
<1>1. OwnersKnown'
  BY DEF IInv, OwnersKnown
<1>2. /\ auth' \in [Req -> [pc : {"idle", "missed", "selected", "matched", "accepted"},
                            cred : Cred, seen : SUBSET Password, late : BOOLEAN]]
      /\ \A r \in Req : auth'[r].pc \in {"matched", "accepted"} =>
             auth'[r].cred \in Password /\ row[auth'[r].cred] # "none"
      /\ SeenExist'
  <2>1. CASE auth' = auth
    BY <2>1 DEF IInv, TypeOK, SeenExist
  <2>2. CASE auth' = [r \in Req |-> NoRequest]
    BY <2>2 DEF SeenExist, NoRequest, Cred
  <2>3. QED
    BY <2>1, <2>2
<1>3. \A k \in DOMAIN cache' : cache'[k] \in {"fresh", "expired"}
  BY DEF CacheFinite
<1>4. TypeOK'
  BY <1>2, <1>3 DEF IInv, TypeOK
<1>5. QED
  BY <1>1, <1>2, <1>4 DEF IInv

\* Creating, revoking, wiping and purging passwords preserves the invariant.
LEMMA OwnerInvariant ==
    ASSUME IInv, NEW p \in Password,
           \/ Purge(p) \/ Create(p) \/ WipeSuccess(p)
           \/ \E o \in Owner : Revoke(o, p) \/ Wipe(o, p)
    PROVE  IInv'
<1>1. /\ row \in [Password -> {"none", "active", "revoked", "deleted"}]
      /\ wipe \in [Password -> {"no", "asked", "completed"}]
      /\ wipe[p] # "no" => row[p] \in {"revoked", "deleted"}
      /\ owner \in [Owner -> [pc : {"idle", "updated"}, password : Cred]]
      /\ p \in Cred
      /\ row = [row EXCEPT ![p] = row[p]] /\ wipe = [wipe EXCEPT ![p] = wipe[p]]
  BY DEF IInv, TypeOK, Cred
<1>2. CASE Purge(p)
  BY <1>1, <1>2, RowStep DEF Purge
<1>3. CASE Create(p)
  BY <1>1, <1>3, RowStep DEF Create
<1>4. CASE WipeSuccess(p)
  <2>1. row[p] = "revoked"
    BY <1>1, <1>4 DEF WipeSuccess
  <2>2. QED
    BY <1>1, <1>4, <2>1, RowStep DEF WipeSuccess
<1>5. ASSUME NEW o \in Owner, Revoke(o, p) \/ Wipe(o, p) PROVE IInv'
  <2>1. /\ row' = [row EXCEPT ![p] = "revoked"]
        /\ owner' = [owner EXCEPT ![o] = [pc |-> "updated", password |-> p]]
        /\ UNCHANGED <<cache, auth, reported>>
    BY <1>5 DEF Revoke, Wipe
  <2>2. PICK w \in {"no", "asked", "completed"} : wipe' = [wipe EXCEPT ![p] = w]
    BY <1>1, <1>5 DEF Revoke, Wipe
  <2>3. owner' \in [Owner -> [pc : {"idle", "updated"}, password : Cred]]
    BY <1>1, <2>1
  <2>4. \A q \in Owner : owner'[q].pc = "updated" =>
            (owner'[q].password = p /\ "revoked" = "revoked") \/ owner'[q] = owner[q]
    BY <1>1, <2>1
  <2>5. QED
    BY <1>1, <2>1, <2>2, <2>3, <2>4, RowStep
<1>6. QED
  BY <1>2, <1>3, <1>4, <1>5

\* Expiry, sweep, invalidation and restart preserve the invariant.
LEMMA CacheInvariant ==
    ASSUME IInv,
           \/ \E k \in Cred : Expire(k)
           \/ Sweep \/ Restart
           \/ \E o \in Owner : Invalidate(o) \/ LoseUpdate(o)
    PROVE  IInv'
<1>1. /\ CacheFinite /\ CacheBounded
      /\ owner \in [Owner -> [pc : {"idle", "updated"}, password : Cred]]
      /\ NoHandler \in [pc : {"idle", "updated"}, password : Cred] /\ NoHandler.pc = "idle"
      /\ \A p \in reported : p \in Password /\ row[p] \in {"revoked", "deleted"}
  BY DEF IInv, TypeOK, OwnersKnown, NoHandler, Cred
<1>2. CASE \E k \in Cred : Expire(k)
  <2>1. PICK k \in Cred : Expire(k)
    BY <1>2
  <2>2. DOMAIN cache' = DOMAIN cache /\ cache' \in [DOMAIN cache -> {"fresh", "expired"}]
    BY <1>1, <2>1 DEF Expire, Fresh, CacheFinite
  <2>3. CacheFinite' /\ CacheBounded'
    BY <1>1, <2>2 DEF CacheFinite, CacheBounded
  <2>4. UNCHANGED <<row, wipe, auth, owner, reported>>
    BY <2>1 DEF Expire
  <2>5. QED
    BY <1>1, <2>2, <2>3, <2>4, OtherStep
<1>3. CASE Sweep
  <2>1. cache' = Restricted(Fresh) /\ UNCHANGED <<row, wipe, auth, owner, reported>>
    BY <1>3 DEF Sweep
  <2>2. Fresh \in SUBSET DOMAIN cache
    BY DEF Fresh
  <2>3. CacheFinite' /\ CacheBounded' /\ DOMAIN cache' = Fresh
    BY <2>1, <2>2, FewerEntries
  <2>4. QED
    BY <1>1, <2>1, <2>2, <2>3, OtherStep
<1>4. CASE Restart
  <2>1. /\ cache' = NoEntries /\ auth' = [r \in Req |-> NoRequest]
        /\ owner' = [o \in Owner |-> NoHandler] /\ UNCHANGED <<row, wipe, reported>>
    BY <1>4 DEF Restart
  <2>2. DOMAIN cache' = {} /\ cache' \in [DOMAIN cache' -> {"fresh", "expired"}]
    BY <2>1 DEF NoEntries
  <2>3. CacheFinite' /\ CacheBounded'
    BY <2>2, FS_EmptySet, AppPasswordAssumption DEF CacheFinite, CacheBounded
  <2>4. QED
    BY <1>1, <2>1, <2>2, <2>3, OtherStep
<1>5. ASSUME NEW o \in Owner, Invalidate(o) PROVE IInv'
  <2> DEFINE p == owner[o].password
  <2>1. /\ cache' = Restricted(DOMAIN cache \ {p}) /\ reported' = reported \cup {p}
        /\ owner' = [owner EXCEPT ![o] = NoHandler] /\ UNCHANGED <<row, wipe, auth>>
        /\ owner[o].pc = "updated"
    BY <1>5 DEF Invalidate
  <2>2. p \in Password /\ row[p] \in {"revoked", "deleted"}
    BY <2>1 DEF IInv, TypeOK, OwnersKnown
  <2>3. DOMAIN cache \ {p} \in SUBSET DOMAIN cache
    OBVIOUS
  <2>4. CacheFinite' /\ CacheBounded' /\ DOMAIN cache' = DOMAIN cache \ {p}
    BY <2>1, <2>3, FewerEntries
  <2>5. /\ owner' \in [Owner -> [pc : {"idle", "updated"}, password : Cred]]
        /\ \A q \in Owner : owner'[q].pc = "updated" => owner'[q] = owner[q]
    BY <1>1, <2>1
  <2>6. \A q \in reported' : q \in Password /\ row[q] \in {"revoked", "deleted"}
    BY <1>1, <2>1, <2>2
  <2> HIDE DEF p
  <2>7. QED
    BY <2>1, <2>4, <2>5, <2>6, OtherStep
<1>6. ASSUME NEW o \in Owner, LoseUpdate(o) PROVE IInv'
  <2>1. owner' = [owner EXCEPT ![o] = NoHandler] /\ UNCHANGED <<row, wipe, cache, auth, reported>>
    BY <1>6 DEF LoseUpdate
  <2>2. CacheFinite' /\ CacheBounded'
    BY <1>1, <2>1 DEF CacheFinite, CacheBounded
  <2>3. /\ owner' \in [Owner -> [pc : {"idle", "updated"}, password : Cred]]
        /\ \A q \in Owner : owner'[q].pc = "updated" => owner'[q] = owner[q]
    BY <1>1, <2>1
  <2>4. QED
    BY <1>1, <2>1, <2>2, <2>3, OtherStep
<1>7. QED
  BY <1>2, <1>3, <1>4, <1>5, <1>6

\* Every step preserves the invariant.
LEMMA StepInvariant == IInv /\ [Next]_vars => IInv'
<1> SUFFICES ASSUME IInv, [Next]_vars PROVE IInv'
  OBVIOUS
<1>1. CASE UNCHANGED vars
  BY <1>1 DEF vars, IInv, TypeOK, OwnersKnown, SeenExist, CacheFinite, CacheBounded
<1>2. ASSUME NEW r \in Req,
             (\E k \in Cred : Lookup(r, k)) \/ Select(r) \/ Compare(r) \/ Put(r) \/ Respond(r)
      PROVE  IInv'
  BY <1>2, AuthInvariant
<1>3. ASSUME NEW p \in Password,
             \/ Purge(p) \/ Create(p) \/ WipeSuccess(p)
             \/ \E o \in Owner : Revoke(o, p) \/ Wipe(o, p)
      PROVE  IInv'
  BY <1>3, OwnerInvariant
<1>4. CASE \/ \E k \in Cred : Expire(k)
           \/ Sweep \/ Restart
           \/ \E o \in Owner : Invalidate(o) \/ LoseUpdate(o)
  BY <1>4, CacheInvariant
<1>5. QED
  BY <1>1, <1>2, <1>3, <1>4 DEF Next

-----------------------------------------------------------------------------
\* No step of a request with Basic authentication caches a dead password or accepts
\* it: it is in no fresh entry, is not among the rows read from now on, and nobody
\* has read it before.
LEMMA DeadInRequests ==
    ASSUME IInv, NEW p \in Password, Dead(p), NEW r \in Req,
           (\E k \in Cred : Lookup(r, k)) \/ Select(r) \/ Compare(r) \/ Put(r) \/ Respond(r)
    PROVE  /\ Dead(p)'
           /\ \A q \in Req : auth'[q].cred = p /\ auth'[q].pc = "accepted" => auth[q].pc = "accepted"
<1> DEFINE Auths == [pc : {"idle", "missed", "selected", "matched", "accepted"},
                     cred : Cred, seen : SUBSET Password, late : BOOLEAN]
<1>1. /\ Revoked(p) /\ p \notin Active /\ p # NoRequest.cred
      /\ ~ (p \in DOMAIN cache /\ cache[p] = "fresh")
      /\ auth \in [Req -> Auths]
      /\ \A q \in Req : auth[q].cred = p =>
             auth[q].pc # "matched" /\ (auth[q].pc = "selected" => p \notin auth[q].seen)
  BY AppPasswordAssumption DEF Dead, Revoked, Active, Fresh, MayPut, NoRequest, IInv, TypeOK
<1>2. ASSUME row' = row,
             ~ (p \in DOMAIN cache' /\ cache'[p] = "fresh"),
             \A q \in Req \ {r} : auth'[q] = auth[q],
             auth'[r].cred = p =>
                 /\ auth'[r].pc # "matched"
                 /\ auth'[r].pc = "selected" => p \notin auth'[r].seen
                 /\ auth'[r].pc = "accepted" => auth[r].pc = "accepted"
      PROVE  /\ Dead(p)'
             /\ \A q \in Req : auth'[q].cred = p /\ auth'[q].pc = "accepted"
                                   => auth[q].pc = "accepted"
  <2>1. Revoked(p)' /\ p \notin Fresh'
    BY <1>1, <1>2 DEF Revoked, Fresh
  <2>2. \A q \in Req : ~ MayPut(q, p)'
    BY <1>1, <1>2 DEF MayPut
  <2>3. QED
    BY <1>2, <2>1, <2>2 DEF Dead
<1>3. CASE \E k \in Cred : Lookup(r, k)
  <2>1. PICK k \in Cred : Lookup(r, k)
    BY <1>3
  <2>2. /\ auth'[r].cred = k
        /\ auth'[r].pc = IF k \in DOMAIN cache /\ cache[k] = "fresh" THEN "accepted" ELSE "missed"
        /\ \A q \in Req \ {r} : auth'[q] = auth[q]
        /\ row' = row
    BY <1>1, <2>1 DEF Lookup
  <2>3. ~ (p \in DOMAIN cache' /\ cache'[p] = "fresh")
    BY <1>1, <2>1 DEF Lookup, Restricted
  <2>4. QED
    BY <1>1, <1>2, <2>2, <2>3
<1>4. CASE Select(r)
  <2>1. /\ auth'[r].pc = "selected" /\ auth'[r].seen = Active
        /\ \A q \in Req \ {r} : auth'[q] = auth[q]
        /\ row' = row /\ cache' = cache
    BY <1>1, <1>4 DEF Select
  <2>2. QED
    BY <1>1, <1>2, <2>1
<1>5. CASE Compare(r)
  <2>1. /\ auth[r].pc = "selected" /\ row' = row /\ cache' = cache
        /\ auth' = [auth EXCEPT ![r] = IF auth[r].cred \in auth[r].seen
                                       THEN [auth[r] EXCEPT !.pc = "matched", !.seen = {}]
                                       ELSE NoRequest]
    BY <1>5 DEF Compare
  <2>2. \A q \in Req \ {r} : auth'[q] = auth[q]
    BY <1>1, <2>1
  <2>3. CASE auth[r].cred \in auth[r].seen
    <3>1. auth'[r].cred = auth[r].cred /\ auth[r].cred # p
      BY <1>1, <2>1, <2>3
    <3>2. QED
      BY <1>1, <1>2, <2>1, <2>2, <3>1
  <2>4. CASE auth[r].cred \notin auth[r].seen
    <3>1. auth'[r].cred # p
      BY <1>1, <2>1, <2>4
    <3>2. QED
      BY <1>1, <1>2, <2>1, <2>2, <3>1
  <2>5. QED
    BY <2>3, <2>4
<1>6. CASE Put(r)
  <2>1. /\ auth[r].pc = "matched" /\ row' = row
        /\ cache' = [k \in Kept \cup {auth[r].cred} |->
                         IF k = auth[r].cred THEN "fresh" ELSE cache[k]]
        /\ auth'[r].cred = auth[r].cred
        /\ \A q \in Req \ {r} : auth'[q] = auth[q]
    BY <1>1, <1>6 DEF Put
  <2>2. auth[r].cred # p
    BY <1>1, <2>1
  <2>3. ~ (p \in DOMAIN cache' /\ cache'[p] = "fresh")
    BY <1>1, <2>1, <2>2, KeptHasRoom
  <2>4. QED
    BY <1>2, <2>1, <2>2, <2>3
<1>7. CASE Respond(r)
  <2>1. /\ auth'[r] = NoRequest /\ row' = row /\ cache' = cache
        /\ \A q \in Req \ {r} : auth'[q] = auth[q]
    BY <1>1, <1>7 DEF Respond
  <2>2. QED
    BY <1>1, <1>2, <2>1
<1>8. QED
  BY <1>3, <1>4, <1>5, <1>6, <1>7

\* No other step makes a revoked row active again, an entry fresh or a request go on.
LEMMA DeadElsewhere ==
    ASSUME IInv, NEW p \in Password, Dead(p),
           auth' = auth \/ auth' = [r \in Req |-> NoRequest],
           Revoked(p)', Fresh' \subseteq Fresh
    PROVE  /\ Dead(p)'
           /\ \A q \in Req : auth'[q].cred = p /\ auth'[q].pc = "accepted" => auth[q].pc = "accepted"
<1>1. \A q \in Req : auth'[q] = auth[q] \/ auth'[q].pc = "idle"
  BY DEF NoRequest
<1>2. \A q \in Req : ~ MayPut(q, p)'
  BY <1>1 DEF MayPut, Dead
<1>3. QED
  BY <1>1, <1>2 DEF Dead

\* Every step keeps a dead password dead.
LEMMA DeadStep ==
    ASSUME IInv, [Next]_vars, NEW p \in Password, Dead(p)
    PROVE  /\ Dead(p)'
           /\ \A r \in Req : auth'[r].cred = p /\ auth'[r].pc = "accepted" => auth[r].pc = "accepted"
<1>1. Revoked(p) /\ row \in [Password -> {"none", "active", "revoked", "deleted"}]
  BY DEF Dead, IInv, TypeOK
<1>2. CASE UNCHANGED vars
  <2>1. Revoked(p)' /\ Fresh' = Fresh /\ auth' = auth
    BY <1>1, <1>2 DEF vars, Revoked, Fresh
  <2>2. QED
    BY <2>1, DeadElsewhere
<1>3. ASSUME NEW r \in Req,
             (\E k \in Cred : Lookup(r, k)) \/ Select(r) \/ Compare(r) \/ Put(r) \/ Respond(r)
      PROVE  /\ Dead(p)'
             /\ \A q \in Req : auth'[q].cred = p /\ auth'[q].pc = "accepted"
                                   => auth[q].pc = "accepted"
  BY <1>3, DeadInRequests
<1>4. ASSUME NEW q \in Password,
             \/ Purge(q) \/ Create(q) \/ WipeSuccess(q)
             \/ \E o \in Owner : Revoke(o, q) \/ Wipe(o, q)
      PROVE  Revoked(p)' /\ Fresh' = Fresh /\ auth' = auth
  BY <1>1, <1>4 DEF Purge, Create, WipeSuccess, Revoke, Wipe, Revoked, Fresh
<1>5. ASSUME \/ \E k \in Cred : Expire(k)
             \/ Sweep \/ Restart
             \/ \E o \in Owner : Invalidate(o) \/ LoseUpdate(o)
      PROVE  /\ Revoked(p)' /\ Fresh' \subseteq Fresh
             /\ auth' = auth \/ auth' = [r \in Req |-> NoRequest]
  <2>1. row' = row /\ (auth' = auth \/ auth' = [r \in Req |-> NoRequest])
    BY <1>5 DEF Expire, Sweep, Restart, Invalidate, LoseUpdate
  <2>2. ASSUME NEW k \in Cred, Expire(k) PROVE Fresh' \subseteq Fresh
    BY <2>2 DEF Expire, Fresh, IInv, CacheFinite
  <2>3. ASSUME Sweep PROVE Fresh' \subseteq Fresh
    BY <2>3 DEF Sweep, Fresh, Restricted
  <2>4. ASSUME Restart PROVE Fresh' \subseteq Fresh
    BY <2>4 DEF Restart, NoEntries, Fresh
  <2>5. ASSUME NEW o \in Owner, Invalidate(o) \/ LoseUpdate(o) PROVE Fresh' \subseteq Fresh
    BY <2>5 DEF Invalidate, LoseUpdate, Restricted, Fresh
  <2>6. QED
    BY <1>1, <1>5, <2>1, <2>2, <2>3, <2>4, <2>5 DEF Revoked
<1>6. QED
  BY <1>2, <1>3, <1>4, <1>5, DeadElsewhere DEF Next

-----------------------------------------------------------------------------
\* The inductive invariant holds in every reachable state: what is read, cached and
\* matched was made, and the cache is finite and within its bound.
THEOREM Invariant == Spec => []IInv
<1>1. QED
  BY InitInvariant, StepInvariant, PTL DEF Spec

\* Only passwords that exist are ever cached or matched, and one that is wiped, or
\* reported to its owner as revoked, is revoked.
THEOREM TypeCorrect == Spec => []TypeOK
<1>1. IInv => TypeOK
  BY DEF IInv
<1>2. QED
  BY <1>1, Invariant, PTL

\* evictLocked keeps the credential cache within its maximum for every number of
\* requests that put an entry at the same time.
THEOREM CacheStaysBounded == Spec => []CacheBounded
<1>1. IInv => CacheBounded
  BY DEF IInv
<1>2. QED
  BY <1>1, Invariant, PTL

\* A revoked password that is in no fresh entry, and in no request that read its row
\* before, is never cached again and lets no request in: requests read active rows
\* only, and nothing makes an expired entry fresh.
THEOREM DeadForGood == Spec => DeadStaysDead
<1>1. IInv /\ [Next]_vars
        => [\A p \in Password : Dead(p) =>
              /\ Dead(p)'
              /\ \A r \in Req : auth'[r].cred = p /\ auth'[r].pc = "accepted"
                                    => auth[r].pc = "accepted"]_vars
  BY DeadStep
<1>2. QED
  BY <1>1, Invariant, PTL DEF Spec, DeadStaysDead
=============================================================================
