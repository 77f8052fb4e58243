# A verification project for dwCloud

dwCloud is a small Nextcloud-compatible server: WebDAV over files on disk with their
metadata in PostgreSQL, chunked uploads, app passwords, a login flow for sync clients,
previews. This directory holds TLA+ models of its stateful parts, TLC runs that check
them on small instances, and proofs for every size: of the path locks on which the file
tree rests, of the file tree down to the abstract tree it implements, and of the
services around it.
`PROJECT.json` says which definition models which lines, which runs exist, and which
faulty variant of the code each property catches.

Every module is written from the code (paths below are relative to `src/`). PostgreSQL,
the file system and the clients are external: they are modelled by what the code relies
on.

## 1. Inventory

| Part | State | Operations | Meets |
|---|---|---|---|
| Path locks (`handlers/webdav.go` 122–190) | advisory locks of the database sessions, the connection pool | lock exclusive, lock shared, unlock | every handler that changes the tree |
| File tree (`webdav.go`) | the user's directory, tables `files` and `file_properties`, `.bak`/`.tmp` names | PUT, MKCOL, DELETE, MOVE, COPY, PROPPATCH; GET, HEAD, PROPFIND | path locks, quota (root row), class-2 locks, previews |
| Class-2 locks (`webdav.go` 831–930, 2876–3032) | table `locks` | LOCK, refresh, UNLOCK, checks, janitor | writes of the tree |
| If header (`webdav.go` 503–830) | none | parse, evaluate, extract a token | class-2 locks, ETags |
| App passwords, credential cache (`credcache.go`, `auth.go`, `user_settings.go`) | table `app_passwords`, an in-memory map | authenticate, create, revoke, wipe, confirm the wipe, expire, sweep | every WebDAV request, login flow |
| Login flow v2 (`auth.go` 352–517, 625–722) | one row per flow in `login_v2_sessions` | open, grant page, approve, poll, janitor | browser session, app passwords |
| Sign-in (`auth.go` 764–928) | tables `users`, `files` (root row), storage directory, session | OIDC callback | file tree |
| Previews (`app/preview.go`) | queued ids, `queue.json`, wake-up channel, thumbnails | Enqueue, Get, worker, shutdown, restart | uploads (no lock shared) |
| Chunked uploads (`handlers/upload.go`) | a directory per transfer, `.meta`, chunks | MKCOL, PUT, MOVE, sweep | file tree (publication) |
| Janitor (`main.go` 215–272) | none of its own | deletes flows, locks, old passwords, old uploads | all of these |
| Administration, OCS, pages, configuration | one row at a time, or none | forms and read-only answers | — |

How they interact: a request is authenticated (cache or database), its handler takes one
database connection, path locks on its session, then a transaction on the same
connection; it checks the class-2 locks, the preconditions and the quota in the
transaction, renames files, commits, and gives the locks back. An upload enqueues a
preview after its commit. The janitor runs beside everything with single statements.

What is hard:

* **Interleavings.** Handlers of one user run in parallel goroutines; GET, the preview
  worker and the janitor take no path lock.
* **Two stores.** The disk and the rows change in different steps of one handler.
  Transactions fail, processes die and clients go away in between.
* **Locks that belong to a session.** When the request context is cancelled the driver
  closes the connection and the locks are gone while the handler runs.
* **Stale reads.** A credential is cached after its row was read; a lock is compared
  with the time at which a transaction began; a directory's age is a modification time
  that most writes do not change.
* **Readers without locks.** A sync client remembers what came with an ETag and skips it
  for as long as it is shown that ETag; GET, HEAD and PROPFIND put their answers
  together from several reads of two stores.
* **Paths as keys.** Properties are tied to resources by path alone, and moves, copies
  and replacements rewrite whole subtrees of paths.
* **Retries.** Chunk PUTs and the final MOVE are repeated by clients that gave up on an
  answer while the first handler is still at work.

`PROJECT.json` lists these places line by line under `hazards`, each with the properties
that would catch it going wrong or the reason why there is none.

What makes each part correct:

* path locks: overlapping subtrees excluded, pool clean, everybody served;
* tree: disk and rows agree, sizes add up, quota holds, ETags name states, If-Match
  means what it says, committed content is never lost, properties follow their resource,
  a client that trusts ETags is not misled, and seen from the outside the tree is a map
  with atomic operations;
* class-2 locks: conflicting locks do not coexist, however LOCK requests overlap and wait;
  a lock keeps out who does not present its token, and stays until the request its token
  let through is over (the code keeps the first two up to exceptions that section 3
  names);
* passwords: a revoked password dies and stays dead, the cache is bounded;
* If header: the parser reads what a grammar says, and what that allows beyond RFC 4918;
* login flow: one password, for the user who approved, out of a grant used once;
* sign-in: an administrator exists, accounts are kept, a root row exists;
* previews: never older than its version, the queue survives a kill between a change and
  its save, previews are made;
* uploads: a chunk at rest is complete, a failed MOVE costs nothing, no leak.

## 2. Modules

```
DavPaths ── paths as sequences of components: Parents, Descendant, Overlap
TreeLock ── abstract: subtrees are entered atomically and exclusively
   ├── AdvisoryLocks  implements TreeLock  ── AdvisoryLocksProofs, MCAdvisoryLocks
   └── DavTree        uses TreeLock for its critical sections ── DavTreeProofs, DavRowsProofs
          ├── implements FileTree ── abstract: a tree with atomic operations
          └── DavReads  adds readers and their clients ── MCDavTree
ResourceLocks ── abstract: locks on resources, granted in one step
   └── WebDavLocks    implements it, reads headers by IfHeader ── WebDavLocksProofs, MCWebDavLocks
AppPasswords                    ── AppPasswordsProofs, MCAppPasswords
OneShotGrant ── abstract: one user asked, one password
   └── LoginFlow      implements it ── AuthProofs, MCLoginFlow
SignIn                          ── AuthProofs,         MCSignIn
PreviewQueue                    ── PreviewQueueProofs, MCPreviewQueue
ChunkUpload                     ── ChunkUploadProofs,  MCChunkUpload
```

`TreeLock` is the abstract specification that joins the two halves of the file tree:
`AdvisoryLocks` shows that the lock-by-lock protocol implements it
(`ImplementsTreeLock`, checked and proved), `DavTree` uses it instead of the protocol,
which makes the state space of the file operations affordable. `TreeLock` excludes
handlers that still have their session. `DavTree` keeps this: a request whose session is
lost (`alive = FALSE`) leaves `inside` at once and goes on with its disk steps.

### AdvisoryLocks
One record per handler: `status` (idle, locking, inside, leaving, adrift), `targets`,
and for its session `held`, `want`, `ahead`. `RequestLock`/`Grant` are one
`pg_advisory_lock` call: queued behind earlier waiters that conflict, granted when
nothing conflicting is held. `Exclusives` and `Shareds` are the two slices handlers pass
to `lockDAVSessionLocks`: the targets, and all proper ancestors. `Unlock` gives locks
back in the code's order. `SessionLost` ends a session at any point, `DeadlockAbort` and
`MoveUp` are PostgreSQL's detector (abort, or reorder the queue), `FinishAdrift` is the
rest of a handler whose session has ended.

### DavTree
`fs` maps names to contents (or `Dir`), `rows` is table `files`: id, version, size,
content; `props` is table `file_properties` with one property per resource, which
PROPPATCH sets or removes. A request goes through `waiting`, `checking`, `saving`
(backup), `placing` (rename, mkdir, copy), `committing`, `cleaning` or `undoing`. Each
file system call or group of calls whose order nobody can observe is one action; all
statements of a transaction take effect at its commit, because the rows are locked until
then. `rootRow` is the `FOR UPDATE` of the quota check. Backup and temporary names are
extra names beside the target, as in the code, so that moving a directory takes other
requests' temporary files along; `Plain` is the set of all other names (components 0 to
9), for which requests are made and which the rows list. PROPPATCH touches neither disk
nor `files`: its statements meet the deferred foreign key at the commit (`Patched`). The
other requests take properties along (`NewProps`) by the cascading deletion, the two
UPDATEs of MOVE and the INSERT of COPY. Four kinds of fault: `tx` (a statement or the commit fails),
`session` (the connection dies under the handler), `reply` (the commit took effect and
its answer is lost), `crash`. `faults` is the set of kinds a behaviour may meet; it is
chosen from `FaultSets` in the initial state, so that one run covers several worlds and
each property says in which of them it holds:

| Property | Faults under which it holds |
|---|---|
| `QuotaRespected`, `NoLostUpdate` | all four |
| `CommittedContentKept`, `ETagsNameStates`, `RowsBacked`, `PropertiesFollow`, listings in `ClientInSync` | `tx`, `crash` (no session is lost, no commit's answer is lost) |
| `SizesAddUp`, `DiskListed`, `ImplementsFileTree`, downloads in `ClientInSync` | none: a failed or killed request may leave files behind |

What goes wrong in the other worlds (sizes after a failed MKCOL, rows after a lost
session) is in section 3.

`FileTree` is what all this promises: a map from names to contents in which a request is
one step. The refinement mapping is what the database lists (`Listed`); the disk,
versions, sizes, transactions and locks disappear, and `DiskListed`, `RowsBacked` say
where the disk is the same tree.

### DavReads
Readers beside `DavTree`. GET and HEAD look at the file, read its row, and GET opens the
file: three steps (`StatFile`, `ReadRow`, `Serve`). PROPFIND reads the collection's row
and then all rows below it (`ListSelf`, `ListBelow`). None of them takes a lock. A
client keeps each answer with its ETag (`known`) and believes it until it sees another
ETag for that name: what sync clients do. `ClientInSync` is about what it then believes,
not about a single answer, since an answer in the middle of a change may be wrong as
long as its ETag goes away.

### WebDavLocks
`locks` is the table; a LOCK request begins its transaction (`began`, what `NOW()` will
return), waits for the table lock, then refreshes, creates or is denied. A write checks
with `FOR UPDATE` (the rows it has seen may not change before it ends) and commits.
`PUT` stands for PROPPATCH too: both check one path. `MKCOL` and `ASSEMBLE` (the MOVE of
a chunked upload) check nothing, as in the code. Time passes whatever a request waits
for: a LOCK that gets the table late still judges it as of `began`. So a refresh may bring
back a lock that has run out meanwhile, and been replaced; `revived` records such locks,
without influence on any step. A request's If header is one of eight
`Forms`: none, one token, two lists of one token each, one list of two, a token behind
`Not`, an ETag, a tagged list, one that cannot be parsed. The path locks are left out:
they only forbid interleavings that are allowed here. COPY and MOVE check their
destination with `checkLockTx`, which looks at locks that cover it, not at locked
members below.

`ResourceLocks` is what a LOCK is for: locks protect resources (`Protects`), two of them
exclude each other when they protect a common one and are not both shared, and a lock is
granted in one step, against all that are in force then. The refinement mapping is
`InForce`: the rows that have not run out and were not `revived`, without their time.
Requests, table lock, row locks and changes disappear; a lock that runs out, is given back
or cleared away, or is refreshed to a time that has passed, is `End`. Any other refresh
stutters, a late one too: the promise does not extend to what it brings back. The code's query compares nothing but the paths of two locks
(`Conflicts`), with the table as it was when the transaction began.

### IfHeader
The parser of the code is an automaton over lexemes (`Step`, `Parse`). Beside it stands
a grammar place by place: which lexeme may stand where (`Grammar`), which list a place
belongs to, which tag a list has (`Lists`). What the code accepts is `WellFormed`: it takes
a bare word for a state token, as `parseDAVIfCondition` does, and empty brackets. What
RFC 4918 (section 10.4.2) allows is `Standard`: `<Coded-URL>` and `[entity-tag]` only.
`ParserAgrees` in `MCWebDavLocks` compares parser and grammars for all headers of up to
six lexemes, a `Stray` bracket among them; `ParserFollowsGrammar` proves that they agree on
every header, and that `Standard` headers are exactly the accepted ones without bare words
and empty brackets. `Allows` is the
evaluation, `Applies` the rule for tagged lists, `Mentioned` and `IsFirst` the short cut
`extractLockToken`, by which DELETE and MOVE look at members of a collection.

### AppPasswords
A request looks in the cache, selects active rows, compares, puts its entry, answers:
five steps. Revocation and wipe are an UPDATE and an invalidation; the result of the
UPDATE may be lost (`LoseUpdate`). An entry goes from fresh to expired; `Sweep`,
`Select`'s look-up and eviction drop expired entries. `MaxWipes` bounds how often a wipe
is asked for.

### LoginFlow
One flow: its row, polls and grants that read it `FOR UPDATE`, the address that draws a
new state token with one UPDATE, the janitor. Failed transactions and lost answers are
faults. `OneShotGrant` is the promise: one user is asked, that user agrees, and at most
one password of that user comes out. The mapping reads the stage off the row and the
passwords issued.

### SignIn
Each statement of `AuthCallbackHandler` is a step: count the users, look for a free
name, upsert, make the directory, insert the root row, save the session. Each may fail;
what the earlier ones did stays, the directory apart.

### PreviewQueue
The queue in memory and in `queue.json`, the wake-up token, the worker's place, uploads
as two steps (disk, then row). A request that has committed, or has found no thumbnail, is
`asking`; it changes the queue (`Enqueue`) and saves it (`SaveAdded`) in two steps, and so
do `complete` and `fail` (`Dequeue`, `SaveRest`). `Free` says that nobody is between the
two, where the code holds `s.mu`. Faults, chosen from `FaultSets` as in DavTree: `save`
(queue.json cannot be written), `stop` (shutdown), `kill` (the process ends at any point,
in particular between a change and its save), `database`, `tool`. The process starts
again under `stop` and `kill`, with what queue.json lists.
`QueueSaved` is claimed where `save` is not among them, `PreviewMade` where `database`
and `tool` are not, `ThumbNotOlder` always.

### ChunkUpload
The session directory with `.meta` and chunks as sets of blocks, so that a truncated,
half-written or holed chunk can be told apart. A PUT writes its blocks one by one, to a
chunk that others may have emptied or removed meanwhile. Two handlers work at once, a
client's retry included; the janitor removes the directory in two steps, contents and
then the directory itself.

### Faulty variants
Next to some definitions stands a variant marked `faulty variant`: the same operator as
a plausible mistake in the code would have it. No specification uses them. Put in the
place of the definition beside them, each makes the property named in `PROJECT.json`
(`mutants`) fail, so that every property is known to depend on the code it is about.

## 3. Runs

All runs are exhaustive. `MC*.tla` hold the instances, one `.cfg` per run.

| Run | Shows | Instance |
|---|---|---|
| `locks` | `SubtreeExclusion`, `NoStrayLocks`, `DeadlockNeedsPair`, `ImplementsTreeLock`, `RequestsServed` | 3 handlers, a tree of depth 3, two crossing MOVEs, a DELETE and a PUT; one session may be lost |
| `tree` | `SizesAddUp`, `DiskListed`, `RowsBacked`, `CommittedContentKept`, `ClientInSync`, `QuotaRespected`, `ETagsNameStates`, `NoLostUpdate`, `PropertiesFollow`, `ImplementsFileTree` | any 2 requests (reads included) on two start trees, 2 handlers, 1 client, quota 2; no fault, failing transactions with crashes, all faults |
| `passwords` | `DeadStaysDead`, `RevocationTakesHold` | 2 passwords, 2 clients, an owner, a cache for one credential |
| `previews` | `ThumbNotOlder`, `QueueSaved`, `PreviewMade` | 2 files with 2 and 1 uploads, 2 starts; three sets of faults |
| `davlocks` | `LockedOut`, `TokenHeld`, `ImplementsResourceLocks` | 3 LOCK requests, 2 at a time, 2 tokens, 1 write, 4 paths, four forms of If header, clock to 2 |
| `login` | `ConsumedOnce`, `IssuedAsApproved`, `ApprovedIsServed`, `ImplementsGrant` | 2 users, 3 requests, 2 visits, 1 fault |
| `uploads` | `MissingIsComing`, `SessionKept`, `NoLeak` | 2 chunks, 2 handlers, 6 requests, no checksum |
| `signin` | `AdminExists`, `AccountsKept` | 2 people, 3 sign-ins, 3 names, 1 fault |

Each of them also checks its module's `TypeOK`.

Four runs end in a violation. Each sets a sentence of the repository against the code
(`findings` quotes it):

| Run | The code does | The text says |
|---|---|---|
| `tree_orphan` | a failed MKCOL leaves its directory; sizes miss what is below | "already tracks the full subtree" |
| `passwords_now` | a late request caches the revoked credential | "stops working now" |
| `preview_shutdown` | a cancelled query counts as a missing file | "leave the file queued" |
| `signin_admin` | two first users, two admins | "only the first user will be an admin" |

### Further divergences

These configurations end in a violation too. They are kept beside the others and
reproduced with `tlc -config X.cfg M`:

| Configuration, module | Violated | The code does | Measured against |
|---|---|---|---|
| `locks_deadlock`, `MCAdvisoryLocks` | `NoDeadlock` | exclusive locks before shared ones: a circle of waits, which PostgreSQL ends by failing a request | "sort paths to avoid deadlocks" (`handlers/webdav.go`) |
| `locks_adrift`, `MCAdvisoryLocks` | `HandlersExcluded` | works on after its session, and with it its lock, is gone | "must be called with the advisory lock on relCanon already held" |
| `tree_adrift`, `MCDavTree` | `RowsAlwaysBacked` | the undo of such a request removes another's committed file | "so we can restore on failure" |
| `tree_reads`, `MCDavTree` | `ServedMatchesETag` | GET takes no path lock: new content under the ETag that was current before | "atomically publishes" |
| `tree_head`, `MCDavTree` | `HeadInSync` | HEAD takes the length before it reads the row: an old length under the new ETag, for good | what a client may conclude from an ETag |
| `tree_moved`, `MCDavTree` | `EveryListingRight` | PROPFIND's two statements see a collection before and after it is moved away: an empty listing under an ETag that is valid again once it is moved back | the same |
| `tree_overdrawn`, `MCDavTree` | `TotalWithinQuota` | the bytes a directory without a row has lost come back to its ancestors when it is deleted: the total ends above the quota, with no request at work | "already tracks the full subtree" |
| `davlocks_stale`, `MCWebDavLocks` | `LocksAlwaysCompatible` | a refresh revives a lock that ran out while it waited for the table, and that another LOCK has taken for gone | "Refresh existing lock if If header contains a valid token" |
| `davlocks_revived`, `MCWebDavLocks` | `LockedOutAlways` | the revived exclusive lock and its replacement both stand, and a PUT with the token of one of them passes | class 2: an exclusive lock keeps out who does not present its token |
| `davlocks_negated`, `MCWebDavLocks` | `LockedOutUnlessAsserted` | `extractLockToken` takes a token behind `Not` for one presented, and a DELETE of the collection removes the locked member | the parser of the same header, for which `Not` denies a condition (`davIfNotToken`) |
| `davlocks_unchecked`, `MCWebDavLocks` | `LockedOutOfAll` | MKCOL and the MOVE of a chunked upload ignore locks | class 2, and its test |
| `upload_holes`, `MCChunkUpload` | `PublishedWhole` | without a checksum only sizes are compared: a PUT the client has given up empties a chunk while its retry writes it, and a chunk of the right length with a hole is published | "assembled upload size does not match OC-Total-Length": the test that is to find broken transfers |
| `upload_swept`, `MCChunkUpload` | `OnlyStaleSwept` | the age of a session is its directory's modification time, which writing an existing chunk again does not change | "not been touched within maxAge" |

### Bounds, and why they are enough
* Two handlers are what a race on one resource takes; three show queues (a waiter that
  overtakes, a circle through a third).  Trees have depth 2 or 3: the code treats all
  ancestors alike, and depth 3 has an ancestor that is neither the root nor the parent.
  For any number and depth, see the proofs.
* `locks` has requests whose targets nest and cross in every way the code tells apart:
  parent and child, ancestor with a path between, siblings, both paths of a MOVE under
  and above those of another. All sets of targets with three handlers are more than TLC
  finishes; the proofs cover them.
* `MaxOps = 2` requests (`tree_orphan`: 3): each property of the tree relates a handler
  with at most one other; a sequence of requests is covered because the start trees and
  the states after two requests have the same shape. Reads count as requests, so that a
  client reads once beside a change, or reads and sees what a change makes of its
  answer. Longer sequences are not checked (`tree_moved` and `tree_overdrawn` show what
  they would add). Quota 2 with files of 0, 1 and 2 bytes lets one upload fit, the other
  not, and both together not.
* Time is a clock to 2 (`MaxTime`), or "fresh/expired", or an age to `MaxAge + 1`: the
  code only compares.
* `ClientInSync` speaks of steady answers: when the answer is sent the name still has
  the row whose ETag it carries. `tree_moved` shows the other case.
* `davlocks` has three LOCK requests (`MaxAsked`), which is what a late refresh takes: one
  that creates the lock, one that refreshes it, and between the two one that replaces it.
  Its headers are none, one token, a list of two and a token behind `Not`; the other four
  forms are in `davlocks_negated` and `davlocks_unchecked`, and in the proofs.
* `LockedOut` states its three conditions itself: the change is of a kind that looks at
  locks, a DELETE or MOVE may present a token behind a `Not`, and neither the lock nor the
  one whose token is presented is `revived`. Each of `davlocks_unchecked`,
  `davlocks_negated` and `davlocks_revived` drops one of them and fails.
* `ParserAgrees` stops at six lexemes: a tagged list of a condition and a negated one is
  that long, and two lists take six.
* `previews`: the first file is uploaded twice, so that an upload can race the worker on
  the version before, the other once; two files are what a save that lists one and not
  the other takes. `save` and `kill` meet in one world, `stop` is one of its own, and
  `database` and `tool` are beside `kill` in the third; other combinations are left to the
  proofs of the two safety properties.
* `passwords` has one wipe and a cache of one entry, so that two passwords evict one
  another. `MaxFaults = 1` in `login`, `MaxFailures = 1` in `signin`: one failure, in
  every place where a statement can fail.
* `uploads` sends no checksum: with one, `PublishedWhole` is what MOVE tests before it
  publishes; without one, `MissingIsComing` is all there is to rely on. Six requests are
  an MKCOL, two chunks, a MOVE, and two retries of any of them.
* One user: every key of tables and locks contains the user's id.

### Fairness
* AdvisoryLocks: a handler with a connection runs on (Go schedules it), a lock that can
  be granted is granted, the deadlock detector runs (PostgreSQL). Nobody has to connect.
  No session has to be lost.
* AppPasswords: requests in progress go on, entries expire. Nobody has to send or
  revoke.
* PreviewQueue: the worker runs, its 30-second timer fires (`Timeout`), and so does who
  holds the mutex; strong fairness of picking each file, since a Go map is iterated from a
  random place, and of getting the mutex, since Go's hands itself to one that has waited
  long; the client asks again, as file lists do; an upload ends.
* LoginFlow: the client polls, requests end, the row is granted in order; faults are
  finitely many.
* ChunkUpload: handlers run on, time passes, the janitor comes round.

DavTree, WebDavLocks and SignIn state no liveness: their requests end, or wait for a
lock whose queue is AdvisoryLocks' or PostgreSQL's.

Deadlock checking is on in every run: some step (another request, another tick, or
stuttering of a finished system, spelled out as an action where the bounds stop
everything) is always possible.

## 4. Proofs

Each proof module proves, for every value of the constants of the module it is about,
`Invariant` (`Spec => []IInv`: it holds at first, and no step breaks it), `TypeCorrect`
(`Spec => []TypeOK`), and these:

| Module | Theorem | Statement |
|---|---|---|
| `AdvisoryLocksProofs` | `MutualExclusion` | `Spec => []SubtreeExclusion` |
| | `PoolIsClean` | `Spec => []NoStrayLocks` |
| | `RefinesTreeLock` | `Spec => ImplementsTreeLock` |
| | `DeadlockTakesPair` | `Spec => []DeadlockNeedsPair` |
| `WebDavLocksProofs` | `TokensHeld` | `Spec => []TokenHeld` |
| | `LocksStayCompatible` | `Spec => []LocksCompatible`: late refreshes are the only way to a conflict |
| | `StandingLocksKeepOut` | `Spec => []LockedOut` |
| | `ResourceLocksImplemented` | `Spec => ImplementsResourceLocks` |
| | `ParserFollowsGrammar` | for every header, `Parse` accepts it exactly if it is `WellFormed`, and then has read `Lists`; it is `Standard` exactly if `Parse` accepts it and it is `Bracketed` |
| | `ChecksUseTheParser` | `Passes`, which a check asks for, is what the parsed lists allow |
| `DavTreeProofs` | `NoLostUpdateHolds` | `Spec => NoLostUpdate` |
| | `QuotaHolds` | `Spec => QuotaRespected` |
| | `RowsStayBacked` | `Spec => []SInv`: where the content of every row is |
| | `ListedIsOnDisk` | `Spec => []RowsBacked` |
| | `NoContentLost` | `Spec => []CommittedContentKept` |
| | `EverythingListed` | `Spec => []NInv`: the rows know all that is on disk |
| | `DiskIsListed` | `Spec => []DiskListed` |
| | `TreeImplemented` | `Spec => ImplementsFileTree` |
| `DavRowsProofs` | `IdsStayApart` | `Spec => []IdInv`: no two resources ever get the same id |
| | `ETagsHold` | `Spec => ETagsNameStates` |
| | `PropertiesStay` | `Spec => PropertiesFollow` |
| | `SizesStayTrue` | `Spec => []SizesAddUp` |
| | `InvariantsBesideReads` | `ReadsSpec =>` the five invariants of the tree |
| | `StepsBesideReads` | `ReadsSpec =>` the four action properties and `ImplementsFileTree` |
| | `ClientsKept` | `ReadsSpec => []ClientInv`: what a client has learnt stays right |
| | `ClientsStayInSync` | `ReadsSpec => []ClientInSync` |
| `AppPasswordsProofs` | `CacheStaysBounded` | `Spec => []CacheBounded` |
| | `DeadForGood` | `Spec => DeadStaysDead` |
| `AuthProofs` | `OnePassword` | `Spec => []ConsumedOnce` |
| | `PasswordOfApprover` | `Spec => []IssuedAsApproved` |
| | `OneAsked` | `Spec => []OneUserAsked` |
| | `FlowImplementsGrant` | `Spec => ImplementsGrant` |
| | `SomeAdmin` | `Spec => []AdminExists` |
| | `RootBeforeSession` | `Spec => []SignedInHasRoot` |
| | `AccountsUnchanged` | `Spec => AccountsKept` |
| `PreviewQueueProofs` | `ThumbnailsNotOlder` | `Spec => []ThumbNotOlder` |
| | `NothingQueuedIsLost` | `Spec => []QueueSaved` |
| `ChunkUploadProofs` | `ChunksComplete` | `Spec => []MissingIsComing` |
| | `ChunksAtRestAreWhole` | `Spec => []AtRestWhole` |
| | `FailedMoveKeepsSession` | `Spec => SessionKept` |

The assumptions are the named ones of the modules, which TLC evaluates in every run: the
sentinels (`NoUser`, `NoToken`, `Wrong`, ...) are not members of the sets they extend,
bounds are natural numbers, a cache has room for one entry at least. The sets of
requests, users, files and passwords are arbitrary, infinite ones included.

**Path locks.** Any set `Req`, any set of `Path`s closed under parents, all target sets
`Work` (non-empty sets of paths), any numbering `Rank` of the paths that is injective
and puts an ancestor before its descendants, which string order does (`WorkAssumption`,
`RankAssumption`, `PathAssumption`). `SubtreeExclusion` speaks of targets and is not
inductive: that two handlers are inside says nothing of how they got there. `IInv` adds
that the lock table has no conflicts (`LocksExclude`), that a handler inside holds
everything it needed (`InsideHolds`), that targets come from `Work`, that a handler
without a session holds nothing, and that only waiters are in queues. The step from
locks to paths is the lemma `OverlapConflicts`: if two targets overlap, one is the other
or an ancestor of it, and the exclusive lock of one conflicts with an exclusive or
shared lock the other needs. The only action that can endanger `LocksExclude` is
`Grant`, whose guard is PostgreSQL's conflict test. The refinement maps `inside` to the
targets of handlers in status `inside`: `Enter` is `TreeLock`'s `Enter` by
`SubtreeExclusion` in the next state, leaving by any way (`Finish`, `SessionLost`) is
`Leave`, all else stutters.

`DeadlockTakesPair` says that a circle of waits takes a request with two targets (MOVE,
COPY). A request locks its targets before their ancestors, so one with a single target
waits for that target holding nothing, and nobody waits for it; or it waits for an
ancestor, holding its target and perhaps other ancestors, and whoever it waits for
holds that ancestor exclusively, as a target (`ExclusivesFirst` is the invariant behind
it: shared locks are taken when all exclusive ones are held). So in a circle of requests
with one target each every wait leads from a target to one strictly above it, and a
circle of such steps does not exist.

**Class-2 locks.** `TokenHeld` rests on `RowsStay`: what a check has read `FOR UPDATE`
nobody deletes. `LocksCompatible` is about this moment, while a LOCK decides by the time
at which its transaction began, and may have waited for the table ever since. It is
inductive all the same (`CInv`), because time only takes locks out of force: what is in
force now was in force at that earlier time (`ActiveEarlier`), so that a new lock has been
compared with more locks than it needs to be (`CreateCompatible`). Waiting makes LOCK
refuse too much, never too little. The exception is a refresh, which compares with
nothing; one that comes in time changes nothing (`RefreshCompatible`), and one that comes
late brings back a lock others have taken for gone. The theorem says that there is no
other way; `davlocks_stale` shows that this one exists.

`StandingLocksKeepOut` has no assumption but those of the constants; its three conditions
are part of `LockedOut`. A change judges the table as of the time at which it began, and
the table moves on meanwhile. `Covered` is the heart of the invariant (`KInv`): a lock
that stood at that time and still stands (`Left`) is either what some check to come will
find, or has been answered with its token, or with that of a lock that is `revived`.
Around it: a request knows only tokens drawn before it began (`Known`), no step brings a
lock into force that it knows of without marking it (`RefreshBack`, `CreateBack`,
`OthersBack`), and a lock that stands gets on with the locks whose tokens the request has
(`GetOn`), for which `LocksCompatible` is needed when it begins: a shared lock answered by
another shared lock's token is not an exclusive one.

`ResourceLocksImplemented` is about single steps. Two facts make a step that creates a
lock a `Grant` (`OneGranted`): its token is in no row, so that it replaces nothing, and
after it no two locks in force are in conflict (`LocksCompatible` in the next state).
`BothCover` leads from paths to resources: if two locks protect one resource, one of
them covers the path of the other, because two ancestors of a path are one above the
other. A refresh changes the time of a lock and nothing else a client knows of it; it
finds the lock in force, or marks it. So no step but a creation brings a lock into force,
and every other step at most ends some (`NoneGranted`, `SomeEnd`).

**If header.** `ParserFollowsGrammar` (in `WebDavLocksProofs`) is about data: an
automaton that reads a header lexeme by lexeme, and a grammar that says of each place,
looking back and forward, what may stand there. `Follows(s, raw, n)` ties them together:
the automaton that has read n places is in the place's state, with the negation, the
open conditions and the lists that the grammar finds in the first n places; or it is in
`bad`, and some place so far is not as it may be. `FollowsOn` is one step, one case for
each kind of lexeme. The step from n to all n is not the library's induction, which
cannot be instantiated, but a smallest place that refutes the claim (`SmallestNumber`),
and the run of the automaton itself is built in the same way (`RunExists`), since
`Parse` is a recursive function. The grammar that `Parse` follows is wider than the
RFC's. The theorem says by how much: `Standard` is stated by itself, with coded URLs and
bracketed entity tags for conditions, and `StandardBracketed` shows that what the code
accepts beyond it has a bare word or an empty bracket somewhere.

**File tree.** `NoLostUpdate` and `QuotaRespected` have the same shape: what a request
has compared in its transaction must still be so when it commits, while others commit.
Three things keep it: paths of handlers at work are apart (`TreeLock`'s exclusion), the
transaction of another request changes rows at and below its own paths and adds to rows
above them but leaves the rest alone (`ApplyEffect`, one case for each kind of request),
and the root row is locked from the quota check on. `IInv` says of every handler between
its checks and its commit: the row is there with the version If-Match named (`TagHeld`);
what it will add, counted anew from the rows at its paths, still fits, and the root row
is its own (`QuotaHeld`). Bytes are sums over finite sets of rows, while the code
changes sizes by differences. Facts about such sums are proved by choosing a set with as
few members as possible on which they fail (`SmallestSet`), because the induction
theorems of the library cannot be instantiated. Faults need nothing of their own: a lost
session gives up locks and root row together with the transaction. The theorems are
about `DavTree`'s `Spec`; for the system with its readers see below.

`TypeCorrect` is about trees: `Types` says that the disk is one. Three lemmas carry it
through every action and every undo: taking a branch away (`RemovedTree`), renaming a
branch (`MovedTree`), adding entries whose directories are there (`AddedTree`). What a
rename needs the code gets from the operating system
(`CanRename`): the parent exists, and nothing is moved below itself.

`ListedIsOnDisk` and `NoContentLost` are two readings of `SInv`, which holds while
sessions are kept. In the middle of a request a row's content is not where the row says:
`Spot` says where, in the backup of what is being replaced, under the new name of what
is being moved, or at its own path. `Backed`: it is there. `Fit` is what a request past
its checks may rely on: what it replaces is aside or absent, what it placed is there and
is what its transaction will list (`DiskFits`), and the rows at its paths are those it
read (`RowsFit`). The argument of every step is the same: it touches the disk at and
below its own names only (`Region`: source, target, backup, temporary file), these are
apart from what other requests at work concern themselves with (`OwnApart`,
`OneConcern`), and of its own rows each is where `Spot` says afterwards. That names are
apart takes three facts. Paths of two requests are apart because of the locks. Names of
backups and temporary files are no `Plain` names, and none is another's, since each
request has its own number (`Numbers`). And nothing plain is below a backup's name that
is not the backup. An undo is the argument backwards: what is aside goes back, what was
placed goes away (`Undone`). After a crash nothing is claimed but that the contents are
somewhere (`Stopped`).

`EverythingListed` is the converse and needs more: a file may be on disk and not in the
rows, if a request at work has just placed it. `Told` says that this is the only reason;
`Owned`, that a backup belongs to a request at work; `AllReady`, that without faults no
request past its checks can fail, so that nothing has to be undone (a failed MKCOL is
not, see `tree_orphan`). These hold together or not at all: a COPY can place its
entries because their directories exist, which is so because the rows are a tree, which
is so because the rows and the disk agree where it works.

`TreeImplemented` follows. Nothing but a commit changes `Listed`, and what a commit
makes of it (`PutChanges`, `MkcolChanges`, `DeleteChanges`, `MoveChanges`,
`CopyChanges`) is what the abstract operation makes of it, name by name. The guards of
the abstract operations are where `NInv` is needed: the parent of the target is listed
as a collection, a PUT does not replace one, MKCOL finds nothing, the source of a COPY
is in the rows.

`ETagsHold` and `PropertiesStay` (in `DavRowsProofs`) ask of every row after a commit
which row it was before. `Changes` answers for each kind of request, in three parts.
Rows apart from its paths stay (`SameApart`). Collections above them get another
version, whether the request adds 0 bytes or many, also when two sums pass over the same
row, as a MOVE's do (`Raised`). At the target there are fresh rows, the rows that were
at the source, or the row of a file with another version (`Leaves`). Ids are never used
twice (`Identified`: each has the number of the transaction that made it), so `Origin`
says that every row has a fresh id or comes from exactly one row (`OldInjective`), and
what it means when the version is still the same: same content, and either nothing has
happened at or below it, or it has been moved with all that is below. For a file there
is nothing below because the rows above a row are collections (`DirsAbove`). This
follows from the disk being a tree on which every row is at its `Spot`: no statement or
constraint of the database says so. Properties have no ids, and follow all the same: the
foreign key takes away those of rows that go, `MOVE` renames them by the same pattern as
the rows, `COPY` copies them to paths it has cleared, and a path with a fresh row had
none (`FreshIsNew`).

`SizesStayTrue` is about sums. Sums over finite sets are one function of the subsets
(`SumOf`), and what cannot be proved by induction on the set is proved by looking at a
smallest set that refutes it (`SumWithout`, `SumSplit`, `SumMapped`). From these: a change at
and below a path changes the sum at every path above by the same (`BytesAbove`), and
branches that have the same names, contents and sizes weigh the same (`BytesAlike`,
`AlikeSized`). `Owing(R, s, x, d, y)` says of rows in the middle of a transaction that the sizes
would be right if x were added above s and y above d, and `BumpedPays` that
`updateAncestorSizes` pays one of the two. Every handler then leaves what it pays
(`ChangeOwes`, for a MOVE `CarriedOwes`): PUT the difference of the old file and the new,
DELETE minus what was there, MOVE and COPY first minus what they replace (`ClearedSized`) and then
what they carry; a MOVE within one collection pays nothing, because what is above its
source is above its target. The deltas are sizes in rows, not sums, so each of these
lemmas needs the sizes to be right before (`SizeIsBytes`); and the one row that a MOVE or
COPY of a file takes is all that is at its source because the rows are a tree that no
failing step has torn (`EverythingListed`).

**Readers.** The runs check the tree beside its readers (`ReadsSpec`), in which the
number of requests counts reads as well, so that the theorems about `Spec` do not speak
of it as they stand. A step of `ReadsNext` is a step of `DavTree` or a `ReadStep`, which
changes that number only; everything proved above is an invariant (`ServerInv`) that a
`ReadStep` keeps. From it `InvariantsBesideReads` and `StepsBesideReads` follow with
the lemmas about steps that the theorems about `Spec` rest on.

`ClientInSync` is about now, and what makes it true is what happened between the two
looks of a read and ever since. Its inductive form `ClientInv` says of every steady
answer that it is `Trusted`: it is right for *every* row that has its ETag, wherever a
MOVE has taken it. Three facts make a step keep that. An ETag that has been `Seen`
cannot be new: its id is not one to come, and the version of the row with that id never
goes below the one seen (`StepSeen`), so that a row which has it after a commit had it
before, with the same content and the same listing (`StepNames`, from the lemma behind
`ETagsHold`). A listing read under an id that the row still has when it is read was the
listing at both looks if the ETag is the same later. A download needs one more case: the
file may already be a request's new one while the row is still the old (`Pending`);
`ServedContent` says that this is the only way in which disk and row of a file can
differ without faults. A pending request renews the ETag of every row at its target when
it commits (`TargetRenewed`), cannot do anything else (`StaysCommitting`), and no other
request can carry the row away meanwhile (`WorkersApart`). So at a path where nobody is
at work an answer with the ETag of the row has the content of the row. With a fault the
request could be undone, and the answer that was served from its file would be wrong
under an ETag that lives on: downloads are claimed for `faults = {}` only.

**App passwords.** The bound counts the entries of a function, so `IInv` has to say that
its domain is finite (`CacheFinite`); `KeptHasRoom` is the argument that eviction makes
room for exactly one. `DeadForGood` goes through `DeadStep`: a dead password's row is
never selected again (`Select` reads active rows), a request without it among the rows
it has read cannot match it, and only a match is put in the cache.

**Login flow.** The three properties are about pages, forms and passwords, and are tied
together by the row. `OneHolds` says that the transaction that has the row has read what
it still is; `RowBound` that, as long as the row is there, nobody has a password,
everybody who saw a page is the row's user, and only that user has approved. Deleting
the row and issuing the password are one commit. The refinement follows: a visit that
binds the row is `Ask`, an approval `Agree`, the commit of a poll `Issue`, the janitor's
deletion `Withdraw`, everything else stutters.

**Sign-in.** `AdminExists` is not inductive: the sign-in that inserts the first row
chose its role two statements earlier. `FirstIsAdmin` says that while there is no row
every sign-in past the count has chosen `admin`. (It shows, too, why two of them may
both become one.) `RootBeforeSession` needs `CallbacksKnown`: a sign-in that is about to
save its session has inserted the root row, or found it there. The row and the session are
two steps, each of which may fail, and nothing takes a root row away.

**Previews.** `ThumbNotOlder` needs to know where a file is with respect to its row
(`TypeOK`, `DiskNear`: if it is there, not behind the committed version) and that the
version the worker holds was committed when it read it (`ReadCommitted`). `QueueSaved` is
inductive beside the types: a process may be killed between a change of the queue and its
save, and the property says what queue.json then lacks (a file that is being added, whose
request has not been answered) or has in excess (the one the worker is done with). The
mutex makes this so: with two changes in that window the file could lack anything.

**Chunked uploads.** `MissingIsComing` is almost inductive: a PUT that empties a chunk
is at its first block from then on, one that writes a block moves past it, and one that
fails removes the whole chunk by name, its own or not, and unlinks everybody else who
writes to it. `IInv` adds what these steps take for granted: only a PUT that has opened
its chunk writes to it, and begins with block 1 (`HandlerOK`), and who writes to a chunk
finds it in the directory (`ChunksOK`). For `SessionKept` it adds that a MOVE that
cleans up has published. `ChunksAtRestAreWhole` is what a client that waits for its
answers can rely on: a chunk nobody is writing is the client's, whatever went on before.

Only model-checked: all liveness (`RequestsServed`, `RevocationTakesHold`,
`PreviewMade`, `ApprovedIsServed`, `NoLeak`), which rests on fairness that the prover
does not treat. `LocksStayCompatible`, `CacheStaysBounded`, `OneAsked` and
`RootBeforeSession` are proved and, being less than what the runs look at, not checked
again there.

## 5. Not modelled

* OCS answers, pages, templates, static files, `REPORT` and `OPTIONS`: they read and
  render. Of GET, HEAD and PROPFIND the model has what other requests can interleave
  with; content types, ranges, modification times and the other live properties of an
  answer are left out.
* Administration: each form is one UPDATE of one row of `users`. The quota is a constant
  of a run, and the storage directory is one user's own; what happens when two users are
  given the same one is listed as a hazard, as is the conversion of a quota at the edge
  of 64 bits (`parseQuotaBytes`).
* Percent-decoding and cleaning of URLs (`utils/dav.go`): a function of one string,
  character by character. Paths are sequences of components here. Splitting an If header
  into lexemes, for the same reason. The Depth and Timeout headers are values of a small
  set.
* Several properties per resource: PROPPATCH stores them one by one in one transaction;
  one stands for all.
* OIDC itself, cookies, CSRF tokens, random tokens (drawn fresh), bcrypt and SHA-1 (they
  tell different things apart).
* Which row-lock orders PostgreSQL's detector aborts: any transaction may fail.
* Configuration, migrations as a program, the debugging wrapper: start-up work or
  logging.

## 6. Plan

Done: path locks; the tree with its properties, readers and clients; class-2 locks with
the If header; the services around; four abstract specifications (`TreeLock`,
`FileTree`, `ResourceLocks`, `OneShotGrant`) and their refinements; the proofs of
section 4.

Next, in this order:

1. Compose: `DavTree` with `PreviewQueue` (upload, enqueue, thumbnail), and
   `ChunkUpload` as one more writer of `DavTree`.
2. Two users over one storage directory; start-up after a crash as a second life of the
   same tree.
