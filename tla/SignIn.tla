------------------------------- MODULE SignIn -------------------------------
(***************************************************************************)
(* The end of a sign-in with an identity provider (AuthCallbackHandler in  *)
(* handlers/auth.go, from the verified claims on): role, user name, the    *)
(* row of users, the storage directory and the root row of the file tree.  *)
(* Every statement is a transaction of its own.  What LoginFlow also has a *)
(* name for is called SignIn... here: AuthProofs is about both.            *)
(***************************************************************************)
EXTENDS Naturals, FiniteSets, Functions

CONSTANTS Person,      \* a subject of an identity provider
          Name,        \* user names that generateUniqueUsername may draw
          NoName,
          Callback,    \* sign-ins that may run at the same time
          MaxFailures    \* bound: statements and system calls that fail

ASSUME SignInAssumption == NoName \notin Name /\ MaxFailures \in Nat

VARIABLES users,       \* table users: [name, role] of each person who has a row
          roots,       \* people whose root row is in table files
          dirs,        \* people whose storage directory exists
          sessions,    \* people who have been signed in
          callback,    \* what each sign-in is doing
          failures

signInVars == <<users, roots, dirs, sessions, callback, failures>>

Role == {"user", "admin"}
NotBegun == [pc |-> "idle", who |-> {}, role |-> "user", name |-> NoName, created |-> FALSE]

SignInInit ==
    /\ users = [p \in {} |-> {}]
    /\ roots = {} /\ dirs = {} /\ sessions = {}
    /\ callback = [c \in Callback |-> NotBegun]
    /\ failures = 0

Names == {users[p].name : p \in DOMAIN users}

Goto(c, pc) == callback' = [callback EXCEPT ![c].pc = pc]
EndCallback(c) == callback' = [callback EXCEPT ![c] = NotBegun]

Begin(c, p) ==
    /\ callback[c].pc = "idle"
    /\ callback' = [callback EXCEPT ![c] = [NotBegun EXCEPT !.pc = "count", !.who = {p}]]
    /\ UNCHANGED <<users, roots, dirs, sessions, failures>>

\* SELECT count(*) FROM users: the first user is to be the admin.
IsOne(n) == n = 1    \* faulty variant: counted as if after the INSERT
IsFirst(n) == n = 0
Count(c) ==
    /\ callback[c].pc = "count"
    /\ callback' = [callback EXCEPT ![c].pc = "name",
           ![c].role = IF IsFirst(Cardinality(DOMAIN users)) THEN "admin" ELSE "user"]
    /\ UNCHANGED <<users, roots, dirs, sessions, failures>>

\* generateUniqueUsername: a name that nobody has yet.
Choose(c) ==
    /\ callback[c].pc = "name"
    /\ \E n \in Name \ Names :
          callback' = [callback EXCEPT ![c].pc = "insert", ![c].name = n]
    /\ UNCHANGED <<users, roots, dirs, sessions, failures>>

\* INSERT ... ON CONFLICT (provider, subject) DO UPDATE: the row of somebody who has
\* one keeps its name, role and directory.
Upsert(c, p, account) ==
    /\ callback[c].pc = "insert" /\ callback[c].who = {p}
    /\ users' = [q \in DOMAIN users \cup {p} |-> IF q = p THEN account ELSE users[q]]
    /\ Goto(c, "dir")
    /\ UNCHANGED <<roots, dirs, sessions, failures>>

NewAccount(c) == [name |-> callback[c].name, role |-> callback[c].role]

InsertOrRename(c) ==     \* faulty variant: DO UPDATE sets the name too
    \E p \in Person :
        /\ callback[c].name \notin Names
        /\ Upsert(c, p, IF p \in DOMAIN users THEN [users[p] EXCEPT !.name = callback[c].name]
                                              ELSE NewAccount(c))
InsertTwins(c) ==        \* faulty variant: no unique index on names
    \E p \in Person : Upsert(c, p, IF p \in DOMAIN users THEN users[p] ELSE NewAccount(c))
Insert(c) ==
    \E p \in Person :
        \/ p \in DOMAIN users /\ Upsert(c, p, users[p])
        \/ p \notin DOMAIN users /\ callback[c].name \notin Names /\ Upsert(c, p, NewAccount(c))

\* Somebody else has taken the name meanwhile: the unique index says no, 500.
NameTaken(c) ==
    /\ callback[c].pc = "insert"
    /\ callback[c].who \cap DOMAIN users = {} /\ callback[c].name \in Names
    /\ EndCallback(c)
    /\ UNCHANGED <<users, roots, dirs, sessions, failures>>

\* Stat and MkdirAll
MakeDir(c) ==
    /\ callback[c].pc = "dir"
    /\ dirs' = dirs \cup callback[c].who
    /\ callback' = [callback EXCEPT ![c].pc = "root",
                                    ![c].created = ~ callback[c].who \subseteq dirs]
    /\ UNCHANGED <<users, roots, sessions, failures>>

\* The root row; ON CONFLICT DO NOTHING when another sign-in has inserted it.
InsertRoot(c) ==
    /\ callback[c].pc = "root"
    /\ roots' = roots \cup callback[c].who
    /\ Goto(c, "session")
    /\ UNCHANGED <<users, dirs, sessions, failures>>

\* sess.Save: the person is signed in.
SaveSession(c) ==
    /\ callback[c].pc = "session"
    /\ sessions' = sessions \cup callback[c].who
    /\ EndCallback(c)
    /\ UNCHANGED <<users, roots, dirs, failures>>

\* The root row fails: a directory made by this sign-in is removed.  os.Remove leaves
\* a directory alone that is not empty.
FailRoot(c) ==
    /\ callback[c].pc = "root"
    /\ failures < MaxFailures /\ failures' = failures + 1
    /\ dirs' \in {dirs, IF callback[c].created THEN dirs \ callback[c].who ELSE dirs}
    /\ EndCallback(c)
    /\ UNCHANGED <<users, roots, sessions>>

\* Any other statement fails, or the session cannot be saved, or the browser goes away:
\* what has been inserted stays.
FailCallback(c) ==
    /\ callback[c].pc \in {"count", "name", "insert", "dir", "session"}
    /\ failures < MaxFailures /\ failures' = failures + 1
    /\ EndCallback(c)
    /\ UNCHANGED <<users, roots, dirs, sessions>>

\* generateUniqueUsername has drawn 100 names, all taken.
NoNameLeft(c) ==
    /\ callback[c].pc = "name" /\ Names # {}
    /\ EndCallback(c)
    /\ UNCHANGED <<users, roots, dirs, sessions, failures>>

SignInNext == \E c \in Callback :
    \/ \E p \in Person : Begin(c, p)
    \/ Count(c) \/ Choose(c) \/ Insert(c) \/ NameTaken(c) \/ MakeDir(c) \/ InsertRoot(c)
    \/ SaveSession(c) \/ FailRoot(c) \/ FailCallback(c) \/ NoNameLeft(c)

SignInSpec == SignInInit /\ [][SignInNext]_signInVars

-----------------------------------------------------------------------------
\* Type invariant; no two people share a user name.
SignInTypeOK ==
    /\ DOMAIN users \subseteq Person
    /\ \A p \in DOMAIN users : users[p].name \in Name /\ users[p].role \in Role
    /\ IsInjective([p \in DOMAIN users |-> users[p].name])
    /\ roots \subseteq DOMAIN users /\ dirs \subseteq DOMAIN users /\ sessions \subseteq DOMAIN users
    /\ \A c \in Callback : callback[c].who \subseteq Person /\ callback[c].role \in Role
    /\ failures \in 0..MaxFailures

Admins == {p \in DOMAIN users : users[p].role = "admin"}

\* However the first sign-ins overlap and fail, the system does not end up with users
\* and nobody to administer it.
AdminExists == DOMAIN users # {} => Admins # {}

\* "only the first user will be an admin, cannot add more admins after that"
SingleAdmin == \A p, q \in Admins : p = q

\* Signing in again, at the same time even, changes neither name nor role.
AccountsKept ==
    [][\A p \in DOMAIN users : p \in DOMAIN users' /\ users'[p] = users[p]]_signInVars

\* Who has been signed in has the root row that every handler of the file tree
\* relies on: the session is saved by a step of its own, after those of other
\* sign-ins of the same person that fail and undo what they made.
SignedInHasRoot == sessions \subseteq roots
=============================================================================
