\* Two LOCK requests and a change, UNLOCK and the janitor.
SPECIFICATION Spec
CONSTANTS
  t1 = t1
  t2 = t2
  c1 = c1
  c2 = c2
  w1 = w1
  NoToken = NoToken
  NoName = NoName
  Path <- Tree
  Token <- TwoTokens
  Locker <- TwoLockers
  Writer <- OneWriter
  LockOps <- SomeLocks
  WriteOps <- Changes
  Forms = {"none", "token", "both", "negated"}
  MaxTime = 2
  MaxAsked = 3
SYMMETRY Symmetry
INVARIANTS
  TypeOK
  LockedOut
  TokenHeld
PROPERTY ImplementsResourceLocks
