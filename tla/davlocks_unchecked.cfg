\* MKCOL, and the end of a chunked upload, in a collection that somebody has locked.
SPECIFICATION Spec
CONSTANTS
  t1 = t1
  t2 = t2
  c1 = c1
  c2 = c2
  w1 = w1
  NoToken = NoToken
  NoName = NoName
  Path <- Tree
  Token <- TwoTokens
  Locker <- TwoLockers
  Writer <- OneWriter
  LockOps <- SomeLocks
  WriteOps <- Unchecked
  Forms = {"none", "token", "either", "both", "negated", "etag", "tagged", "malformed"}
  MaxTime = 2
  MaxAsked = 3
SYMMETRY Symmetry
INVARIANT LockedOutOfAll
