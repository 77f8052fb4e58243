\* A DELETE whose If header names a token only to say that it does not hold.
SPECIFICATION Spec
CONSTANTS
  t1 = t1
  t2 = t2
  c1 = c1
  c2 = c2
  w1 = w1
  NoToken = NoToken
  NoName = NoName
  Path <- Tree
  Token <- TwoTokens
  Locker <- TwoLockers
  Writer <- OneWriter
  LockOps <- SomeLocks
  WriteOps <- Deletes
  Forms = {"none", "token", "either", "both", "negated", "etag", "tagged", "malformed"}
  MaxTime = 2
  MaxAsked = 3
SYMMETRY Symmetry
INVARIANT LockedOutUnlessAsserted
