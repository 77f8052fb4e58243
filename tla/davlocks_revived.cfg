\* A change that presents the token of one lock, while a late refresh has revived another.
SPECIFICATION Spec
CONSTANTS
  t1 = t1
  t2 = t2
  c1 = c1
  c2 = c2
  w1 = w1
  NoToken = NoToken
  NoName = NoName
  Path <- Tree
  Token <- TwoTokens
  Locker <- TwoLockers
  Writer <- OneWriter
  LockOps <- OnePath
  WriteOps <- OneChange
  Forms = {"token"}
  MaxTime = 2
  MaxAsked = 3
SYMMETRY Symmetry
INVARIANT LockedOutAlways
