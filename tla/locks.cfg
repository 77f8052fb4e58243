\* Three handlers, MOVEs that can deadlock among them; one may lose its session.
SPECIFICATION FairSpec
CONSTANTS
  r1 = r1
  r2 = r2
  r3 = r3
  Req <- ThreeRequests
  Path <- DeepTree
  Work <- MixedTargets
  Rank <- StringOrder
  Severable = {r1}
INVARIANTS
  TypeOK
  SubtreeExclusion
  NoStrayLocks
  DeadlockNeedsPair
PROPERTIES
  ImplementsTreeLock
  RequestsServed
