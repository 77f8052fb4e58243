\* Two MOVEs in opposite directions.
SPECIFICATION Spec
CONSTANTS
  r1 = r1
  r2 = r2
  r3 = r3
  Req <- TwoRequests
  Path <- SmallTree
  Work <- AllTargets
  Rank <- StringOrder
  Severable = {}
INVARIANTS
  NoDeadlock
