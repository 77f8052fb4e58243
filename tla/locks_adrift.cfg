\* A handler loses its session inside its critical section.
SPECIFICATION Spec
CONSTANTS
  r1 = r1
  r2 = r2
  r3 = r3
  Req <- TwoRequests
  Path <- SmallTree
  Work <- AllTargets
  Rank <- StringOrder
  Severable = {r1}
INVARIANTS
  HandlersExcluded
