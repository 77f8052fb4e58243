\* A collection is built up; transactions fail.
SPECIFICATION ReadsSpec
CONSTANTS
  r1 = r1
  r2 = r2
  c1 = c1
  Dir = Dir
  Req <- TwoHandlers
  Path <- DeepPaths
  Ops <- BuildUp
  Trees <- EmptyTree
  Size <- Sizes
  Quota = 4
  Client <- NoClient
  Readable <- AnyName
  MaxOps = 3
  FaultSets <- Transactions
SYMMETRY HandlerSymmetry
INVARIANTS
  SizesAlwaysAddUp
