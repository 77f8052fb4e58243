\* One request after the other; a transaction may fail.
SPECIFICATION ReadsSpec
CONSTANTS
  r1 = r1
  r2 = r2
  c1 = c1
  Dir = Dir
  Req <- OneHandler
  Path <- DeepPaths
  Ops <- OneByOne
  Trees <- EmptyTree
  Size <- SixUploads
  Quota = 2
  Client <- NoClient
  Readable <- AnyName
  MaxOps = 6
  FaultSets <- Transactions
INVARIANT TotalWithinQuota
