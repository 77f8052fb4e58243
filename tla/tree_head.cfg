\* HEAD requests during uploads, no fault.
SPECIFICATION ReadsSpec
CONSTANTS
  r1 = r1
  r2 = r2
  c1 = c1
  Dir = Dir
  Req <- TwoHandlers
  Path <- DeepPaths
  Ops <- Uploads
  Trees <- BothTrees
  Size <- Sizes
  Quota = 4
  Client <- OneClient
  Readable <- AnyName
  MaxOps = 2
  FaultSets <- NoFaults
SYMMETRY HandlerSymmetry
INVARIANTS
  HeadInSync
