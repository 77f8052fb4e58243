\* Two uploads; a session is lost.
SPECIFICATION ReadsSpec
CONSTANTS
  r1 = r1
  r2 = r2
  c1 = c1
  Dir = Dir
  Req <- TwoHandlers
  Path <- DeepPaths
  Ops <- Uploads
  Trees <- BothTrees
  Size <- Sizes
  Quota = 4
  Client <- NoClient
  Readable <- AnyName
  MaxOps = 2
  FaultSets <- Adrift
SYMMETRY HandlerSymmetry
INVARIANTS
  RowsAlwaysBacked
