\* Any two requests, GET included: without faults, with some, with all of them.
SPECIFICATION ReadsSpec
CONSTANTS
  r1 = r1
  r2 = r2
  c1 = c1
  Dir = Dir
  Req <- TwoHandlers
  Path <- DeepPaths
  Ops <- AllRequests
  Trees <- BothTrees
  Size <- Sizes
  Quota = 2
  Client <- OneClient
  Readable <- AnyName
  MaxOps = 2
  FaultSets <- Worlds
SYMMETRY HandlerSymmetry
INVARIANTS
  TypeOK
  SizesAddUp
  DiskListed
  RowsBacked
  CommittedContentKept
  ClientInSync
PROPERTIES
  QuotaRespected
  ETagsNameStates
  NoLostUpdate
  PropertiesFollow
  ImplementsFileTree
