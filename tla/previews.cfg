\* Two files, a client that asks again, a restart; some faults and all of them.
SPECIFICATION FairSpec
CONSTANTS
  f1 = f1
  f2 = f2
  File <- TwoFiles
  MaxVersion = 2
  Uploads <- FirstTwice
  MaxStarts = 2
  FaultSets <- Worlds
INVARIANTS
  TypeOK
  ThumbNotOlder
  QueueSaved
PROPERTIES
  PreviewMade
