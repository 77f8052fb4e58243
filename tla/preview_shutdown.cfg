\* The server is told to stop while files are queued.
SPECIFICATION Spec
CONSTANTS
  f1 = f1
  f2 = f2
  File <- TwoFiles
  MaxVersion = 2
  Uploads <- BothTwice
  MaxStarts = 2
  FaultSets <- OnlyStops
SYMMETRY FileSymmetry
PROPERTIES
  ShutdownKeepsQueue
