\* Two handlers at a time, retries and a failing publication, and the sweep.
SPECIFICATION FairSpec
CONSTANTS
  a = a
  b = b
  h1 = h1
  h2 = h2
  Chunk <- TwoChunks
  Size <- Sizes
  Handler <- TwoHandlers
  MaxRequests = 6
  Checksum = FALSE
  MaxAge = 1
INVARIANTS
  TypeOK
  MissingIsComing
PROPERTIES
  SessionKept
  NoLeak
