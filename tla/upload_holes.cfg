\* Without a checksum a hole of the right length is published.
SPECIFICATION Spec
CONSTANTS
  a = a
  b = b
  h1 = h1
  h2 = h2
  Chunk <- TwoChunks
  Size <- Sizes
  Handler <- TwoHandlers
  MaxRequests = 6
  Checksum = FALSE
  MaxAge = 1
INVARIANT
  PublishedWhole
