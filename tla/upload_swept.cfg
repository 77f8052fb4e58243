\* A chunk written again does not keep its session from being removed.
SPECIFICATION Spec
CONSTANTS
  a = a
  b = b
  h1 = h1
  h2 = h2
  Chunk <- OneChunk
  Size <- Sizes
  Handler <- TwoHandlers
  MaxRequests = 4
  Checksum = TRUE
  MaxAge = 1
PROPERTY OnlyStaleSwept
