---------------------------- MODULE MCChunkUpload ----------------------------
(***************************************************************************)
(* Instances of ChunkUpload for TLC.                                       *)
(***************************************************************************)
EXTENDS ChunkUpload

CONSTANTS a, b, h1, h2

OneChunk == {a}
TwoChunks == {a, b}
\* The first chunk has two blocks, a second one has one.
Sizes == [c \in Chunk |-> IF c = a THEN 2 ELSE 1]
TwoHandlers == {h1, h2}
=============================================================================
