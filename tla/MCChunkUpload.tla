--------------------------- MODULE MCChunkUpload ----------------------------
(* Instances of ChunkUpload for TLC. *)
EXTENDS ChunkUpload, TLC

CONSTANTS c1, c2, u1, u2

\* The same single-chunk file uploaded twice.
SameFileTwice == (u1 :> {c1}) @@ (u2 :> {c1})

\* One file of two chunks.
OneFile == (u1 :> {c1, c2})

\* Sound for OneFile: the two chunks play the same part, and no liveness
\* property is checked with it.
ChunkSymmetry == Permutations(Chunks)
=============================================================================
