--------------------------- MODULE MCFileDownload ---------------------------
(* Instances of FileDownload: readers of one file that has an info chunk. *)
EXTENDS FileDownload

CONSTANTS r1, r2, infoChunk, partChunk

MCCalls == Readers \X Chunks
MCChunkOf == [k \in MCCalls |-> k[2]]
=============================================================================
