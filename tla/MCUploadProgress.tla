-------------------------- MODULE MCUploadProgress --------------------------
(* Instances of UploadProgress: a directory with one file. *)
EXTENDS UploadProgress

CONSTANTS dirFile, memberFile, c1, c2, c3

MCChunksOf == [x \in Files |-> IF x = dirFile THEN <<c1>> ELSE <<c2, c3>>]
=============================================================================
