---------------------------- MODULE FileDownload ----------------------------
(***************************************************************************)
(* getFile on top of getChunk: a reader of a file fetches the info chunk   *)
(* (or the only chunk), then every data chunk in parallel, writes the      *)
(* assembled file and settles the file row.  The file row has the same     *)
(* statuses as a chunk row, but is written by conditional updates that     *)
(* spare COMPLETED and wake the waiting readers in any case.               *)
(***************************************************************************)
EXTENDS ChunkDownload

CONSTANTS
    Readers,     \* calls of getFile and getFileAsReadStream for one file
    InfoChunk    \* the chunk whose id is the id of the file

ASSUME FileDownloadAssumption ==
    /\ InfoChunk \in Chunks
    /\ Calls = Readers \X Chunks   \* a reader calls getChunk once per chunk
    /\ \A r \in Readers, c \in Chunks : ChunkOf[<<r, c>>] = c

VARIABLES
    data,      \* the chunks the info chunk lists; none when it is the file itself
    fdl,       \* dl_status of the file row
    fdisk,     \* the file in FILES_DIR: "none", "whole" or "torn"
    reader,    \* where each reader stands
    fstuck,    \* history: the file row was IN_PROGRESS at a crash, or its last reader could
               \* not save its failure
    fraced     \* history: the row was taken by two readers, or completed for a torn file

fileVars == <<data, fdl, fdisk, reader, fstuck, fraced>>
vars == <<chunkVars, disturbances, fileVars>>

Fetching == {"info", "chunks", "write", "writing", "complete", "failed"}

FileTypeOK ==
    /\ ChunkTypeOK
    /\ data \subseteq Chunks \ {InfoChunk}
    /\ fdl \in DlStatus
    /\ fdisk \in {"none", "whole", "torn"}
    /\ reader \in [Readers -> {"idle", "find", "read", "wait", "mark", "stream"} \cup Fetching \cup Results]
    /\ fstuck \in BOOLEAN /\ fraced \in BOOLEAN

Init ==
    /\ ChunkInit
    /\ data \in SUBSET (Chunks \ {InfoChunk})
    /\ fdl = "NOT_STARTED" /\ fdisk = "none"
    /\ reader = [r \in Readers |-> "idle"]
    /\ fstuck = FALSE /\ fraced = FALSE

-----------------------------------------------------------------------------
Turn(r, pc) == reader' = [reader EXCEPT ![r] = pc]

FileBeingWritten == \E r \in Readers : reader[r] = "writing"
AssembledExists == fdisk # "none" \/ FileBeingWritten

\* File.update names the id: readers that wait for the row start over even when
\* no row was changed.
Update(r, pc) ==
    reader' = [q \in Readers |-> IF q = r THEN pc ELSE IF reader[q] = "wait" THEN "find" ELSE reader[q]]

\* The row after a conditional update.
Spared(status) == IF fdl = "COMPLETED" THEN "COMPLETED" ELSE status

StartCalls(r, C) ==
    call' = [k \in Calls |-> IF k \in {<<r, c>> : c \in C} THEN "find" ELSE call[k]]

rowFrame == <<data, dl, onNetwork, disk, fetched, history>>
chunkFrame == <<rowFrame, disturbances>>

GetFile(r) ==
    /\ reader[r] = "idle"
    /\ Turn(r, "find")
    /\ UNCHANGED <<fdl, fdisk, fstuck, fraced, call, chunkFrame>>

FoundFile(r) ==
    /\ reader[r] = "find"
    /\ Turn(r, IF fdl = "COMPLETED" /\ AssembledExists THEN "read"
               ELSE IF fdl = "IN_PROGRESS" THEN "wait"
               ELSE "mark")
    /\ UNCHANGED <<fdl, fdisk, fstuck, fraced, call, chunkFrame>>

ReadFile(r) ==
    /\ reader[r] = "read"
    /\ \/ fdisk = "whole" /\ Turn(r, "whole")
       \/ (fdisk = "torn" \/ FileBeingWritten) /\ Turn(r, "torn")
    /\ UNCHANGED <<fdl, fdisk, fstuck, fraced, call, chunkFrame>>

\* markFileAsInProgressDownload, then getChunkBinary of the info chunk.
MarkFile(r) ==
    /\ reader[r] = "mark"
    /\ fdl' = Spared("IN_PROGRESS")
    /\ Update(r, "info")
    /\ StartCalls(r, {InfoChunk})
    /\ fraced' = (fraced \/ fdl = "COMPLETED" \/ \E q \in Readers : reader[q] \in Fetching)
    /\ UNCHANGED <<fdisk, fstuck, chunkFrame>>

\* The info chunk arrives: without the prologue it is the file, else its data chunks
\* are fetched at once.  A torn info chunk may look like either or fail to parse.
InfoArrives(r) ==
    LET info == call[<<r, InfoChunk>>]
    IN  /\ reader[r] = "info"
        /\ \/ info = "threw" /\ Turn(r, "failed") /\ UNCHANGED call
           \/ info = "torn" /\ (\E pc \in {"write", "failed"} : Turn(r, pc)) /\ UNCHANGED call
           \/ info = "whole" /\ data = {} /\ Turn(r, "write") /\ UNCHANGED call
           \/ info = "whole" /\ data # {} /\ Turn(r, "chunks") /\ StartCalls(r, data)
        /\ UNCHANGED <<fdl, fdisk, fstuck, fraced, chunkFrame>>

\* Promise.all: every data chunk arrived, or the first rejection.
ChunksArrive(r) ==
    /\ reader[r] = "chunks"
    /\ \/ (\A c \in data : call[<<r, c>>] \in {"whole", "torn"}) /\ Turn(r, "write")
       \/ (\E c \in data : call[<<r, c>>] = "threw") /\ Turn(r, "failed")
    /\ UNCHANGED <<fdl, fdisk, fstuck, fraced, call, chunkFrame>>

OpenAssembled(r) ==
    /\ reader[r] = "write"
    /\ Turn(r, "writing")
    /\ UNCHANGED <<fdl, fdisk, fstuck, fraced, call, chunkFrame>>

\* What the reader has assembled.
Assembled(r) == IF \E c \in Chunks : call[<<r, c>>] = "torn" THEN "torn" ELSE "whole"

CloseAssembled(r) ==
    /\ reader[r] = "writing"
    /\ fdisk' = Assembled(r)
    /\ Turn(r, "complete")
    /\ UNCHANGED <<fdl, fstuck, fraced, call, chunkFrame>>

CompleteFile(r) ==
    /\ reader[r] = "complete"
    /\ fdl' = "COMPLETED"
    /\ Update(r, Assembled(r))
    /\ UNCHANGED <<fdisk, fstuck, fraced, call, chunkFrame>>

\* The catch block: markFileAsFailedDownload and rethrow.
FailFile(r) ==
    /\ reader[r] = "failed"
    /\ fdl' = Spared("FAILED")
    /\ Update(r, "threw")
    /\ UNCHANGED <<fdisk, fstuck, fraced, call, chunkFrame>>

\* What a reader waits for throws: before the try the reader throws, inside it the catch
\* block takes over, and in the catch block the row stays as it is and nobody is woken.
\* A stream has no catch block.  A write that fails leaves the file cut short.
FileOperationFails(r) ==
    LET left == fdl = "IN_PROGRESS" \/ \E q \in Readers : reader[q] = "wait"
        settled == \E q \in Readers \ {r} : reader[q] \in Fetching
    IN  /\ disturbances < MaxDisturbances
        /\ disturbances' = disturbances + 1
        /\ \/ reader[r] \in {"find", "read", "failed"} /\ Turn(r, "threw")
           \/ reader[r] \in {"mark", "writing", "complete"} /\ Turn(r, "failed")
           \/ reader[r] = "stream" /\ call[<<r, InfoChunk>>] \in {"whole", "torn"} /\ Turn(r, "threw")
        /\ fdisk' = IF reader[r] = "writing" THEN "torn" ELSE fdisk
        /\ fstuck' = (fstuck \/ (reader[r] = "failed" /\ left /\ ~settled))
        /\ UNCHANGED <<fdl, fraced, call, rowFrame>>

\* getFileAsReadStream fetches the info chunk without a look at the row ...
StreamFile(r) ==
    /\ reader[r] = "idle"
    /\ Turn(r, "stream")
    /\ StartCalls(r, {InfoChunk})
    /\ UNCHANGED <<fdl, fdisk, fstuck, fraced, chunkFrame>>

\* ... and when that looks like the whole file the row is marked COMPLETED, although no
\* file was written.  The data chunks, which the stream pulls later, are left out.
StreamArrives(r) ==
    LET info == call[<<r, InfoChunk>>]
    IN  /\ reader[r] = "stream"
        /\ \/ /\ info = "torn" \/ (info = "whole" /\ data = {})
              /\ fdl' = "COMPLETED"
              /\ Update(r, info)
              /\ fraced' = (fraced \/ fdisk = "torn" \/ \E q \in Readers : reader[q] \in Fetching)
           \/ /\ info = "threw" \/ (info \in {"whole", "torn"} /\ data # {})
              /\ Turn(r, info)
              /\ UNCHANGED <<fdl, fraced>>
        /\ UNCHANGED <<fdisk, fstuck, call, chunkFrame>>

Crash ==
    /\ disturbances < MaxDisturbances
    /\ disturbances' = disturbances + 1
    /\ CrashChunks
    /\ fdisk' = IF FileBeingWritten THEN "torn" ELSE fdisk
    /\ fstuck' = (fstuck \/ fdl = "IN_PROGRESS")
    /\ reader' = [r \in Readers |-> IF reader[r] \in {"idle"} \cup Results THEN reader[r] ELSE "threw"]
    /\ UNCHANGED <<fdl, data, fraced>>

ReaderStep(r) == \/ FoundFile(r) \/ ReadFile(r) \/ MarkFile(r) \/ InfoArrives(r) \/ ChunksArrive(r)
                 \/ OpenAssembled(r) \/ CloseAssembled(r) \/ CompleteFile(r) \/ FailFile(r)

Next ==
    \/ Crash
    \/ \E r \in Readers : GetFile(r) \/ ReaderStep(r) \/ FileOperationFails(r) \/ StreamFile(r) \/ StreamArrives(r)
    \/ (EnqueueUpload \/ \E k \in Calls : CallStep(k) \/ CallFails(k)) /\ UNCHANGED fileVars

Spec == Init /\ [][Next]_vars

(* Every awaited query, file operation and request ends. *)
Fairness ==
    /\ \A k \in Calls : WF_vars(CallStep(k) /\ UNCHANGED fileVars)
    /\ \A r \in Readers : WF_vars(ReaderStep(r)) /\ WF_vars(StreamArrives(r))

FairSpec == Spec /\ Fairness

-----------------------------------------------------------------------------
(* Properties *)

\* A reader waits only while another one will settle the file row: no end of a
\* download, good, bad or overtaken, forgets the waiting readers.  The exceptions are a
\* row in progress at a crash, and markFileAsFailedDownload failing for the last reader.
FileNoOrphanWaiter ==
    ~fstuck => /\ fdl = "IN_PROGRESS" => \E r \in Readers : reader[r] \in Fetching
               /\ \A r \in Readers : reader[r] = "wait" => \E q \in Readers : reader[q] \in Fetching

\* A reader gets less than the file only if two readers had taken the row, if a stream
\* completed the row while the file was written or after it was left cut short, or if
\* a chunk was damaged as in TornOnlyAfterRace.
FileTornOnlyAfterRace ==
    \A r \in Readers : reader[r] = "torn" => fraced \/ raced # {}

\* Every reader is answered, whatever queries and writes of other readers fail, unless the
\* row of the file or of one of its chunks lost the only call that would settle it: in a
\* crash, or when the save of the failure failed as well.
OnlyLostRowsStrandReaders ==
    \A r \in Readers : reader[r] = "find" ~> (reader[r] \in Results \/ fstuck \/ orphaned # {})
=============================================================================
