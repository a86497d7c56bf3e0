--------------------------- MODULE ChunkDownload ----------------------------
(***************************************************************************)
(* getChunk: a chunk is served from the cache directory when its row says  *)
(* COMPLETED, a call that finds the row IN_PROGRESS waits for the event of *)
(* the next status change, and any other call downloads the chunk, writes  *)
(* its file and settles the row.                                           *)
(*                                                                         *)
(* As in ChunkUpload a step is the delivery of one awaited result with the *)
(* code that follows it up to the next await; only the write of a file is  *)
(* cut in two, since a reader may open the file in between.                *)
(***************************************************************************)
EXTENDS Naturals, FiniteSets

CONSTANTS
    Chunks,
    Calls,        \* calls of getChunk
    ChunkOf,      \* ChunkOf[k]: the chunk that call k asks for
    MaxDisturbances  \* bound: crashes, writes and queries that fail, uploads that fix existing rows

ASSUME ChunkDownloadAssumption == ChunkOf \in [Calls -> Chunks]

VARIABLES
    dl,        \* dl_status per chunk row
    onNetwork, \* chunks whose row has ul_status COMPLETED
    disk,      \* the chunk files: "none", "whole" or "torn" by a crash
    call,      \* where each call of getChunk stands; the last three are results
    fetched,   \* calls that have set COMPLETED in their copy of the row and could not save it
    disturbances, \* how many crashes, failures and fixing uploads there were
    orphaned,  \* history: chunks whose row was IN_PROGRESS at a crash, or whose last download
               \* could not save its failure
    raced      \* history: chunks whose row changed under a download, or was completed
               \* for a file that is cut short

history == <<orphaned, raced>>
chunkVars == <<dl, onNetwork, disk, call, fetched, history>>

\* What is written to dl_status; the enumeration's ENQUEUED never is.
DlStatus == {"NOT_STARTED", "IN_PROGRESS", "COMPLETED", "FAILED"}

\* Calls that will settle the row, and results.
Downloading == {"fetch", "write", "writing", "save", "fail"}
Results == {"whole", "torn", "threw"}

Downloads(k, c) == call[k] \in Downloading /\ ChunkOf[k] = c
BeingWritten(c) == \E k \in Calls : call[k] = "writing" /\ ChunkOf[k] = c

ChunkTypeOK ==
    /\ dl \in [Chunks -> DlStatus]
    /\ onNetwork \subseteq Chunks
    /\ disk \in [Chunks -> {"none", "whole", "torn"}]
    /\ call \in [Calls -> {"idle", "find", "read", "wait", "mark"} \cup Downloading \cup Results]
    /\ fetched \subseteq Calls
    /\ disturbances \in Nat
    /\ orphaned \subseteq Chunks /\ raced \subseteq Chunks

ChunkInit ==
    /\ dl = [c \in Chunks |-> "NOT_STARTED"]
    /\ onNetwork = {}
    /\ disk = [c \in Chunks |-> "none"]
    /\ call = [k \in Calls |-> "idle"]
    /\ fetched = {}
    /\ disturbances = 0
    /\ orphaned = {} /\ raced = {}

-----------------------------------------------------------------------------
Move(k, pc) == call' = [call EXCEPT ![k] = pc]

\* Mutant: a status change wakes nobody.
SettleSilently(k, pc) == Move(k, pc)

\* The call goes on and every call that waits for the row starts over: the status
\* hook hands the waiting callbacks to timers.
Settle(k, pc) ==
    call' = [j \in Calls |-> IF j = k THEN pc
                             ELSE IF call[j] = "wait" /\ ChunkOf[j] = ChunkOf[k] THEN "find"
                             ELSE call[j]]

\* Calls begin, several at once where getFile fetches its data chunks.
Call(K) ==
    /\ \A k \in K : call[k] = "idle"
    /\ call' = [k \in Calls |-> IF k \in K THEN "find" ELSE call[k]]
    /\ UNCHANGED <<dl, onNetwork, disk, fetched, disturbances, history>>

FileExists(c) == disk[c] # "none" \/ BeingWritten(c)

\* findByIdOrCreate answers; existsSync looks at the directory.
Found(k) ==
    LET c == ChunkOf[k]
    IN  /\ call[k] = "find"
        /\ Move(k, IF dl[c] = "COMPLETED" /\ FileExists(c) THEN "read"
                   ELSE IF dl[c] = "IN_PROGRESS" THEN "wait"
                   ELSE "mark")
        /\ UNCHANGED <<dl, onNetwork, disk, fetched, disturbances, history>>

\* fs.readFile, not verified; while the file is written it may be found cut short.
ReadCached(k) ==
    /\ call[k] = "read"
    /\ \/ disk[ChunkOf[k]] = "whole" /\ Move(k, "whole")
       \/ (disk[ChunkOf[k]] = "torn" \/ BeingWritten(ChunkOf[k])) /\ Move(k, "torn")
    /\ UNCHANGED <<dl, onNetwork, disk, fetched, disturbances, history>>

\* chunk.save(): the row is not read again, another call may have changed it.
MarkInProgress(k) ==
    LET c == ChunkOf[k]
    IN  /\ call[k] = "mark"
        /\ dl' = [dl EXCEPT ![c] = "IN_PROGRESS"]
        /\ raced' = IF dl[c] = "IN_PROGRESS" \/ (dl[c] = "COMPLETED" /\ FileExists(c))
                    THEN raced \cup {c} ELSE raced
        /\ Settle(k, "fetch")
        /\ UNCHANGED <<onNetwork, disk, fetched, disturbances, orphaned>>

\* The sources in turn: one of them delivers a chunk with the right hash, or none does.
Fetch(k) ==
    /\ call[k] = "fetch"
    /\ \E pc \in {"write", "fail"} : Move(k, pc)
    /\ UNCHANGED <<dl, onNetwork, disk, fetched, disturbances, history>>

\* Mutant: the write is not awaited, the row is settled first.
OpenFileUnawaited(k) ==
    /\ call[k] = "write"
    /\ dl' = [dl EXCEPT ![ChunkOf[k]] = "COMPLETED"]
    /\ Settle(k, "writing")
    /\ UNCHANGED <<onNetwork, disk, fetched, disturbances, history>>

\* fs.writeFile opens the final name and cuts it to nothing ...
OpenFile(k) ==
    /\ call[k] = "write"
    /\ Move(k, "writing")
    /\ UNCHANGED <<dl, onNetwork, disk, fetched, disturbances, history>>

\* ... and has written the bytes of the chunk.
CloseFile(k) ==
    /\ call[k] = "writing"
    /\ disk' = [disk EXCEPT ![ChunkOf[k]] = "whole"]
    /\ Move(k, "save")
    /\ UNCHANGED <<dl, onNetwork, fetched, disturbances, history>>

\* The write fails half way: on to the next source, or out of sources.
WriteFails(k) ==
    /\ call[k] = "writing"
    /\ disturbances < MaxDisturbances
    /\ disturbances' = disturbances + 1
    /\ disk' = [disk EXCEPT ![ChunkOf[k]] = "torn"]
    /\ Move(k, "fetch")
    /\ UNCHANGED <<dl, onNetwork, fetched, history>>

SaveCompleted(k) ==
    /\ call[k] = "save"
    /\ dl' = [dl EXCEPT ![ChunkOf[k]] = "COMPLETED"]
    /\ onNetwork' = onNetwork \cup {ChunkOf[k]}
    /\ Settle(k, "whole")
    /\ UNCHANGED <<disk, fetched, disturbances, history>>

\* Every source failed: the row is FAILED, whatever it says by now.  A copy that could not be
\* saved as COMPLETED still holds that ul_status.
SaveFailed(k) ==
    /\ call[k] = "fail"
    /\ dl' = [dl EXCEPT ![ChunkOf[k]] = "FAILED"]
    /\ onNetwork' = IF k \in fetched THEN onNetwork \cup {ChunkOf[k]} ELSE onNetwork
    /\ Settle(k, "threw")
    /\ UNCHANGED <<disk, fetched, disturbances, history>>

\* findByIdOrCreate, readFile or the first chunk.save() throws: the call throws, and has
\* changed nothing.
QueryFails(k) ==
    /\ call[k] \in {"find", "read", "mark"}
    /\ Move(k, "threw")
    /\ UNCHANGED <<dl, onNetwork, disk, fetched, history>>

\* chunk.save() of a chunk on the disk throws inside the try: on to the next source, or out
\* of sources.
SaveCompletedFails(k) ==
    /\ call[k] = "save"
    /\ fetched' = fetched \cup {k}
    /\ Move(k, "fetch")
    /\ UNCHANGED <<dl, onNetwork, disk, history>>

\* The last chunk.save() throws: the row stays as it is and nobody is woken.
SaveFailedFails(k) ==
    LET c == ChunkOf[k]
        left == dl[c] = "IN_PROGRESS" \/ \E j \in Calls : call[j] = "wait" /\ ChunkOf[j] = c
        settled == \E j \in Calls \ {k} : Downloads(j, c)
    IN  /\ call[k] = "fail"
        /\ orphaned' = IF left /\ ~settled THEN orphaned \cup {c} ELSE orphaned
        /\ Move(k, "threw")
        /\ UNCHANGED <<dl, onNetwork, disk, fetched, raced>>

\* A query or a write throws.
DatabaseFails(k) ==
    /\ disturbances < MaxDisturbances
    /\ disturbances' = disturbances + 1
    /\ QueryFails(k) \/ SaveCompletedFails(k) \/ SaveFailedFails(k)

CallFails(k) == WriteFails(k) \/ DatabaseFails(k)

CallStep(k) == \/ Found(k) \/ ReadCached(k) \/ MarkInProgress(k) \/ Fetch(k) \/ OpenFile(k)
               \/ CloseFile(k) \/ SaveCompleted(k) \/ SaveFailed(k)

-----------------------------------------------------------------------------
\* enqueueChunksForUpload of any file: it writes the missing chunk files under
\* another name, so they appear whole, inserts or fixes the rows that are not settled
\* for uploads, dl_status too, and wakes nobody, since the update names no id.
EnqueueUpload ==
    /\ disturbances < MaxDisturbances
    /\ disturbances' = disturbances + 1
    /\ \E file \in SUBSET Chunks, rows \in SUBSET (Chunks \ onNetwork) :
          /\ disk' = [c \in Chunks |-> IF c \in file /\ ~FileExists(c) THEN "whole" ELSE disk[c]]
          /\ dl' = [c \in Chunks |-> IF c \in rows THEN "COMPLETED" ELSE dl[c]]
          /\ raced' = raced \cup {c \in rows : disk[c] = "torn" \/ \E k \in Calls : Downloads(k, c)}
    /\ UNCHANGED <<onNetwork, call, fetched, orphaned>>

\* What a crash leaves: a file cut short by each open write, and the rows as they are.
\* The second statement of restartUploadsDownloads compares and sets ul_status, like the
\* first: no dl_status is reset.
CrashChunks ==
    LET open == {c \in Chunks : BeingWritten(c)}
    IN  /\ disk' = [c \in Chunks |-> IF c \in open THEN "torn" ELSE disk[c]]
        /\ orphaned' = orphaned \cup {c \in Chunks : dl[c] = "IN_PROGRESS"}
        /\ call' = [k \in Calls |-> IF call[k] \in {"idle"} \cup Results THEN call[k] ELSE "threw"]
        /\ UNCHANGED <<dl, onNetwork, fetched, raced>>

ChunkCrash ==
    /\ disturbances < MaxDisturbances
    /\ disturbances' = disturbances + 1
    /\ CrashChunks

ChunkNext ==
    \/ EnqueueUpload
    \/ ChunkCrash
    \/ \E K \in SUBSET Calls : Call(K)
    \/ \E k \in Calls : CallStep(k) \/ CallFails(k)

ChunkSpec == ChunkInit /\ [][ChunkNext]_<<chunkVars, disturbances>>

-----------------------------------------------------------------------------
(* Properties *)

\* A row that says IN_PROGRESS has a call that will settle it, so that no call waits
\* in vain, whatever downloads, uploads and failures of sources, files and queries overlap.
\* The exceptions are a row that was in progress at a crash, which restartUploadsDownloads
\* does not reset, and one whose last download failed and could not save that either.
NoOrphanWaiter ==
    \A c \in Chunks \ orphaned :
        /\ dl[c] = "IN_PROGRESS" => \E k \in Calls : Downloads(k, c)
        /\ \A k \in Calls : call[k] = "wait" /\ ChunkOf[k] = c => \E j \in Calls : Downloads(j, c)

\* The row keeps readers off a file that is being written or was left cut short: a
\* call returns less than the chunk only if the row changed under a download that was
\* about to start or had started, or an upload completed it for a torn file.
TornOnlyAfterRace ==
    \A k \in Calls : call[k] = "torn" => ChunkOf[k] \in raced
=============================================================================
