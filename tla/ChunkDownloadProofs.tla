------------------------ MODULE ChunkDownloadProofs -------------------------
(***************************************************************************)
(* Proofs about ChunkDownload and FileDownload for every set of chunks,    *)
(* calls and readers and any number of crashes, failing queries and        *)
(* writes, and uploads.                                                    *)
(***************************************************************************)
EXTENDS FileDownload, TLAPS

downloadVars == <<chunkVars, disturbances>>

-----------------------------------------------------------------------------
(* Lemmas about the operators of the specification *)

\* Settle moves its call, wakes the calls that wait for the row and no other.
LEMMA SettleMoves ==
    ASSUME ChunkTypeOK, NEW k \in Calls, NEW pc, Settle(k, pc)
    PROVE  /\ call'[k] = pc
           /\ \A j \in Calls \ {k} : \/ call'[j] = call[j]
                                     \/ call[j] = "wait" /\ call'[j] = "find" /\ ChunkOf[j] = ChunkOf[k]
           /\ \A j \in Calls \ {k} : ChunkOf[j] = ChunkOf[k] => call'[j] # "wait"
  BY DEF Settle, ChunkTypeOK

LEMMA MoveMoves ==
    ASSUME ChunkTypeOK, NEW k \in Calls, NEW pc, Move(k, pc)
    PROVE  call'[k] = pc /\ \A j \in Calls \ {k} : call'[j] = call[j]
  BY DEF Move, ChunkTypeOK

-----------------------------------------------------------------------------
(* Type correctness *)

LEMMA ChunkTypeInit == ChunkInit => ChunkTypeOK
  BY DEF ChunkInit, ChunkTypeOK, DlStatus

LEMMA ChunkTypeStep == ChunkTypeOK /\ [ChunkNext]_downloadVars => ChunkTypeOK'
  <1> SUFFICES ASSUME ChunkTypeOK, [ChunkNext]_downloadVars PROVE ChunkTypeOK'
    OBVIOUS
  <1> USE ChunkDownloadAssumption DEF ChunkTypeOK, history, Downloading, Results, DlStatus
  <1>1. CASE EnqueueUpload
    BY <1>1 DEF EnqueueUpload
  <1>2. CASE ChunkCrash
    BY <1>2 DEF ChunkCrash, CrashChunks
  <1>3. ASSUME NEW k \in Calls, CallStep(k) \/ CallFails(k)
        PROVE  ChunkTypeOK'
    <2> USE DEF Move, Settle
    <2>2. CASE Found(k)           BY <2>2 DEF Found
    <2>3. CASE ReadCached(k)      BY <2>3 DEF ReadCached
    <2>4. CASE MarkInProgress(k)  BY <2>4 DEF MarkInProgress
    <2>5. CASE Fetch(k)           BY <2>5 DEF Fetch
    <2>6. CASE OpenFile(k)        BY <2>6 DEF OpenFile
    <2>7. CASE CloseFile(k)       BY <2>7 DEF CloseFile
    <2>8. CASE SaveCompleted(k)   BY <2>8 DEF SaveCompleted
    <2>9. CASE SaveFailed(k)      BY <2>9 DEF SaveFailed
    <2>10. CASE WriteFails(k)     BY <2>10 DEF WriteFails
    <2>11. CASE DatabaseFails(k)
      BY <2>11 DEF DatabaseFails, QueryFails, SaveCompletedFails, SaveFailedFails
    <2>12. QED
      BY <1>3, <2>2, <2>3, <2>4, <2>5, <2>6, <2>7, <2>8, <2>9, <2>10, <2>11 DEF CallStep, CallFails
  <1>4. ASSUME NEW K \in SUBSET Calls, Call(K) PROVE ChunkTypeOK'
    BY <1>4 DEF Call
  <1>5. CASE UNCHANGED downloadVars
    BY <1>5 DEF downloadVars, chunkVars
  <1>6. QED
    BY <1>1, <1>2, <1>3, <1>4, <1>5 DEF ChunkNext

\* Rows, files and calls of getChunk keep their types; in particular no code path writes
\* the status ENQUEUED to dl_status.
THEOREM DownloadTypeCorrect == ChunkSpec => []ChunkTypeOK
  BY ChunkTypeInit, ChunkTypeStep, PTL DEF ChunkSpec, downloadVars

-----------------------------------------------------------------------------
(* Nobody waits in vain: NoOrphanWaiter is inductive *)

LEMMA WaiterStep ==
    ChunkTypeOK /\ NoOrphanWaiter /\ [ChunkNext]_downloadVars => NoOrphanWaiter'
  <1> SUFFICES ASSUME ChunkTypeOK, NoOrphanWaiter, [ChunkNext]_downloadVars,
                      NEW c \in Chunks \ orphaned'
               PROVE  /\ dl'[c] = "IN_PROGRESS" => \E k \in Calls : Downloads(k, c)'
                      /\ \A k \in Calls : call'[k] = "wait" /\ ChunkOf[k] = c
                                          => \E j \in Calls : Downloads(j, c)'
    BY DEF NoOrphanWaiter, Downloads
  <1> DEFINE Goal == /\ dl'[c] = "IN_PROGRESS" => \E k \in Calls : Downloads(k, c)'
                     /\ \A k \in Calls : call'[k] = "wait" /\ ChunkOf[k] = c
                                         => \E j \in Calls : Downloads(j, c)'
  <1>0. orphaned \subseteq orphaned'
    BY DEF ChunkNext, EnqueueUpload, ChunkCrash, CrashChunks, CallStep, Call, Found, ReadCached,
           MarkInProgress, Fetch, OpenFile, CloseFile, SaveCompleted, SaveFailed, CallFails, WriteFails,
           DatabaseFails, QueryFails, SaveCompletedFails, SaveFailedFails,
           history, downloadVars, chunkVars
  <1>a. /\ dl[c] = "IN_PROGRESS" => \E k \in Calls : Downloads(k, c)
        /\ \A k \in Calls : call[k] = "wait" /\ ChunkOf[k] = c => \E j \in Calls : Downloads(j, c)
    BY <1>0 DEF NoOrphanWaiter
  <1>1. CASE EnqueueUpload
    BY <1>1, <1>a DEF EnqueueUpload, Downloads, ChunkTypeOK
  <1>2. CASE ChunkCrash
    <2>1. dl'[c] # "IN_PROGRESS"
      BY <1>2 DEF ChunkCrash, CrashChunks
    <2>2. \A k \in Calls : call'[k] # "wait"
      BY <1>2 DEF ChunkCrash, CrashChunks, Results
    <2>3. QED  BY <2>1, <2>2
  <1>3. ASSUME NEW k \in Calls, CallStep(k) \/ CallFails(k)
        PROVE  Goal
    <2>1. ASSUME Move(k, "find") \/ Move(k, "read") \/ Move(k, "mark") \/ Move(k, "whole") \/ Move(k, "torn")
                   \/ Move(k, "threw"),
                 call[k] \notin Downloading, dl' = dl
          PROVE  Goal
      BY <1>a, <2>1, MoveMoves DEF Downloads, Downloading
    <2>2. ASSUME NEW pc \in Downloading, Move(k, pc), call[k] \in Downloading, dl' = dl
          PROVE  Goal
      BY <1>a, <2>2, MoveMoves DEF Downloads, Downloading
    <2>3. ASSUME NEW pc, pc \notin Downloading, pc # "wait", Settle(k, pc), call[k] \in Downloading,
                 NEW st, st # "IN_PROGRESS", dl' = [dl EXCEPT ![ChunkOf[k]] = st]
          PROVE  Goal
      <3>1. CASE ChunkOf[k] = c
        <4>1. dl'[c] # "IN_PROGRESS"
          BY <2>3, <3>1 DEF ChunkTypeOK
        <4>2. \A j \in Calls : ChunkOf[j] = c => call'[j] # "wait"
          BY <2>3, <3>1, SettleMoves
        <4>3. QED  BY <4>1, <4>2
      <3>2. CASE ChunkOf[k] # c
        BY <1>a, <2>3, <3>2, SettleMoves DEF Downloads, Downloading, ChunkTypeOK
      <3>3. QED  BY <3>1, <3>2
    <2>5. CASE Found(k)
      <3>1. CASE dl[ChunkOf[k]] = "IN_PROGRESS" /\ Move(k, "wait")
        BY <1>a, <2>5, <3>1, MoveMoves DEF Found, Downloads, Downloading
      <3>2. CASE Move(k, "read") \/ Move(k, "mark")
        BY <2>1, <2>5, <3>2 DEF Found, Downloading
      <3>3. QED  BY <2>5, <3>1, <3>2 DEF Found
    <2>6. CASE ReadCached(k)
      BY <2>1, <2>6 DEF ReadCached, Downloading
    <2>7. CASE MarkInProgress(k)
      <3>1. Settle(k, "fetch") /\ dl' = [dl EXCEPT ![ChunkOf[k]] = "IN_PROGRESS"] /\ call[k] = "mark"
        BY <2>7 DEF MarkInProgress
      <3>2. CASE ChunkOf[k] = c
        <4>1. Downloads(k, c)'
          BY <3>1, <3>2, SettleMoves DEF Downloads, Downloading
        <4>2. QED  BY <4>1
      <3>3. CASE ChunkOf[k] # c
        BY <1>a, <3>1, <3>3, SettleMoves DEF Downloads, Downloading, ChunkTypeOK
      <3>4. QED  BY <3>2, <3>3
    <2>8. CASE Fetch(k)
      BY <2>2, <2>8 DEF Fetch, Downloading
    <2>9. CASE OpenFile(k)
      BY <2>2, <2>9 DEF OpenFile, Downloading
    <2>10. CASE CloseFile(k)
      BY <2>2, <2>10 DEF CloseFile, Downloading
    <2>11. CASE WriteFails(k)
      BY <2>2, <2>11 DEF WriteFails, Downloading
    <2>12. CASE SaveCompleted(k)
      BY <2>3, <2>12 DEF SaveCompleted, Downloading
    <2>13. CASE SaveFailed(k)
      BY <2>3, <2>13 DEF SaveFailed, Downloading
    <2>14. CASE QueryFails(k)
      BY <2>1, <2>14 DEF QueryFails, Downloading
    <2>15. CASE SaveCompletedFails(k)
      BY <2>2, <2>15 DEF SaveCompletedFails, Downloading
    <2>16. CASE SaveFailedFails(k)
      \* Nobody is woken: another call downloads, or there is nothing to settle.
      <3>1. Move(k, "threw") /\ dl' = dl /\ call[k] = "fail"
        BY <2>16 DEF SaveFailedFails
      <3>2. CASE ChunkOf[k] # c
        BY <1>a, <3>1, <3>2, MoveMoves DEF Downloads, Downloading
      <3>3. CASE ChunkOf[k] = c /\ \E j \in Calls \ {k} : Downloads(j, c)
        <4>1. PICK j \in Calls \ {k} : Downloads(j, c)
          BY <3>3
        <4>2. Downloads(j, c)'
          BY <3>1, <4>1, MoveMoves DEF Downloads
        <4>3. QED  BY <4>2
      <3>4. CASE /\ ChunkOf[k] = c /\ dl[c] # "IN_PROGRESS"
                 /\ \A j \in Calls : ~(call[j] = "wait" /\ ChunkOf[j] = c)
        BY <3>1, <3>4, MoveMoves
      <3>5. QED  BY <2>16, <3>2, <3>3, <3>4 DEF SaveFailedFails
    <2>17. QED
      BY <1>3, <2>5, <2>6, <2>7, <2>8, <2>9, <2>10, <2>11, <2>12, <2>13, <2>14, <2>15, <2>16
         DEF CallStep, CallFails, DatabaseFails
  <1>4. ASSUME NEW K \in SUBSET Calls, Call(K) PROVE Goal
    BY <1>4, <1>a DEF Call, Downloads, Downloading
  <1>5. CASE UNCHANGED downloadVars
    BY <1>5, <1>a DEF downloadVars, chunkVars, Downloads
  <1>6. QED
    BY <1>1, <1>2, <1>3, <1>4, <1>5 DEF ChunkNext

\* A row IN_PROGRESS has a call that will settle it, and so does every call that waits, also
\* when queries, writes and saves of the row fail.  Excepted are rows that a crash left in
\* progress and rows whose last download failed and could not save that.
THEOREM NobodyWaitsInVain == ChunkSpec => []NoOrphanWaiter
  <1>1. ChunkInit => NoOrphanWaiter
    BY DEF ChunkInit, NoOrphanWaiter
  <1>2. QED
    BY <1>1, ChunkTypeInit, ChunkTypeStep, WaiterStep, PTL DEF ChunkSpec, downloadVars

-----------------------------------------------------------------------------
(* The row guards the file *)

\* TornOnlyAfterRace is not inductive.  What carries it: as long as the row of a chunk was
\* not raced, one call at most downloads it, under a row IN_PROGRESS; a file that is cut
\* short never has a row COMPLETED; and a call that is about to read still has the row
\* COMPLETED and the file there.
GuardedFile(c) ==
    /\ \A k \in Calls : Downloads(k, c) =>
          dl[c] = "IN_PROGRESS" /\ \A j \in Calls : Downloads(j, c) => j = k
    /\ dl[c] = "COMPLETED" => disk[c] # "torn"
    /\ \A k \in Calls : ChunkOf[k] = c =>
          /\ call[k] = "read" => dl[c] = "COMPLETED" /\ disk[c] # "none"
          /\ call[k] = "save" => disk[c] = "whole"
          /\ call[k] # "torn"

RaceInv == \A c \in Chunks \ raced : GuardedFile(c)

LEMMA RaceStep == ChunkTypeOK /\ RaceInv /\ [ChunkNext]_downloadVars => RaceInv'
  <1> SUFFICES ASSUME ChunkTypeOK, RaceInv, [ChunkNext]_downloadVars, NEW c \in Chunks \ raced'
               PROVE  GuardedFile(c)'
    BY DEF RaceInv
  <1>0. c \notin raced
    BY DEF ChunkNext, EnqueueUpload, ChunkCrash, CrashChunks, CallStep, Call, Found, ReadCached,
           MarkInProgress, Fetch, OpenFile, CloseFile, SaveCompleted, SaveFailed, CallFails, WriteFails,
           DatabaseFails, QueryFails, SaveCompletedFails, SaveFailedFails,
           history, downloadVars, chunkVars
  <1>a. GuardedFile(c)
    BY <1>0 DEF RaceInv
  <1> USE DEF GuardedFile, Downloads, Downloading
  <1>1. CASE EnqueueUpload
    BY <1>1, <1>a DEF EnqueueUpload, FileExists, ChunkTypeOK
  <1>2. CASE ChunkCrash
    BY <1>2, <1>a DEF ChunkCrash, CrashChunks, BeingWritten, Results, ChunkTypeOK
  <1>3. ASSUME NEW k \in Calls, CallStep(k) \/ CallFails(k)
        PROVE  GuardedFile(c)'
    <2>0. CASE ChunkOf[k] # c
      \* Another row: its file and status stay, and a waiter of c stays a waiter.
      <3>1. dl'[c] = dl[c] /\ disk'[c] = disk[c]
        BY <1>3, <2>0 DEF CallStep, Call, Found, ReadCached, MarkInProgress, Fetch, OpenFile,
           CloseFile, SaveCompleted, SaveFailed, CallFails, WriteFails,
           DatabaseFails, QueryFails, SaveCompletedFails, SaveFailedFails, ChunkTypeOK
      <3>2. \A j \in Calls : ChunkOf[j] = c => call'[j] = call[j]
        BY <1>3, <2>0, MoveMoves, SettleMoves DEF CallStep, Call, Found, ReadCached, MarkInProgress,
           Fetch, OpenFile, CloseFile, SaveCompleted, SaveFailed, CallFails, WriteFails,
           DatabaseFails, QueryFails, SaveCompletedFails, SaveFailedFails
      <3>3. QED  BY <1>a, <3>1, <3>2
    <2> SUFFICES ASSUME ChunkOf[k] = c PROVE GuardedFile(c)'
      BY <2>0
    <2>2. CASE Found(k)
      BY <1>a, <2>2, MoveMoves DEF Found, FileExists, BeingWritten
    <2>3. CASE ReadCached(k)
      BY <1>a, <2>3, MoveMoves DEF ReadCached, BeingWritten
    <2>4. CASE MarkInProgress(k)
      <3>1. dl[c] # "IN_PROGRESS" /\ ~(dl[c] = "COMPLETED" /\ FileExists(c))
        BY <2>4 DEF MarkInProgress
      <3>2. \A j \in Calls : ~Downloads(j, c) /\ ~(call[j] = "read" /\ ChunkOf[j] = c)
        BY <1>a, <3>1 DEF FileExists
      <3>3. dl'[c] = "IN_PROGRESS" /\ disk' = disk /\ Settle(k, "fetch")
        BY <2>4 DEF MarkInProgress, ChunkTypeOK
      <3>4. QED  BY <1>a, <3>2, <3>3, SettleMoves
    <2>5. CASE Fetch(k)
      BY <1>a, <2>5, MoveMoves DEF Fetch
    <2>6. CASE OpenFile(k)
      BY <1>a, <2>6, MoveMoves DEF OpenFile
    <2>7. CASE CloseFile(k)
      BY <1>a, <2>7, MoveMoves DEF CloseFile, ChunkTypeOK
    <2>8. CASE WriteFails(k)
      BY <1>a, <2>8, MoveMoves DEF WriteFails, ChunkTypeOK
    <2>9. CASE SaveCompleted(k)
      <3>1. disk'[c] = "whole" /\ dl'[c] = "COMPLETED" /\ Settle(k, "whole")
        BY <1>a, <2>9 DEF SaveCompleted, ChunkTypeOK
      <3>2. \A j \in Calls \ {k} : ~Downloads(j, c) /\ ~(call[j] = "read" /\ ChunkOf[j] = c)
        BY <1>a, <2>9 DEF SaveCompleted
      <3>3. QED  BY <1>a, <3>1, <3>2, SettleMoves
    <2>10. CASE SaveFailed(k)
      <3>1. disk' = disk /\ dl'[c] = "FAILED" /\ Settle(k, "threw")
        BY <2>10 DEF SaveFailed, ChunkTypeOK
      <3>2. \A j \in Calls \ {k} : ~Downloads(j, c) /\ ~(call[j] = "read" /\ ChunkOf[j] = c)
        BY <1>a, <2>10 DEF SaveFailed
      <3>3. QED  BY <1>a, <3>1, <3>2, SettleMoves
    <2>11. CASE QueryFails(k)
      BY <1>a, <2>11, MoveMoves DEF QueryFails
    <2>12. CASE SaveCompletedFails(k)
      BY <1>a, <2>12, MoveMoves DEF SaveCompletedFails
    <2>13. CASE SaveFailedFails(k)
      BY <1>a, <2>13, MoveMoves DEF SaveFailedFails
    <2>14. QED
      BY <1>3, <2>2, <2>3, <2>4, <2>5, <2>6, <2>7, <2>8, <2>9, <2>10, <2>11, <2>12, <2>13
         DEF CallStep, CallFails, DatabaseFails
  <1>4. ASSUME NEW K \in SUBSET Calls, Call(K) PROVE GuardedFile(c)'
    BY <1>4, <1>a DEF Call
  <1>5. CASE UNCHANGED downloadVars
    BY <1>5, <1>a DEF downloadVars, chunkVars
  <1>6. QED
    BY <1>1, <1>2, <1>3, <1>4, <1>5 DEF ChunkNext

\* A call gets less than the chunk only if its row changed under a download, or was
\* completed for a file cut short, whatever calls, crashes and uploads interleave.
THEOREM RowGuardsFile == ChunkSpec => []TornOnlyAfterRace
  <1>1. ChunkInit => RaceInv
    BY DEF ChunkInit, RaceInv, GuardedFile, Downloads, Downloading
  <1>2. ChunkTypeOK /\ RaceInv => TornOnlyAfterRace
    BY ChunkDownloadAssumption DEF RaceInv, GuardedFile, TornOnlyAfterRace
  <1>3. QED
    BY <1>1, <1>2, ChunkTypeInit, ChunkTypeStep, RaceStep, PTL DEF ChunkSpec, downloadVars

-----------------------------------------------------------------------------
(* Readers of a file: FileDownload *)

\* What a reader has not asked for yet is asked for once: no call is started twice.
StartInv ==
    \A r \in Readers :
        /\ reader[r] \in {"idle", "find", "read", "wait", "mark"} => \A c \in Chunks : call[<<r, c>>] = "idle"
        /\ reader[r] = "info" => \A c \in data : call[<<r, c>>] = "idle"

\* Readers that will write the file or complete its row.  One that failed may have failed to
\* take the row, and then marks the row of another one as failed.
Active == Fetching \ {"failed"}

\* As long as no row was raced: one reader at most is active, and the row not COMPLETED then;
\* the file of a row COMPLETED is not cut short, and is there for one that is about to read it.
FileRaceInv ==
    ~fraced /\ raced = {} =>
        /\ \A r \in Readers : reader[r] \in Active =>
              fdl # "COMPLETED" /\ \A q \in Readers : reader[q] \in Active => q = r
        /\ fdl = "COMPLETED" => fdisk # "torn"
        /\ \A r \in Readers : /\ reader[r] = "read" => fdl = "COMPLETED" /\ fdisk # "none"
                              /\ reader[r] = "complete" => fdisk = "whole"
                              /\ reader[r] # "torn"

LEMMA TurnTurns ==
    ASSUME FileTypeOK, NEW r \in Readers, NEW pc, Turn(r, pc)
    PROVE  reader'[r] = pc /\ \A q \in Readers \ {r} : reader'[q] = reader[q]
  BY DEF Turn, FileTypeOK

\* Update moves its reader and wakes every reader that waits.
LEMMA UpdateWakes ==
    ASSUME FileTypeOK, NEW r \in Readers, NEW pc, Update(r, pc)
    PROVE  /\ reader'[r] = pc
           /\ \A q \in Readers \ {r} : \/ reader'[q] = reader[q] /\ reader[q] # "wait"
                                       \/ reader[q] = "wait" /\ reader'[q] = "find"
  BY DEF Update, FileTypeOK

\* A reader starts calls of its own, for chunks it has not asked for.
LEMMA StartIsCall ==
    ASSUME ChunkTypeOK, NEW r \in Readers, NEW C \in SUBSET Chunks, StartCalls(r, C)
    PROVE  /\ \A q \in Readers, c \in Chunks :
                 call'[<<q, c>>] = IF q = r /\ c \in C THEN "find" ELSE call[<<q, c>>]
           /\ (\A c \in C : call[<<r, c>>] = "idle") /\ UNCHANGED <<dl, onNetwork, disk, fetched, disturbances, history>>
                 => ChunkNext
  <1> DEFINE K == {<<r, c>> : c \in C}
  <1>1. Calls = Readers \X Chunks
    BY FileDownloadAssumption
  <1>2. K \in SUBSET Calls /\ call' = [k \in Calls |-> IF k \in K THEN "find" ELSE call[k]]
    BY <1>1 DEF StartCalls
  <1>3. \A q \in Readers, c \in Chunks : <<q, c>> \in K <=> q = r /\ c \in C
    OBVIOUS
  <1>4. ASSUME \A c \in C : call[<<r, c>>] = "idle", UNCHANGED <<dl, onNetwork, disk, fetched, disturbances, history>>
        PROVE  ChunkNext
    <2>1. \A k \in K : call[k] = "idle"
      BY <1>4
    <2>2. Call(K)
      BY <1>2, <1>4, <2>1 DEF Call
    <2>3. QED  BY <1>2, <2>2 DEF ChunkNext
  <1>5. \A q \in Readers, c \in Chunks :
           call'[<<q, c>>] = IF q = r /\ c \in C THEN "find" ELSE call[<<q, c>>]
    BY <1>1, <1>2, <1>3
  <1>6. QED  BY <1>4, <1>5

-----------------------------------------------------------------------------
(* FileDownload implements ChunkDownload *)

\* What the calls of getChunk see of a step of the readers: nothing, a crash, new calls, or
\* a step of their own.
LEMMA FileStepIsChunkStep ==
    FileTypeOK /\ StartInv /\ [Next]_vars => [ChunkNext]_downloadVars
  <1> SUFFICES ASSUME FileTypeOK, StartInv, [Next]_vars PROVE [ChunkNext]_downloadVars
    OBVIOUS
  <1> USE DEF downloadVars, chunkVars
  <1>0. ChunkTypeOK /\ data \subseteq Chunks /\ InfoChunk \in Chunks
    BY FileDownloadAssumption DEF FileTypeOK
  <1>1. CASE Crash
    BY <1>1 DEF Crash, ChunkCrash, ChunkNext
  <1>2. ASSUME NEW r \in Readers,
               GetFile(r) \/ FoundFile(r) \/ ReadFile(r) \/ ChunksArrive(r) \/ OpenAssembled(r)
               \/ CloseAssembled(r) \/ CompleteFile(r) \/ FailFile(r) \/ StreamArrives(r)
        PROVE  UNCHANGED downloadVars
    BY <1>2 DEF GetFile, FoundFile, ReadFile, ChunksArrive, OpenAssembled, CloseAssembled,
                CompleteFile, FailFile, StreamArrives, chunkFrame, rowFrame
  <1>3. ASSUME NEW r \in Readers, MarkFile(r) PROVE ChunkNext
    BY <1>0, <1>3, StartIsCall DEF MarkFile, StartInv, chunkFrame, rowFrame
  <1>4. ASSUME NEW r \in Readers, InfoArrives(r) PROVE [ChunkNext]_downloadVars
    <2>1. CASE UNCHANGED call
      BY <1>4, <2>1 DEF InfoArrives, chunkFrame, rowFrame
    <2>2. CASE StartCalls(r, data)
      BY <1>0, <1>4, <2>2, StartIsCall DEF InfoArrives, StartInv, chunkFrame, rowFrame
    <2>3. QED  BY <1>4, <2>1, <2>2 DEF InfoArrives
  <1>5. ASSUME NEW r \in Readers, StreamFile(r) PROVE ChunkNext
    BY <1>0, <1>5, StartIsCall DEF StreamFile, StartInv, chunkFrame, rowFrame
  <1>6. ASSUME NEW r \in Readers, FileOperationFails(r) PROVE EnqueueUpload
    \* A disturbance that no chunk sees, as an upload that finds everything in place.
    <2>1. disk' = [c \in Chunks |-> disk[c]] /\ dl' = [c \in Chunks |-> dl[c]] /\ raced' = raced
      BY <1>0, <1>6 DEF FileOperationFails, rowFrame, history, ChunkTypeOK
    <2> DEFINE nothing == {}
    <2>2. nothing \in SUBSET Chunks /\ nothing \in SUBSET (Chunks \ onNetwork)
      OBVIOUS
    <2>3. /\ disk' = [c \in Chunks |-> IF c \in nothing /\ ~FileExists(c) THEN "whole" ELSE disk[c]]
          /\ dl' = [c \in Chunks |-> IF c \in nothing THEN "COMPLETED" ELSE dl[c]]
          /\ raced' = raced \cup {c \in nothing : disk[c] = "torn" \/ \E k \in Calls : Downloads(k, c)}
      BY <2>1
    <2> HIDE DEF nothing
    <2>4. QED  BY <1>6, <2>2, <2>3 DEF FileOperationFails, rowFrame, EnqueueUpload, history
  <1>7. ASSUME EnqueueUpload \/ \E k \in Calls : CallStep(k) \/ CallFails(k) PROVE ChunkNext
    BY <1>7 DEF ChunkNext
  <1>8. CASE UNCHANGED vars
    BY <1>8 DEF vars
  <1>9. QED
    BY <1>1, <1>2, <1>3, <1>4, <1>5, <1>6, <1>7, <1>8 DEF Next, ReaderStep, ChunkNext

-----------------------------------------------------------------------------
(* Types, and calls that are started once *)

LEMMA FileTypeStep == FileTypeOK /\ StartInv /\ [Next]_vars => FileTypeOK'
  <1> SUFFICES ASSUME FileTypeOK, StartInv, [Next]_vars PROVE FileTypeOK'
    OBVIOUS
  <1>1. ChunkTypeOK'
    BY FileStepIsChunkStep, ChunkTypeStep DEF FileTypeOK
  <1> USE <1>1 DEF FileTypeOK, chunkFrame, rowFrame, DlStatus, Fetching, Results
  <1>2. CASE Crash
    BY <1>2 DEF Crash
  <1>3. ASSUME NEW r \in Readers,
               GetFile(r) \/ ReaderStep(r) \/ FileOperationFails(r) \/ StreamFile(r) \/ StreamArrives(r)
        PROVE  FileTypeOK'
    <2> USE DEF Turn, Update, Spared
    <2>1. CASE GetFile(r)              BY <2>1 DEF GetFile
    <2>2. CASE FoundFile(r)            BY <2>2 DEF FoundFile
    <2>3. CASE ReadFile(r)             BY <2>3 DEF ReadFile
    <2>4. CASE MarkFile(r)             BY <2>4 DEF MarkFile
    <2>5. CASE InfoArrives(r)          BY <2>5 DEF InfoArrives
    <2>6. CASE ChunksArrive(r)         BY <2>6 DEF ChunksArrive
    <2>7. CASE OpenAssembled(r)        BY <2>7 DEF OpenAssembled
    <2>8. CASE CloseAssembled(r)       BY <2>8 DEF CloseAssembled, Assembled
    <2>9. CASE CompleteFile(r)         BY <2>9 DEF CompleteFile, Assembled
    <2>10. CASE FailFile(r)            BY <2>10 DEF FailFile
    <2>11. CASE FileOperationFails(r) BY <2>11 DEF FileOperationFails
    <2>12. CASE StreamFile(r)          BY <2>12 DEF StreamFile
    <2>13. CASE StreamArrives(r)       BY <2>13 DEF StreamArrives
    <2>14. QED
      BY <1>3, <2>1, <2>2, <2>3, <2>4, <2>5, <2>6, <2>7, <2>8, <2>9, <2>10, <2>11, <2>12, <2>13
         DEF ReaderStep
  <1>4. CASE UNCHANGED fileVars
    BY <1>4 DEF fileVars
  <1>5. QED
    BY <1>2, <1>3, <1>4 DEF Next, vars

\* Calls that have not begun begin only when their reader starts them.
LEMMA IdleStaysIdle ==
    ASSUME ChunkTypeOK, NEW k \in Calls, call[k] = "idle",
           ChunkCrash \/ EnqueueUpload \/ \E j \in Calls : CallStep(j) \/ CallFails(j)
    PROVE  call'[k] = "idle"
  <1>1. CASE ChunkCrash \/ EnqueueUpload
    BY <1>1 DEF ChunkCrash, CrashChunks, EnqueueUpload
  <1>2. ASSUME NEW j \in Calls, CallStep(j) \/ CallFails(j) PROVE call'[k] = "idle"
    <2>1. j # k
      BY <1>2 DEF CallStep, Found, ReadCached, MarkInProgress, Fetch, OpenFile, CloseFile,
                  SaveCompleted, SaveFailed, CallFails, WriteFails,
           DatabaseFails, QueryFails, SaveCompletedFails, SaveFailedFails
    <2>2. QED
      BY <1>2, <2>1, MoveMoves, SettleMoves DEF CallStep, Found, ReadCached, MarkInProgress, Fetch,
         OpenFile, CloseFile, SaveCompleted, SaveFailed, CallFails, WriteFails,
           DatabaseFails, QueryFails, SaveCompletedFails, SaveFailedFails
  <1>3. QED  BY <1>1, <1>2

LEMMA StartStep == FileTypeOK /\ StartInv /\ [Next]_vars => StartInv'
  <1> SUFFICES ASSUME FileTypeOK, StartInv, [Next]_vars, NEW q \in Readers
               PROVE  /\ reader'[q] \in {"idle", "find", "read", "wait", "mark"} =>
                            \A c \in Chunks : call'[<<q, c>>] = "idle"
                      /\ reader'[q] = "info" => \A c \in data' : call'[<<q, c>>] = "idle"
    BY DEF StartInv
  <1> DEFINE Early == {"idle", "find", "read", "wait", "mark"}
             Goal == /\ reader'[q] \in Early => \A c \in Chunks : call'[<<q, c>>] = "idle"
                     /\ reader'[q] = "info" => \A c \in data' : call'[<<q, c>>] = "idle"
  <1>0. ChunkTypeOK /\ data \subseteq Chunks /\ InfoChunk \in Chunks
    BY FileDownloadAssumption DEF FileTypeOK
  <1>a. /\ reader[q] \in Early => \A c \in Chunks : call[<<q, c>>] = "idle"
        /\ reader[q] = "info" => \A c \in data : call[<<q, c>>] = "idle"
    BY DEF StartInv
  <1>b. \A c \in Chunks : <<q, c>> \in Calls
    BY FileDownloadAssumption
  <1>1. CASE Crash
    <2>1. ChunkCrash
      BY <1>1 DEF Crash, ChunkCrash
    <2>2. reader'[q] \in Early => reader[q] = "idle"
      BY <1>1 DEF Crash, Results
    <2>3. reader'[q] # "info"
      BY <1>1 DEF Crash, Results
    <2>4. QED  BY <1>0, <1>a, <1>b, <2>1, <2>2, <2>3, IdleStaysIdle
  <1>2. ASSUME EnqueueUpload \/ \E k \in Calls : CallStep(k) \/ CallFails(k), UNCHANGED fileVars
        PROVE  Goal
    BY <1>0, <1>a, <1>b, <1>2, IdleStaysIdle DEF fileVars
  <1>3. CASE UNCHANGED vars
    BY <1>3, <1>a DEF vars, fileVars, chunkVars
  <1>4. ASSUME NEW r \in Readers,
               GetFile(r) \/ ReaderStep(r) \/ FileOperationFails(r) \/ StreamFile(r) \/ StreamArrives(r)
        PROVE  Goal
    <2>0. data' = data
      BY <1>4 DEF GetFile, ReaderStep, FileOperationFails, StreamFile, StreamArrives, FoundFile, ReadFile,
         MarkFile, InfoArrives, ChunksArrive, OpenAssembled, CloseAssembled, CompleteFile, FailFile, chunkFrame, rowFrame
    <2>1. ASSUME call' = call, NEW pc, Turn(r, pc) \/ Update(r, pc), pc # "info",
                 pc \in Early => reader[r] \in Early
          PROVE  Goal
      BY <1>a, <2>0, <2>1, TurnTurns, UpdateWakes
    <2>2. CASE GetFile(r)              BY <2>1, <2>2 DEF GetFile
    <2>3. CASE FoundFile(r)            BY <2>1, <2>3 DEF FoundFile
    <2>4. CASE ReadFile(r)             BY <2>1, <2>4 DEF ReadFile
    <2>5. CASE MarkFile(r)
      <3>1. StartCalls(r, {InfoChunk}) /\ Update(r, "info") /\ reader[r] = "mark"
        BY <2>5 DEF MarkFile
      <3>2. InfoChunk \notin data
        BY DEF FileTypeOK
      <3>3. QED
        BY <1>0, <1>a, <2>0, <3>1, <3>2, StartIsCall, UpdateWakes
    <2>6. CASE InfoArrives(r)
      <3>1. CASE UNCHANGED call
        BY <2>1, <2>6, <3>1 DEF InfoArrives
      <3>2. CASE StartCalls(r, data) /\ Turn(r, "chunks")
        BY <1>0, <1>a, <2>0, <3>2, StartIsCall, TurnTurns
      <3>3. QED  BY <2>6, <3>1, <3>2 DEF InfoArrives
    <2>7. CASE ChunksArrive(r)         BY <2>1, <2>7 DEF ChunksArrive
    <2>8. CASE OpenAssembled(r)        BY <2>1, <2>8 DEF OpenAssembled
    <2>9. CASE CloseAssembled(r)       BY <2>1, <2>9 DEF CloseAssembled
    <2>10. CASE CompleteFile(r)        BY <2>1, <2>10 DEF CompleteFile, Assembled
    <2>11. CASE FailFile(r)            BY <2>1, <2>11 DEF FailFile
    <2>12. CASE FileOperationFails(r) BY <2>1, <2>12 DEF FileOperationFails
    <2>13. CASE StreamFile(r)
      BY <1>0, <1>a, <2>0, <2>13, StartIsCall, TurnTurns DEF StreamFile
    <2>14. CASE StreamArrives(r)       BY <2>1, <2>14 DEF StreamArrives
    <2>15. QED
      BY <1>4, <2>2, <2>3, <2>4, <2>5, <2>6, <2>7, <2>8, <2>9, <2>10, <2>11, <2>12, <2>13, <2>14
         DEF ReaderStep
  <1>5. QED
    BY <1>1, <1>2, <1>3, <1>4 DEF Next

LEMMA FileStart == Init => FileTypeOK /\ StartInv
  <1> SUFFICES ASSUME Init PROVE FileTypeOK /\ StartInv
    OBVIOUS
  <1>1. \A r \in Readers, c \in Chunks : <<r, c>> \in Calls
    BY FileDownloadAssumption
  <1>2. FileTypeOK
    BY ChunkTypeInit DEF Init, FileTypeOK, DlStatus
  <1>3. StartInv
    BY <1>1 DEF Init, ChunkInit, StartInv
  <1>4. QED  BY <1>2, <1>3

\* File rows, the assembled file and the readers keep their types.
THEOREM FileTypeCorrect == Spec => []FileTypeOK
  BY FileStart, FileTypeStep, StartStep, PTL DEF Spec

\* getFile and getFileAsReadStream use getChunk as its specification allows: every call is
\* begun once, and nothing but its own steps, uploads and crashes moves it.
THEOREM FileImplementsChunks == Spec => ChunkSpec
  <1>1. Init => ChunkInit
    BY DEF Init
  <1>2. QED
    BY <1>1, FileStart, FileTypeStep, StartStep, FileStepIsChunkStep, PTL DEF Spec, ChunkSpec, downloadVars

\* What holds of getChunk by itself holds of it under the readers of a file.
THEOREM ReadersWaitForNoDeadRow == Spec => [](NoOrphanWaiter /\ TornOnlyAfterRace)
  BY FileImplementsChunks, NobodyWaitsInVain, RowGuardsFile, PTL

-----------------------------------------------------------------------------
(* Nobody waits in vain for a file *)

LEMMA FileWaiterStep == FileTypeOK /\ FileNoOrphanWaiter /\ [Next]_vars => FileNoOrphanWaiter'
  <1> DEFINE Fetched == \E r \in Readers : reader[r] \in Fetching
             Settled == /\ fdl = "IN_PROGRESS" => Fetched
                        /\ \A r \in Readers : reader[r] = "wait" => Fetched
  <1> SUFFICES ASSUME FileTypeOK, FileNoOrphanWaiter, [Next]_vars, ~fstuck' PROVE Settled'
    BY DEF FileNoOrphanWaiter
  <1>0. ~fstuck
    BY DEF Next, vars, fileVars, chunkFrame, rowFrame, Crash, GetFile, ReaderStep, FileOperationFails, StreamFile,
           StreamArrives, FoundFile, ReadFile, MarkFile, InfoArrives, ChunksArrive, OpenAssembled,
           CloseAssembled, CompleteFile, FailFile, FileTypeOK
  <1>a. Settled
    BY <1>0 DEF FileNoOrphanWaiter
  <1>1. CASE Crash
    <2>1. fdl' # "IN_PROGRESS"
      BY <1>1 DEF Crash, FileTypeOK
    <2>2. \A r \in Readers : reader'[r] # "wait"
      BY <1>1 DEF Crash, Results
    <2>3. QED  BY <2>1, <2>2
  <1>2. CASE UNCHANGED fileVars
    BY <1>2, <1>a DEF fileVars
  <1>3. ASSUME NEW r \in Readers,
               GetFile(r) \/ ReaderStep(r) \/ FileOperationFails(r) \/ StreamFile(r) \/ StreamArrives(r)
        PROVE  Settled'
    <2>1. ASSUME NEW pc, Turn(r, pc), pc # "wait", fdl' = fdl, reader[r] \in Fetching => pc \in Fetching
          PROVE  Settled'
      BY <1>a, <2>1, TurnTurns
    <2>2. ASSUME NEW pc, Update(r, pc), pc # "wait", fdl' = "IN_PROGRESS" => pc \in Fetching
          PROVE  Settled'
      BY <2>2, UpdateWakes
    <2>3. CASE GetFile(r)              BY <2>1, <2>3 DEF GetFile, Fetching
    <2>4. CASE FoundFile(r)
      <3>1. CASE fdl = "IN_PROGRESS" /\ Turn(r, "wait")
        BY <1>a, <2>4, <3>1, TurnTurns DEF FoundFile, Fetching
      <3>2. CASE Turn(r, "read") \/ Turn(r, "mark")
        BY <2>1, <2>4, <3>2 DEF FoundFile, Fetching
      <3>3. QED  BY <2>4, <3>1, <3>2 DEF FoundFile
    <2>5. CASE ReadFile(r)             BY <2>1, <2>5 DEF ReadFile, Fetching
    <2>6. CASE MarkFile(r)             BY <2>2, <2>6 DEF MarkFile, Fetching
    <2>7. CASE InfoArrives(r)          BY <2>1, <2>7 DEF InfoArrives, Fetching
    <2>8. CASE ChunksArrive(r)         BY <2>1, <2>8 DEF ChunksArrive, Fetching
    <2>9. CASE OpenAssembled(r)        BY <2>1, <2>9 DEF OpenAssembled, Fetching
    <2>10. CASE CloseAssembled(r)      BY <2>1, <2>10 DEF CloseAssembled, Fetching
    <2>11. CASE FileOperationFails(r)
      <3>1. CASE reader[r] # "failed"
        BY <2>1, <2>11, <3>1 DEF FileOperationFails, Fetching
      <3>2. CASE reader[r] = "failed"
        \* Nobody is woken: another reader fetches, or there is nothing to settle.
        <4>1. fdl' = fdl /\ Turn(r, "threw")
          BY <2>11, <3>2 DEF FileOperationFails
        <4>2. CASE \E q \in Readers \ {r} : reader[q] \in Fetching
          BY <4>1, <4>2, TurnTurns
        <4>3. CASE fdl # "IN_PROGRESS" /\ \A q \in Readers : reader[q] # "wait"
          BY <4>1, <4>3, TurnTurns
        <4>4. QED  BY <2>11, <3>2, <4>2, <4>3 DEF FileOperationFails
      <3>3. QED  BY <3>1, <3>2
    <2>12. CASE CompleteFile(r)        BY <2>2, <2>12 DEF CompleteFile, Assembled
    <2>13. CASE FailFile(r)            BY <2>2, <2>13 DEF FailFile, Spared
    <2>14. CASE StreamFile(r)          BY <2>1, <2>14 DEF StreamFile, Fetching
    <2>15. CASE StreamArrives(r)
      <3>1. CASE fdl' = "COMPLETED" /\ Update(r, call[<<r, InfoChunk>>]) /\ call[<<r, InfoChunk>>] \in {"whole", "torn"}
        BY <2>2, <3>1
      <3>2. CASE fdl' = fdl /\ Turn(r, call[<<r, InfoChunk>>]) /\ call[<<r, InfoChunk>>] \in {"threw", "whole", "torn"}
        BY <2>1, <2>15, <3>2 DEF StreamArrives, Fetching
      <3>3. QED  BY <2>15, <3>1, <3>2 DEF StreamArrives
    <2>16. QED
      BY <1>3, <2>3, <2>4, <2>5, <2>6, <2>7, <2>8, <2>9, <2>10, <2>11, <2>12, <2>13, <2>14, <2>15
         DEF ReaderStep
  <1>4. QED
    BY <1>1, <1>2, <1>3 DEF Next, vars

\* A reader waits for the row of the file only while another one will settle it: completed,
\* failed and spared updates all wake the waiting readers.  Excepted are a row in progress at
\* a crash and one whose last reader failed and could not mark the file as failed.
THEOREM NobodyWaitsForADeadFile == Spec => []FileNoOrphanWaiter
  <1>1. Init => FileNoOrphanWaiter
    BY DEF Init, FileNoOrphanWaiter
  <1>2. QED
    BY <1>1, FileStart, FileTypeStep, StartStep, FileWaiterStep, PTL DEF Spec

-----------------------------------------------------------------------------
(* The file row guards the assembled file *)

LEMMA FileRaceStep ==
    FileTypeOK /\ TornOnlyAfterRace /\ FileRaceInv /\ [Next]_vars => FileRaceInv'
  <1> DEFINE Calm == ~fraced /\ raced = {}
             Owned == \A r \in Readers : reader[r] \in Active =>
                         fdl # "COMPLETED" /\ \A q \in Readers : reader[q] \in Active => q = r
             Whole == fdl = "COMPLETED" => fdisk # "torn"
             Held(r) == /\ reader[r] = "read" => fdl = "COMPLETED" /\ fdisk # "none"
                        /\ reader[r] = "complete" => fdisk = "whole"
                        /\ reader[r] # "torn"
             Safe == Owned /\ Whole /\ \A r \in Readers : Held(r)
  <1> SUFFICES ASSUME FileTypeOK, TornOnlyAfterRace, FileRaceInv, [Next]_vars, Calm' PROVE Safe'
    BY DEF FileRaceInv
  <1>0. Calm
    <2>1. fraced => fraced'
      BY DEF Next, vars, fileVars, chunkFrame, rowFrame, Crash, GetFile, ReaderStep, FileOperationFails, StreamFile,
             StreamArrives, FoundFile, ReadFile, MarkFile, InfoArrives, ChunksArrive, OpenAssembled,
             CloseAssembled, CompleteFile, FailFile, FileTypeOK
    <2>2. raced \subseteq raced'
      BY DEF Next, vars, chunkVars, history, fileVars, chunkFrame, rowFrame, Crash, CrashChunks,
             EnqueueUpload, GetFile,
             ReaderStep, FileOperationFails, StreamFile, StreamArrives, FoundFile, ReadFile, MarkFile,
             InfoArrives, ChunksArrive, OpenAssembled, CloseAssembled, CompleteFile, FailFile, CallStep,
             Found, ReadCached, MarkInProgress, Fetch, OpenFile, CloseFile, SaveCompleted, SaveFailed,
             CallFails, WriteFails, DatabaseFails, QueryFails, SaveCompletedFails, SaveFailedFails
    <2>3. QED  BY <2>1, <2>2
  <1>a. Safe
    BY <1>0 DEF FileRaceInv
  <1>b. \A r \in Readers, c \in Chunks : call[<<r, c>>] # "torn"
    BY <1>0, FileDownloadAssumption DEF TornOnlyAfterRace
  <1>1. CASE Crash
    BY <1>1, <1>a DEF Crash, FileBeingWritten, Active, Fetching, Results, FileTypeOK
  <1>2. CASE UNCHANGED fileVars
    BY <1>2, <1>a DEF fileVars
  <1>3. ASSUME NEW r \in Readers,
               GetFile(r) \/ ReaderStep(r) \/ FileOperationFails(r) \/ StreamFile(r) \/ StreamArrives(r)
        PROVE  Safe'
    <2>1. ASSUME NEW pc, Turn(r, pc), fdl' = fdl, fdisk' = fdisk, pc \in Active => reader[r] \in Active,
                 pc \notin {"read", "complete", "torn"}
          PROVE  Safe'
      BY <1>a, <2>1, TurnTurns
    <2>2. CASE GetFile(r)              BY <2>1, <2>2 DEF GetFile, Active, Fetching
    <2>3. CASE FoundFile(r)
      <3>1. CASE fdl = "COMPLETED" /\ AssembledExists /\ Turn(r, "read")
        BY <1>a, <2>3, <3>1, TurnTurns DEF FoundFile, AssembledExists, FileBeingWritten, Active, Fetching
      <3>2. CASE Turn(r, "wait") \/ Turn(r, "mark")
        BY <2>1, <2>3, <3>2 DEF FoundFile, Active, Fetching
      <3>3. QED  BY <2>3, <3>1, <3>2 DEF FoundFile
    <2>4. CASE ReadFile(r)
      <3>1. ~(fdisk = "torn" \/ FileBeingWritten)
        BY <1>a, <2>4 DEF ReadFile, FileBeingWritten, Active, Fetching
      <3>2. QED  BY <2>1, <2>4, <3>1 DEF ReadFile, Active, Fetching
    <2>5. CASE MarkFile(r)
      <3>1. fdl # "COMPLETED" /\ \A q \in Readers : reader[q] \notin Fetching
        BY <2>5 DEF MarkFile
      <3>2. fdl' = "IN_PROGRESS" /\ Update(r, "info")
        BY <2>5, <3>1 DEF MarkFile, Spared
      <3>3. QED  BY <1>a, <3>1, <3>2, UpdateWakes DEF Active, Fetching
    <2>6. CASE InfoArrives(r)          BY <2>1, <2>6 DEF InfoArrives, Active, Fetching
    <2>7. CASE ChunksArrive(r)         BY <2>1, <2>7 DEF ChunksArrive, Active, Fetching
    <2>8. CASE OpenAssembled(r)        BY <2>1, <2>8 DEF OpenAssembled, Active, Fetching
    <2>9. CASE CloseAssembled(r)
      <3>1. fdisk' = "whole" /\ Turn(r, "complete") /\ fdl' = fdl /\ reader[r] \in Active
        BY <1>b, <2>9 DEF CloseAssembled, Assembled, Active, Fetching
      <3>2. QED  BY <1>a, <3>1, TurnTurns DEF Active, Fetching
    <2>10. CASE FileOperationFails(r)
      <3>1. CASE reader[r] = "writing"
        <4>1. fdisk' = "torn" /\ Turn(r, "failed") /\ fdl' = fdl
          BY <2>10, <3>1 DEF FileOperationFails
        <4>2. QED  BY <1>a, <3>1, <4>1, TurnTurns DEF Active, Fetching
      <3>2. CASE reader[r] # "writing"
        BY <2>1, <2>10, <3>2 DEF FileOperationFails, Active, Fetching
      <3>3. QED  BY <3>1, <3>2
    <2>11. CASE CompleteFile(r)
      <3>1. fdl' = "COMPLETED" /\ Update(r, "whole") /\ fdisk' = fdisk /\ reader[r] = "complete"
        BY <1>b, <2>11 DEF CompleteFile, Assembled
      <3>2. QED  BY <1>a, <3>1, UpdateWakes DEF Active, Fetching
    <2>12. CASE FailFile(r)
      <3>1. (fdl' = "COMPLETED" <=> fdl = "COMPLETED") /\ Update(r, "threw") /\ fdisk' = fdisk /\ reader[r] = "failed"
        BY <1>a, <2>12 DEF FailFile, Spared, Active, Fetching
      <3>2. QED  BY <1>a, <3>1, UpdateWakes DEF Active, Fetching
    <2>13. CASE StreamFile(r)          BY <2>1, <2>13 DEF StreamFile, Active, Fetching
    <2>14. CASE StreamArrives(r)
      <3>1. call[<<r, InfoChunk>>] # "torn"
        BY <1>b, FileDownloadAssumption
      <3>2. CASE fdl' = "COMPLETED" /\ Update(r, "whole") /\ fdisk' = fdisk /\ fdisk # "torn"
                 /\ \A q \in Readers : reader[q] \notin Fetching
        BY <1>a, <3>2, UpdateWakes DEF Active, Fetching
      <3>3. CASE fdl' = fdl /\ fdisk' = fdisk /\ (Turn(r, "threw") \/ Turn(r, "whole"))
        BY <2>1, <3>3 DEF Active, Fetching
      <3>4. QED  BY <2>14, <3>1, <3>2, <3>3 DEF StreamArrives
    <2>15. QED
      BY <1>3, <2>2, <2>3, <2>4, <2>5, <2>6, <2>7, <2>8, <2>9, <2>10, <2>11, <2>12, <2>13, <2>14
         DEF ReaderStep
  <1>4. QED
    BY <1>1, <1>2, <1>3 DEF Next, vars

\* A reader gets less than the file only if two readers had taken its row, a stream completed
\* the row of a file that was not whole, or a chunk was damaged under a race of its own.
THEOREM FileRowGuardsFile == Spec => []FileTornOnlyAfterRace
  <1>1. Init => FileRaceInv
    BY DEF Init, FileRaceInv, Active, Fetching
  <1>2. FileRaceInv => FileTornOnlyAfterRace
    BY DEF FileRaceInv, FileTornOnlyAfterRace
  <1>3. QED
    BY <1>1, <1>2, FileStart, FileTypeStep, StartStep, FileRaceStep, ReadersWaitForNoDeadRow, PTL DEF Spec
=============================================================================
