--------------------------- MODULE UploadProgress ---------------------------
(***************************************************************************)
(* From uploaded chunks to uploaded files and directories: progress.ts     *)
(* keeps in memory what it knows of chunks, files and the directory, takes *)
(* the completed chunks from a queue one at a time, and writes the rows    *)
(* that waitForFileToUpload and waitForDirToUpload wait for.               *)
(*                                                                         *)
(* uploadDir without waiting uploads the files of one directory, then the  *)
(* file that lists them, whose id is the id of the directory, and enters   *)
(* the directory map last, while the chunks are already being uploaded.    *)
(* Two activities update the progress: the queue, and a client that polls  *)
(* getDirProgress.  A step ends at an await of the code, or earlier.       *)
(***************************************************************************)
EXTENDS Naturals, Sequences, FiniteSets

CONSTANTS
    Chunks,
    Files,
    Dir,         \* the file that lists the directory; its id is the directory's
    ChunksOf     \* ChunksOf[f]: the chunk ids of a file, in order

ASSUME UploadProgressAssumption ==
    /\ Dir \in Files
    /\ ChunksOf \in [Files -> Seq(Chunks) \ {<<>>}]

VARIABLES
    ul,            \* the chunk rows: "NONE" is a row that is not there
    stage,         \* how far uploadData of each file is
    mapped,        \* files with rows in FileMap
    dirMap,        \* files with a row in DirMap, in order
    ful,           \* ul_status of the file rows
    dul,           \* dir_ul_status of the directory's row
    chunkCache,    \* chunkUploadCache
    chunkParents,  \* chunkParents_useKeysAsFileIDs
    fileCache,     \* fileUploadCache; progress counts completed chunks
    fileParents,   \* files that have Dir in fileParents_useKeysAsDirIDs
    dirCache,      \* dirUploadCache[Dir]
    queue,         \* progressUpdateQueue
    act,           \* the two activities
    missed,        \* history: files mapped after the last of their chunks had left the queue,
                   \* or whose last chunk was completed by a download with none in the queue
    partial        \* history: the directory was read or found complete before all its
                   \* files were entered

uploadVars == <<ul, stage, mapped, dirMap>>
rowVars    == <<ful, dul>>
cacheVars  == <<chunkCache, chunkParents, fileCache, fileParents, dirCache>>
history    == <<missed, partial>>
vars == <<uploadVars, rowVars, cacheVars, queue, act, history>>

UlStatus == {"NOT_STARTED", "IN_PROGRESS", "COMPLETED", "FAILED"}
ChunkStatus == {"NONE", "ENQUEUED", "COMPLETED", "FAILED"}

Activities == {"queue", "poll"}

Unknown == [known |-> FALSE, uploaded |-> FALSE, failed |-> FALSE, progress |-> 0]
Fresh == [Unknown EXCEPT !.known = TRUE]
NoDir == [known |-> FALSE, uploaded |-> FALSE, failed |-> FALSE, members |-> <<>>]

ChunkSet(f) == {ChunksOf[f][i] : i \in 1..Len(ChunksOf[f])}
AllUploaded(f) == \A c \in ChunkSet(f) : ul[c] = "COMPLETED"
\* A chunk of the file is in the queue.
Queued(f) == \E i \in 1..Len(queue) : queue[i] \in ChunkSet(f)
Entered == {dirMap[i] : i \in 1..Len(dirMap)}

\* The frame of an activity: where it is, what updateFileProgress works on and for whom,
\* the files of the chunk still to do, the directory entries still to fill in, and the
\* counters of the two loops.
Idle == [pc |-> "idle", caller |-> "chunk", file |-> Dir, rest |-> <<>>, done |-> 0,
         failed |-> FALSE, chunk |-> ChunksOf[Dir][1], files |-> {}, entries |-> <<>>,
         pos |-> 1, good |-> 0, bad |-> 0]

Frame == [pc : {"idle", "parents", "file", "fillFile", "count", "saveFile",
                "dir", "readDir", "fill", "members", "saveDir"},
          caller : {"chunk", "fill", "members"}, file : Files, rest : Seq(Chunks), done : Nat,
          failed : BOOLEAN, chunk : Chunks, files : SUBSET Files, entries : Seq(Files),
          pos : Nat \ {0}, good : Nat, bad : Nat]

TypeOK ==
    /\ ul \in [Chunks -> ChunkStatus]
    /\ stage \in [Files -> {"none", "rows", "mapped", "marked"}]
    /\ mapped \subseteq Files
    /\ dirMap \in Seq(Files)
    /\ ful \in [Files -> UlStatus] /\ dul \in UlStatus
    /\ chunkCache \in [Chunks -> ChunkStatus]
    /\ chunkParents \in [Chunks -> SUBSET Files]
    /\ fileCache \in [Files -> [known : BOOLEAN, uploaded : BOOLEAN, failed : BOOLEAN, progress : Nat]]
    /\ fileParents \subseteq Files
    /\ dirCache \in [known : BOOLEAN, uploaded : BOOLEAN, failed : BOOLEAN, members : Seq(Files)]
    /\ queue \in Seq(Chunks)
    /\ act \in [Activities -> Frame]
    /\ missed \subseteq Files /\ partial \in BOOLEAN

\* Some chunks may be on the network already: downloaded earlier, which completes their
\* row, or part of a file uploaded before the node was restarted.
Init ==
    /\ ul \in [Chunks -> {"NONE", "COMPLETED"}]
    /\ stage = [f \in Files |-> "none"]
    /\ mapped = {} /\ dirMap = <<>>
    /\ ful = [f \in Files |-> "NOT_STARTED"] /\ dul = "NOT_STARTED"
    /\ chunkCache = [c \in Chunks |-> "NONE"]
    /\ chunkParents = [c \in Chunks |-> {}]
    /\ fileCache = [f \in Files |-> Unknown]
    /\ fileParents = {} /\ dirCache = NoDir
    /\ queue = <<>>
    /\ act = [a \in Activities |-> Idle]
    /\ missed = {} /\ partial = FALSE

-----------------------------------------------------------------------------
(* uploadDir and uploadData *)

\* enqueueChunksForUpload inserts the chunk rows; the list of files comes last.
EnqueueRows(f) ==
    /\ stage[f] = "none"
    /\ f = Dir => \A g \in Files \ {Dir} : stage[g] = "marked"
    /\ stage' = [stage EXCEPT ![f] = "rows"]
    /\ ul' = [c \in Chunks |-> IF c \in ChunkSet(f) /\ ul[c] # "COMPLETED" THEN "ENQUEUED" ELSE ul[c]]
    /\ UNCHANGED <<mapped, dirMap, rowVars, cacheVars, queue, act, history>>

\* The FileMap rows, and the parents in memory.
MapChunks(f) ==
    /\ stage[f] = "rows"
    /\ stage' = [stage EXCEPT ![f] = "mapped"]
    /\ mapped' = mapped \cup {f}
    /\ chunkParents' = [c \in Chunks |-> IF c \in ChunkSet(f) THEN chunkParents[c] \cup {f} ELSE chunkParents[c]]
    /\ missed' = IF AllUploaded(f) /\ ~Queued(f) THEN missed \cup {f} ELSE missed
    /\ UNCHANGED <<ul, dirMap, rowVars, chunkCache, fileCache, fileParents, dirCache, queue, act, partial>>


MarkFileAsBeingUploaded(f) ==
    /\ stage[f] = "mapped"
    /\ stage' = [stage EXCEPT ![f] = "marked"]
    /\ ful' = [ful EXCEPT ![f] = IF @ = "NOT_STARTED" THEN "IN_PROGRESS" ELSE @]
    /\ UNCHANGED <<ul, mapped, dirMap, dul, cacheVars, queue, act, history>>

\* DirMap.upsert and addDirAsFileParent: the files in any order, the directory itself last.
EnterFile(f) ==
    /\ stage[Dir] = "marked"
    /\ f \notin Entered
    /\ f = Dir => Files \ {Dir} \subseteq Entered
    /\ dirMap' = Append(dirMap, f)
    /\ fileParents' = fileParents \cup {f}
    /\ UNCHANGED <<ul, stage, mapped, rowVars, chunkCache, chunkParents, fileCache, dirCache, queue, act, history>>

\* A worker completes the row of a chunk and reports the chunk.
CompleteChunk(c) ==
    /\ ul[c] = "ENQUEUED"
    /\ ul' = [ul EXCEPT ![c] = "COMPLETED"]
    /\ queue' = Append(queue, c)
    /\ UNCHANGED <<stage, mapped, dirMap, rowVars, cacheVars, act, history>>

\* Or it has run out of retries; nothing is reported.
FailChunk(c) ==
    /\ ul[c] = "ENQUEUED"
    /\ ul' = [ul EXCEPT ![c] = "FAILED"]
    /\ UNCHANGED <<stage, mapped, dirMap, rowVars, cacheVars, queue, act, history>>

\* A download completes the row of a chunk it has fetched, whatever the row says: there may be
\* none, it may wait for a worker, have failed, or have been completed since the download read
\* it.  Nothing is reported; the hook of the model hands the cache no status, which makes it
\* forget the chunk.  (Of a row that stays COMPLETED it can only forget an older status: the
\* same one would be read again.)
CompleteByDownload(c) ==
    /\ ul[c] # "COMPLETED" \/ chunkCache[c] \in {"ENQUEUED", "FAILED"}
    /\ ul' = [ul EXCEPT ![c] = "COMPLETED"]
    /\ chunkCache' = [chunkCache EXCEPT ![c] = "NONE"]
    /\ missed' = missed \cup {f \in mapped : /\ c \in ChunkSet(f) /\ ul[c] # "COMPLETED"
                                            /\ \A d \in ChunkSet(f) \ {c} : ul[d] = "COMPLETED"
                                            /\ ~Queued(f)}
    /\ UNCHANGED <<stage, mapped, dirMap, rowVars, chunkParents, fileCache, fileParents, dirCache, queue, act, partial>>

-----------------------------------------------------------------------------
(* The queue *)

To(a, pc) == [act EXCEPT ![a].pc = pc]

\* processQueue takes the next chunk; it is active as long as the activity is not idle.
NextChunk ==
    /\ act["queue"].pc = "idle" /\ queue # <<>>
    /\ LET c == Head(queue)
       IN  /\ chunkCache' = [chunkCache EXCEPT ![c] = "COMPLETED"]
           /\ act' = [act EXCEPT !["queue"] =
                        [Idle EXCEPT !.pc = IF chunkParents[c] = {} THEN "parents" ELSE "file",
                                     !.chunk = c, !.files = chunkParents[c]]]
    /\ queue' = Tail(queue)
    /\ UNCHANGED <<uploadVars, rowVars, chunkParents, fileCache, fileParents, dirCache, history>>

\* No parents in memory: look them up.  Without rows in FileMap Object.keys throws.
LoadParents ==
    LET c == act["queue"].chunk
        found == {f \in mapped : c \in ChunkSet(f)}
    IN  /\ act["queue"].pc = "parents"
        /\ chunkParents' = [chunkParents EXCEPT ![c] = @ \cup found]
        /\ act' = [act EXCEPT !["queue"] =
                     IF chunkParents[c] \cup found = {} THEN Idle
                     ELSE [@ EXCEPT !.pc = "file", !.files = chunkParents[c] \cup found]]
        /\ UNCHANGED <<uploadVars, rowVars, chunkCache, fileCache, fileParents, dirCache, queue, history>>

\* The chunk's files in turn.
NextFile ==
    /\ act["queue"].pc = "file"
    /\ \/ act["queue"].files = {} /\ act' = [act EXCEPT !["queue"] = Idle]
       \/ \E f \in act["queue"].files :
             act' = [act EXCEPT !["queue"] =
                       [@ EXCEPT !.files = act["queue"].files \ {f}, !.caller = "chunk", !.file = f,
                                 !.rest = ChunksOf[f], !.done = 0, !.failed = FALSE,
                                 !.pc = IF ~fileCache[f].known THEN "fillFile"
                                        ELSE IF fileCache[f].uploaded \/ fileCache[f].failed THEN "file"
                                        ELSE "count"]]
    /\ UNCHANGED <<uploadVars, rowVars, cacheVars, queue, history>>

-----------------------------------------------------------------------------
(* updateFileProgress *)

\* Where a call of updateFileProgress goes on: its caller, or first the directories.
Return(a) == CASE act[a].caller = "chunk" -> "file"
               [] act[a].caller = "fill" -> "fill"
               [] act[a].caller = "members" -> "members"

ReturnUpdated(a) ==
    IF act[a].caller = "chunk" /\ act[a].file \in fileParents THEN "dir" ELSE Return(a)

\* The rows of FileMap and File; whoever filled the cache meanwhile is overwritten.
FillFile(a) ==
    LET f == act[a].file
    IN  /\ act[a].pc = "fillFile"
        /\ fileCache' = [fileCache EXCEPT ![f] = Fresh]
        /\ chunkParents' = [c \in Chunks |-> IF c \in ChunkSet(f) THEN chunkParents[c] \cup {f} ELSE chunkParents[c]]
        /\ act' = To(a, "count")
        /\ UNCHANGED <<uploadVars, rowVars, chunkCache, fileParents, dirCache, queue, history>>

\* The status of the next chunk, from its row the first time only.
CountChunk(a) ==
    LET c == Head(act[a].rest)
        status == IF chunkCache[c] = "NONE" THEN ul[c] ELSE chunkCache[c]
    IN  /\ act[a].pc = "count" /\ act[a].rest # <<>>
        /\ chunkCache' = [chunkCache EXCEPT ![c] = status]
        /\ act' = [act EXCEPT ![a].rest = Tail(@),
                              ![a].done = IF status = "COMPLETED" THEN @ + 1 ELSE @,
                              ![a].failed = @ \/ status = "FAILED"]
        /\ UNCHANGED <<uploadVars, rowVars, chunkParents, fileCache, fileParents, dirCache, queue, history>>

\* Mutant: a file is uploaded as soon as one of its chunks is.
JudgeFileByFirstChunk(a) ==
    LET f == act[a].file
    IN  /\ act[a].pc = "count" /\ act[a].rest = <<>>
        /\ \/ /\ act[a].done > 0
              /\ fileCache' = [fileCache EXCEPT ![f].uploaded = TRUE]
              /\ act' = To(a, "saveFile")
           \/ act[a].done = 0 /\ act' = To(a, Return(a)) /\ UNCHANGED fileCache
        /\ UNCHANGED <<uploadVars, rowVars, chunkCache, chunkParents, fileParents, dirCache, queue, history>>

JudgeFile(a) ==
    LET f == act[a].file
        uploaded == act[a].done = Len(ChunksOf[f])
    IN  /\ act[a].pc = "count" /\ act[a].rest = <<>>
        /\ \/ /\ act[a].failed \/ uploaded
              /\ fileCache' = [fileCache EXCEPT ![f].uploaded = ~act[a].failed, ![f].failed = act[a].failed,
                                                ![f].progress = IF act[a].failed THEN @ ELSE act[a].done]
              /\ act' = To(a, "saveFile")
           \/ /\ ~act[a].failed /\ ~uploaded
              /\ fileCache' = [fileCache EXCEPT ![f].progress = act[a].done]
              /\ act' = To(a, IF fileCache[f].progress # act[a].done THEN ReturnUpdated(a) ELSE Return(a))
        /\ UNCHANGED <<uploadVars, rowVars, chunkCache, chunkParents, fileParents, dirCache, queue, history>>

\* updateFileUlStatus: FAILED does not take COMPLETED back.
SaveFile(a) ==
    LET f == act[a].file
    IN  /\ act[a].pc = "saveFile"
        /\ ful' = [ful EXCEPT ![f] = IF act[a].failed THEN (IF @ = "COMPLETED" THEN @ ELSE "FAILED") ELSE "COMPLETED"]
        /\ act' = To(a, ReturnUpdated(a))
        /\ UNCHANGED <<uploadVars, dul, cacheVars, queue, history>>

-----------------------------------------------------------------------------
(* updateDirProgress *)

Leave(a) == IF a = "poll" THEN Idle ELSE [act[a] EXCEPT !.pc = "file"]

\* getDirProgress, once uploadDir has returned the id.
Poll ==
    /\ act["poll"].pc = "idle"
    /\ Dir \in Entered /\ ~dirCache.known
    /\ act' = To("poll", "readDir")
    /\ UNCHANGED <<uploadVars, rowVars, cacheVars, queue, history>>

BeginDir(a) ==
    /\ act[a].pc = "dir"
    /\ act' = [act EXCEPT ![a] = IF ~dirCache.known THEN [@ EXCEPT !.pc = "readDir"]
                                 ELSE IF dirCache.uploaded THEN Leave(a)
                                 ELSE [@ EXCEPT !.pc = "members", !.pos = 1, !.good = 0, !.bad = 0]]
    /\ UNCHANGED <<uploadVars, rowVars, cacheVars, queue, history>>

\* The files up to the first that is not in memory yet become members; that one is
\* looked up before the next is entered.
Fill(a, cache, entries) ==
    LET n == Len(entries)
        strange == {i \in 1..n : ~fileCache[entries[i]].known}
        k == CHOOSE i \in strange : \A j \in strange : i <= j
    IN  IF strange = {}
        THEN /\ dirCache' = [cache EXCEPT !.members = @ \o entries]
             /\ act' = [act EXCEPT ![a].pc = "dir", ![a].entries = <<>>]
        ELSE /\ dirCache' = [cache EXCEPT !.members = @ \o SubSeq(entries, 1, k)]
             /\ act' = [act EXCEPT ![a] = [@ EXCEPT !.pc = "fillFile", !.caller = "fill", !.file = entries[k],
                                                    !.rest = ChunksOf[entries[k]], !.done = 0, !.failed = FALSE,
                                                    !.entries = SubSeq(entries, k + 1, n)]]

\* The rows of DirMap as they are now; the cached directory starts from nothing.
ReadDir(a) ==
    /\ act[a].pc = "readDir"
    /\ Fill(a, [NoDir EXCEPT !.known = TRUE], dirMap)
    /\ partial' = (partial \/ Entered # Files)
    /\ UNCHANGED <<uploadVars, rowVars, chunkCache, chunkParents, fileCache, fileParents, queue, missed>>

FillDir(a) ==
    /\ act[a].pc = "fill"
    /\ Fill(a, dirCache, act[a].entries)
    /\ UNCHANGED <<uploadVars, rowVars, chunkCache, chunkParents, fileCache, fileParents, queue, history>>

Filling(a) == act[a].pc = "fill" \/ (act[a].pc \in {"fillFile", "count", "saveFile"} /\ act[a].caller = "fill")

\* Mutant: a member that is not in memory counts as uploaded.
CountMembersUnknown(a) ==
    LET good == \A i \in 1..Len(dirCache.members) : LET f == fileCache[dirCache.members[i]] IN f.uploaded \/ ~f.known
    IN  /\ act[a].pc = "members"
        /\ dirCache' = [dirCache EXCEPT !.uploaded = good]
        /\ act' = [act EXCEPT ![a] = IF good THEN [@ EXCEPT !.pc = "saveDir", !.bad = 0] ELSE Leave(a)]
        /\ UNCHANGED <<uploadVars, rowVars, chunkCache, chunkParents, fileCache, fileParents, queue, history>>

\* The members in turn, from pos on; one that is not in memory is looked up first.
CountMembers(a) ==
    LET members == dirCache.members
        ahead == act[a].pos..Len(members)
        strange == {i \in ahead : ~fileCache[members[i]].known}
        k == CHOOSE i \in strange : \A j \in strange : i <= j
        upTo(n) == [good |-> act[a].good + Cardinality({i \in ahead : i < n /\ fileCache[members[i]].uploaded}),
                    bad |-> act[a].bad + Cardinality({i \in ahead : i < n /\ fileCache[members[i]].failed})]
        all == upTo(Len(members) + 1)
        complete == all.bad = 0 /\ all.good = Len(members)
    IN  /\ act[a].pc = "members"
        /\ IF strange # {}
           THEN /\ act' = [act EXCEPT ![a] = [@ EXCEPT !.pc = "fillFile", !.caller = "members", !.file = members[k],
                                                       !.rest = ChunksOf[members[k]], !.done = 0, !.failed = FALSE,
                                                       !.pos = k, !.good = upTo(k).good, !.bad = upTo(k).bad]]
                /\ UNCHANGED <<dirCache, partial>>
           ELSE /\ dirCache' = [dirCache EXCEPT !.uploaded = all.bad = 0 /\ (complete \/ @),
                                                !.failed = all.bad > 0 \/ (@ /\ ~complete)]
                /\ act' = [act EXCEPT ![a] = IF all.bad > 0 \/ complete
                                             THEN [@ EXCEPT !.pc = "saveDir", !.bad = all.bad]
                                             ELSE Leave(a)]
                /\ partial' = (partial \/ (complete /\ \E b \in Activities : Filling(b)))
        /\ UNCHANGED <<uploadVars, rowVars, chunkCache, chunkParents, fileCache, fileParents, queue, missed>>

\* updateFileDirUlStatus: FAILED does not take COMPLETED back.
SaveDir(a) ==
    /\ act[a].pc = "saveDir"
    /\ dul' = IF act[a].bad = 0 THEN "COMPLETED" ELSE IF dul = "COMPLETED" THEN dul ELSE "FAILED"
    /\ act' = [act EXCEPT ![a] = Leave(a)]
    /\ UNCHANGED <<uploadVars, ful, cacheVars, queue, history>>

-----------------------------------------------------------------------------
UploadStep(f) == EnqueueRows(f) \/ MapChunks(f) \/ MarkFileAsBeingUploaded(f) \/ EnterFile(f)
QueueStep == NextChunk \/ LoadParents \/ NextFile
ProgressStep(a) == \/ FillFile(a) \/ CountChunk(a) \/ JudgeFile(a) \/ SaveFile(a)
                   \/ BeginDir(a) \/ ReadDir(a) \/ FillDir(a) \/ CountMembers(a) \/ SaveDir(a)

Next ==
    \/ \E f \in Files : UploadStep(f)
    \/ \E c \in Chunks : CompleteChunk(c) \/ FailChunk(c) \/ CompleteByDownload(c)
    \/ QueueStep \/ Poll
    \/ \E a \in Activities : ProgressStep(a)

Spec == Init /\ [][Next]_vars

(* Every awaited query ends and every timer fires; nothing is assumed of workers, downloads and polls. *)
Fairness ==
    /\ \A f \in Files : WF_vars(UploadStep(f))
    /\ WF_vars(QueueStep)
    /\ \A a \in Activities : WF_vars(ProgressStep(a))

FairSpec == Spec /\ Fairness

-----------------------------------------------------------------------------
(* Properties *)

\* What waitForFileToUpload reports is true: COMPLETED means that every chunk of the file
\* is on the network, whatever the caches remember and whoever overwrites them.
FileReportedTruly ==
    \A f \in Files : ful[f] = "COMPLETED" \/ fileCache[f].uploaded => AllUploaded(f)

\* What waitForDirToUpload reports is true, unless the directory was counted before all
\* of its files were entered, in DirMap or in memory.
DirReportedTruly ==
    dul = "COMPLETED" => partial \/ \A f \in Files : AllUploaded(f)

=============================================================================
