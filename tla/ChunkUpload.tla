---------------------------- MODULE ChunkUpload -----------------------------
(***************************************************************************)
(* The upload pipeline of the storage client: enqueueChunksForUpload puts  *)
(* chunk rows in the database, uploadLoop hands them to a pool of upload   *)
(* workers, each worker posts its chunk to the bundler and settles the     *)
(* row, and a restart of the node requeues what was in progress.           *)
(*                                                                         *)
(* The node is one event loop.  A step of this module is the delivery of   *)
(* one awaited result (a database query, a file read, an HTTP answer, a    *)
(* timer) with the synchronous code that follows it up to the next await.  *)
(***************************************************************************)
EXTENDS Naturals, FiniteSets

CONSTANTS
    Chunks,               \* chunk ids (content hashes)
    Uploads,              \* requests to upload a file
    ChunksOf,             \* ChunksOf[u]: the chunks of the file of request u
    Loops,                \* activations of uploadLoop
    CONCURRENT_UPLOAD_LIMIT,
    UPLOAD_RETRY_LIMIT,
    NoChunk,
    MaxExpiries,          \* bound: upload leases that run out
    MaxFaults,            \* bound: database and file system calls that throw
    MaxCrashes            \* bound: crashes of the node

ASSUME ChunkUploadAssumption ==
    /\ NoChunk \notin Chunks
    /\ ChunksOf \in [Uploads -> SUBSET Chunks]
    /\ CONCURRENT_UPLOAD_LIMIT \in Nat \ {0}
    /\ UPLOAD_RETRY_LIMIT \in Nat

Slots == 1..CONCURRENT_UPLOAD_LIMIT

VARIABLES
    \* the chunks table, the cache directory and the network: survive a crash
    ul,          \* ul_status per chunk
    retry_count, \* retry_count per chunk
    expired,     \* chunks whose `expires' lies in the past
    disk,        \* chunks with a file in the storage cache directory
    network,     \* chunks held by the storage network
    \* memory of the process
    isUploadLoopActive,
    retryUploadLoop,
    calls,       \* timers that will call uploadLoop
    loop,        \* locals of each activation of uploadLoop
    worker,      \* uploadWorkers: the worker of each slot and its locals
    upload,      \* where each call of enqueueChunksForUpload stands
    boot,        \* the next UPDATE of restartUploadsDownloads
    used,        \* how much of the three bounds is used up
    \* history
    lostLease,   \* chunks whose lease was taken from the worker that held it
    failures     \* failed attempts recorded, per chunk

rest == <<disk, boot, used, lostLease, failures>>
vars == <<ul, retry_count, expired, network, isUploadLoopActive, retryUploadLoop, calls, loop, worker,
          upload, rest>>

UlStatus == {"ABSENT", "NOT_STARTED", "ENQUEUED", "IN_PROGRESS", "COMPLETED", "FAILED"}

\* A worker that was started for a chunk and has not finished.
Holding == {"scheduled", "read", "head", "post", "verify", "complete", "progress", "failed", "settle"}
Holds(s, c) == worker[s].pc \in Holding /\ worker[s].chunk = c

LoopState ==
    [pc: {"idle", "awaiting", "stale"}, chunk: {NoChunk}, slot: {0}, awaiting: SUBSET Chunks, stale: {{}}]
    \cup [pc: {"check", "mark"}, chunk: Chunks, slot: Slots, awaiting: SUBSET Chunks, stale: SUBSET Chunks]

\* "none": the slot does not exist yet.  "reserved": a new worker, its isFree still
\* undefined.  "free": isFree is true.
WorkerState == [pc: {"none", "reserved", "free"}, chunk: {NoChunk}, count: {0}]
               \cup [pc: Holding, chunk: Chunks, count: Nat]

TypeOK ==
    /\ ul \in [Chunks -> UlStatus]
    /\ retry_count \in [Chunks -> Nat]
    /\ expired \subseteq Chunks /\ disk \subseteq Chunks /\ network \subseteq Chunks
    /\ isUploadLoopActive \in BOOLEAN /\ retryUploadLoop \in BOOLEAN
    /\ calls \in Nat
    /\ loop \in [Loops -> LoopState]
    /\ worker \in [Slots -> WorkerState]
    /\ upload \in [Uploads -> {"idle", "write", "fix", "trigger", "done", "threw"}]
    /\ boot \in {"first", "second", "up"}
    /\ used \in [expiries: Nat, faults: Nat, crashes: Nat]
    /\ lostLease \subseteq Chunks
    /\ failures \in [Chunks -> Nat]

-----------------------------------------------------------------------------
(* A node that starts on an empty database.  The network may hold chunks   *)
(* that other nodes uploaded.                                              *)

IdleLoop == [pc |-> "idle", chunk |-> NoChunk, slot |-> 0, awaiting |-> {}, stale |-> {}]
Worker(pc, c) == [pc |-> pc, chunk |-> c, count |-> 0]

Init ==
    /\ ul = [c \in Chunks |-> "ABSENT"]
    /\ retry_count = [c \in Chunks |-> 0]
    /\ expired = {} /\ disk = {}
    /\ network \in SUBSET Chunks
    /\ isUploadLoopActive = FALSE /\ retryUploadLoop = FALSE /\ calls = 0
    /\ loop = [l \in Loops |-> IdleLoop]
    /\ worker = [s \in Slots |-> Worker("none", NoChunk)]
    /\ upload = [u \in Uploads |-> "idle"]
    /\ boot = "first"
    /\ used = [expiries |-> 0, faults |-> 0, crashes |-> 0]
    /\ lostLease = {}
    /\ failures = [c \in Chunks |-> 0]

-----------------------------------------------------------------------------
(* restartUploadsDownloads: two UPDATE statements.  The second one names   *)
(* ul_status where dl_status is meant, so it repeats the first; by then    *)
(* the API may have started an upload.  init() calls uploadLoop at the end.*)

Restart ==
    /\ boot # "up"
    /\ ul' = [c \in Chunks |-> IF ul[c] = "IN_PROGRESS" THEN "ENQUEUED" ELSE ul[c]]
    /\ lostLease' = lostLease \cup {c \in Chunks : ul[c] = "IN_PROGRESS" /\ \E s \in Slots : Holds(s, c)}
    /\ boot' = IF boot = "first" THEN "second" ELSE "up"
    /\ calls' = IF boot = "first" THEN calls ELSE calls + 1
    /\ UNCHANGED <<retry_count, expired, disk, network, isUploadLoopActive, retryUploadLoop, loop, worker,
                   upload, used, failures>>

-----------------------------------------------------------------------------
(* enqueueChunksForUpload *)

uploadFrame == <<retry_count, expired, network, isUploadLoopActive, retryUploadLoop, loop, worker, boot,
                 lostLease, failures>>

BeginUpload(u) ==
    /\ upload[u] = "idle"
    /\ upload' = [upload EXCEPT ![u] = "write"]
    /\ UNCHANGED <<ul, disk, calls, used, uploadFrame>>

\* Write to a temporary name and rename: the chunk file appears whole.
WriteChunk(u) ==
    /\ upload[u] = "write"
    /\ \E c \in ChunksOf[u] \ disk : disk' = disk \cup {c}
    /\ UNCHANGED <<ul, calls, upload, used, uploadFrame>>

\* INSERT OR IGNORE of the rows, once every chunk file exists.
BulkCreate(u) ==
    /\ upload[u] = "write"
    /\ ChunksOf[u] \subseteq disk
    /\ ul' = [c \in Chunks |-> IF c \in ChunksOf[u] /\ ul[c] = "ABSENT" THEN "ENQUEUED" ELSE ul[c]]
    /\ upload' = [upload EXCEPT ![u] = "fix"]
    /\ UNCHANGED <<disk, calls, used, uploadFrame>>

\* Mutant: rows in progress are requeued too.
FixStatusesAlsoInProgress(u) ==
    /\ upload[u] = "fix"
    /\ ul' = [c \in Chunks |-> IF ul[c] \in {"NOT_STARTED", "IN_PROGRESS", "FAILED"} THEN "ENQUEUED" ELSE ul[c]]
    /\ upload' = [upload EXCEPT ![u] = "trigger"]
    /\ UNCHANGED <<disk, calls, used, uploadFrame>>

\* `include' has no effect on an UPDATE: the rows of every file are changed.
FixStatuses(u) ==
    /\ upload[u] = "fix"
    /\ ul' = [c \in Chunks |-> IF ul[c] \in {"NOT_STARTED", "FAILED"} THEN "ENQUEUED" ELSE ul[c]]
    /\ upload' = [upload EXCEPT ![u] = "trigger"]
    /\ UNCHANGED <<disk, calls, used, uploadFrame>>

\* The filemap rows and the parents (module UploadProgress), then the timer.
TriggerLoop(u) ==
    /\ upload[u] = "trigger"
    /\ calls' = calls + 1
    /\ upload' = [upload EXCEPT ![u] = "done"]
    /\ UNCHANGED <<ul, disk, used, uploadFrame>>

\* Any awaited call may throw; nothing is undone.
UploadThrows(u) ==
    /\ upload[u] \in {"write", "fix", "trigger"}
    /\ used.faults < MaxFaults
    /\ used' = [used EXCEPT !.faults = @ + 1]
    /\ upload' = [upload EXCEPT ![u] = "threw"]
    /\ UNCHANGED <<ul, disk, calls, uploadFrame>>

-----------------------------------------------------------------------------
(* uploadLoop *)

\* At most CONCURRENT_UPLOAD_LIMIT of the rows, whichever the database returns.
Limited(rows) ==
    {R \in SUBSET rows : \/ R = rows /\ Cardinality(rows) <= CONCURRENT_UPLOAD_LIMIT
                         \/ Cardinality(R) = CONCURRENT_UPLOAD_LIMIT}

\* tryGettingAvailableUploadWorker: the pool grows before a free slot is reused,
\* and then the first free slot is taken.
AvailableSlots(pool) ==
    LET new  == {s \in Slots : pool[s].pc = "none"}
        free == {s \in Slots : pool[s].pc = "free"}
        from == IF new # {} THEN new ELSE free
    IN  {s \in from : \A t \in from : s <= t}

\* The call comes while an activation runs: it only leaves a note.
CallWhileActive ==
    /\ calls > 0
    /\ isUploadLoopActive
    /\ calls' = calls - 1
    /\ retryUploadLoop' = TRUE
    /\ UNCHANGED <<ul, retry_count, expired, network, isUploadLoopActive, loop, worker, upload, rest>>

\* Mutant: the activity flag is not tested.
StartLoopUnguarded(l) ==
    /\ calls > 0
    /\ loop[l].pc = "idle"
    /\ calls' = calls - 1
    /\ isUploadLoopActive' = TRUE
    /\ loop' = [loop EXCEPT ![l].pc = "awaiting"]
    /\ UNCHANGED <<ul, retry_count, expired, network, retryUploadLoop, worker, upload, rest>>

StartLoop(l) ==
    /\ calls > 0
    /\ ~isUploadLoopActive
    /\ loop[l].pc = "idle"
    /\ calls' = calls - 1
    /\ isUploadLoopActive' = TRUE
    /\ loop' = [loop EXCEPT ![l].pc = "awaiting"]
    /\ UNCHANGED <<ul, retry_count, expired, network, retryUploadLoop, worker, upload, rest>>

FindAwaiting(l) ==
    /\ loop[l].pc = "awaiting"
    /\ \E R \in Limited({c \in Chunks : ul[c] = "ENQUEUED"}) :
          loop' = [loop EXCEPT ![l].pc = "stale", ![l].awaiting = R]
    /\ UNCHANGED <<ul, retry_count, expired, network, isUploadLoopActive, retryUploadLoop, calls, worker,
                   upload, rest>>

ExitLoop(l) ==
    /\ isUploadLoopActive' = FALSE
    /\ loop' = [loop EXCEPT ![l] = IdleLoop]

\* The head of the for loop, up to `await Chunk.findOrFail': `pool' is the worker
\* pool as the previous iteration left it, A and S the rows not yet visited.
NextIteration(l, pool, A, S) ==
    \/ \* every row visited: the only exit that looks at retryUploadLoop
       /\ A \cup S = {}
       /\ ExitLoop(l)
       /\ worker' = pool
       /\ retryUploadLoop' = FALSE
       /\ calls' = IF retryUploadLoop THEN calls + 1 ELSE calls
    \/ \* no slot: return
       /\ A \cup S # {}
       /\ AvailableSlots(pool) = {}
       /\ ExitLoop(l)
       /\ worker' = pool
       /\ UNCHANGED <<retryUploadLoop, calls>>
    \/ \* take a slot and read the row again
       /\ \E s \in AvailableSlots(pool), c \in IF A # {} THEN A ELSE S :
             /\ worker' = [pool EXCEPT ![s] = Worker("reserved", NoChunk)]
             /\ loop' = [loop EXCEPT ![l] = [pc |-> "check", chunk |-> c, slot |-> s,
                                             awaiting |-> A \ {c}, stale |-> S \ {c}]]
       /\ UNCHANGED <<isUploadLoopActive, retryUploadLoop, calls>>

StaleRows == {c \in Chunks : ul[c] = "IN_PROGRESS" /\ c \in expired}

\* Nothing to upload: return at once, whatever retryUploadLoop says.
FindNothing(l) ==
    /\ loop[l].pc = "stale"
    /\ loop[l].awaiting = {} /\ StaleRows = {}
    /\ ExitLoop(l)
    /\ UNCHANGED <<ul, retry_count, expired, network, retryUploadLoop, calls, worker, upload, rest>>

FindStale(l) ==
    /\ loop[l].pc = "stale"
    /\ \E R \in Limited(StaleRows) :
          /\ loop[l].awaiting \cup R # {}
          /\ NextIteration(l, worker, loop[l].awaiting, R)
    /\ UNCHANGED <<ul, retry_count, expired, network, upload, rest>>

IsUploadable(c) == ul[c] = "ENQUEUED" \/ (ul[c] = "IN_PROGRESS" /\ c \in expired)

\* `await Chunk.findOrFail' answers and the status still asks for an upload.
CheckRow(l) ==
    /\ loop[l].pc = "check"
    /\ IsUploadable(loop[l].chunk)
    /\ loop' = [loop EXCEPT ![l].pc = "mark"]
    /\ UNCHANGED <<ul, retry_count, expired, network, isUploadLoopActive, retryUploadLoop, calls, worker,
                   upload, rest>>

\* Mutant: `worker.isFree = true' is forgotten.
SkipRowKeepingSlot(l) ==
    /\ loop[l].pc = "check"
    /\ ~IsUploadable(loop[l].chunk)
    /\ NextIteration(l, worker, loop[l].awaiting, loop[l].stale)
    /\ UNCHANGED <<ul, retry_count, expired, network, upload, rest>>

\* Wrong status: give the slot back and go on with the next row.
SkipRow(l) ==
    /\ loop[l].pc = "check"
    /\ ~IsUploadable(loop[l].chunk)
    /\ NextIteration(l, [worker EXCEPT ![loop[l].slot] = Worker("free", NoChunk)],
                     loop[l].awaiting, loop[l].stale)
    /\ UNCHANGED <<ul, retry_count, expired, network, upload, rest>>

\* Mutant: the UPDATE does not exclude settled rows.
MarkRowUnconditionally(l) ==
    /\ loop[l].pc = "mark"
    /\ ul' = [ul EXCEPT ![loop[l].chunk] = "IN_PROGRESS"]
    /\ expired' = expired \ {loop[l].chunk}
    /\ NextIteration(l, [worker EXCEPT ![loop[l].slot] = Worker("scheduled", loop[l].chunk)],
                     loop[l].awaiting, loop[l].stale)
    /\ UNCHANGED <<retry_count, network, upload, rest>>

\* The conditional UPDATE, then a timer for the worker and the next row.
MarkRow(l) ==
    /\ loop[l].pc = "mark"
    /\ IF ul[loop[l].chunk] \in {"FAILED", "COMPLETED"}
       THEN UNCHANGED <<ul, expired>>
       ELSE /\ ul' = [ul EXCEPT ![loop[l].chunk] = "IN_PROGRESS"]
            /\ expired' = expired \ {loop[l].chunk}
    /\ NextIteration(l, [worker EXCEPT ![loop[l].slot] = Worker("scheduled", loop[l].chunk)],
                     loop[l].awaiting, loop[l].stale)
    /\ UNCHANGED <<retry_count, network, upload, rest>>

\* A query of the loop throws: the flag is reset, the slot it took is not given back.
LoopThrows(l) ==
    /\ loop[l].pc # "idle"
    /\ used.faults < MaxFaults
    /\ used' = [used EXCEPT !.faults = @ + 1]
    /\ ExitLoop(l)
    /\ UNCHANGED <<ul, retry_count, expired, disk, network, retryUploadLoop, calls, worker, upload, boot,
                   lostLease, failures>>

-----------------------------------------------------------------------------
(* UploadWorker.startChunkUpload and doChunkUpload *)

workerFrame == <<expired, isUploadLoopActive, retryUploadLoop, loop, upload, disk, boot, lostLease>>

Goto(s, pc) ==
    /\ worker' = [worker EXCEPT ![s].pc = pc]
    /\ UNCHANGED calls

\* Mutant: a worker that ends does not call the loop.
FinishSilently(s) ==
    /\ worker' = [worker EXCEPT ![s] = Worker("free", NoChunk)]
    /\ UNCHANGED calls

\* startChunkUpload returns or rethrows: the slot is free, the loop is called soon.
Finish(s) ==
    /\ worker' = [worker EXCEPT ![s] = Worker("free", NoChunk)]
    /\ calls' = calls + 1

StartWorker(s) ==
    /\ worker[s].pc = "scheduled"
    /\ Goto(s, "read")
    /\ UNCHANGED <<ul, retry_count, network, used, failures, workerFrame>>

\* fs.readFile of the chunk; a missing file throws.
ReadFile(s) ==
    /\ worker[s].pc = "read"
    /\ Goto(s, IF worker[s].chunk \in disk THEN "head" ELSE "failed")
    /\ UNCHANGED <<ul, retry_count, network, used, failures, workerFrame>>

\* doesChunkExistOnTheNetwork: any error counts as `no'.
Head(s) ==
    /\ worker[s].pc = "head"
    /\ \/ worker[s].chunk \in network /\ Goto(s, "verify")
       \/ Goto(s, "post")
    /\ UNCHANGED <<ul, retry_count, network, used, failures, workerFrame>>

\* axios.post: the bundler stores the chunk and answers `ok'; or it stores it
\* and the answer is lost or late; or it does not store it.
PostChunk(s) ==
    /\ worker[s].pc = "post"
    /\ \/ network' = network \cup {worker[s].chunk} /\ Goto(s, "verify")
       \/ network' \in {network, network \cup {worker[s].chunk}} /\ Goto(s, "failed")
    /\ UNCHANGED <<ul, retry_count, used, failures, workerFrame>>

\* markChunkAsSuccessfulUpload reads the row; out of sync: return.
VerifyRow(s) ==
    /\ worker[s].pc = "verify"
    /\ IF ul[worker[s].chunk] = "IN_PROGRESS" THEN Goto(s, "complete") ELSE Finish(s)
    /\ UNCHANGED <<ul, retry_count, network, used, failures, workerFrame>>

CompleteRow(s) ==
    /\ worker[s].pc = "complete"
    /\ ul' = [ul EXCEPT ![worker[s].chunk] = IF @ = "IN_PROGRESS" THEN "COMPLETED" ELSE @]
    /\ Goto(s, "progress")
    /\ UNCHANGED <<retry_count, network, used, failures, workerFrame>>

\* updateChunkProgressAsCompleted resolves (module UploadProgress).
ProgressUpdated(s) ==
    /\ worker[s].pc = "progress"
    /\ Finish(s)
    /\ UNCHANGED <<ul, retry_count, network, used, failures, workerFrame>>

\* markAsFailedOrRestart reads the row; out of sync: don't touch it.
ReadFailedRow(s) ==
    /\ worker[s].pc = "failed"
    /\ IF ul[worker[s].chunk] = "IN_PROGRESS"
       THEN /\ worker' = [worker EXCEPT ![s].pc = "settle", ![s].count = retry_count[worker[s].chunk]]
            /\ UNCHANGED calls
       ELSE Finish(s)
    /\ UNCHANGED <<ul, retry_count, network, used, failures, workerFrame>>

\* Mutant: the limit is compared with the new count.
StatusAfterFailureEarly(count) == IF count + 1 >= UPLOAD_RETRY_LIMIT THEN "FAILED" ELSE "ENQUEUED"

StatusAfterFailure(count) == IF count >= UPLOAD_RETRY_LIMIT THEN "FAILED" ELSE "ENQUEUED"

\* The conditional UPDATE of markAsFailedOrRestart, with the count read before.
SettleFailedRow(s) ==
    LET c == worker[s].chunk
    IN  /\ worker[s].pc = "settle"
        /\ IF ul[c] = "IN_PROGRESS"
           THEN /\ ul' = [ul EXCEPT ![c] = StatusAfterFailure(worker[s].count)]
                /\ retry_count' = [retry_count EXCEPT ![c] = worker[s].count + 1]
                /\ failures' = [failures EXCEPT ![c] = @ + 1]
           ELSE UNCHANGED <<ul, retry_count, failures>>
        /\ Finish(s)
        /\ UNCHANGED <<network, used, workerFrame>>

\* A call throws: inside the try block the catch block runs, inside the catch
\* block the worker ends and the row keeps its status.
WorkerThrows(s) ==
    /\ used.faults < MaxFaults
    /\ used' = [used EXCEPT !.faults = @ + 1]
    /\ \/ worker[s].pc \in {"read", "verify", "complete", "progress"} /\ Goto(s, "failed")
       \/ worker[s].pc \in {"failed", "settle"} /\ Finish(s)
    /\ UNCHANGED <<ul, retry_count, network, failures, workerFrame>>

-----------------------------------------------------------------------------
(* The rest of the node and the outside world *)

\* Time passes the `expires' of a row in progress.
Expire(c) ==
    /\ ul[c] = "IN_PROGRESS" /\ c \notin expired
    /\ used.expiries < MaxExpiries
    /\ used' = [used EXCEPT !.expiries = @ + 1]
    /\ expired' = expired \cup {c}
    /\ lostLease' = lostLease \cup {c}
    /\ UNCHANGED <<ul, retry_count, disk, network, isUploadLoopActive, retryUploadLoop, calls, loop,
                   worker, upload, boot, failures>>

\* getChunk asks for the row of a chunk and creates it; or it fetched the chunk
\* from the network, wrote the file and saves the row.
DownloadChunk(c) ==
    /\ \/ /\ ul[c] = "ABSENT"
          /\ ul' = [ul EXCEPT ![c] = "NOT_STARTED"]
          /\ UNCHANGED disk
       \/ /\ ul[c] \notin {"ABSENT", "COMPLETED"}
          /\ c \in network
          /\ ul' = [ul EXCEPT ![c] = "COMPLETED"]
          /\ disk' = disk \cup {c}
    /\ UNCHANGED <<calls, upload, used, uploadFrame>>

\* The process dies: requests in progress are lost; table, files and network stay.
Crash ==
    /\ used.crashes < MaxCrashes
    /\ used' = [used EXCEPT !.crashes = @ + 1]
    /\ isUploadLoopActive' = FALSE /\ retryUploadLoop' = FALSE /\ calls' = 0
    /\ loop' = [l \in Loops |-> IdleLoop]
    /\ worker' = [s \in Slots |-> Worker("none", NoChunk)]
    /\ upload' = [u \in Uploads |-> IF upload[u] \in {"idle", "done"} THEN upload[u] ELSE "threw"]
    /\ boot' = "first"
    /\ lostLease' = {}
    /\ UNCHANGED <<ul, retry_count, expired, disk, network, failures>>

-----------------------------------------------------------------------------
UploadStep(u) == WriteChunk(u) \/ BulkCreate(u) \/ FixStatuses(u) \/ TriggerLoop(u)

LoopStep(l) == \/ StartLoop(l) \/ FindAwaiting(l) \/ FindNothing(l) \/ FindStale(l)
               \/ CheckRow(l) \/ SkipRow(l) \/ MarkRow(l)

WorkerStep(s) == \/ StartWorker(s) \/ ReadFile(s) \/ Head(s) \/ PostChunk(s) \/ VerifyRow(s)
                 \/ CompleteRow(s) \/ ProgressUpdated(s) \/ ReadFailedRow(s) \/ SettleFailedRow(s)

Next ==
    \/ Restart \/ CallWhileActive \/ Crash
    \/ \E u \in Uploads : BeginUpload(u) \/ UploadStep(u) \/ UploadThrows(u)
    \/ \E l \in Loops : LoopStep(l) \/ LoopThrows(l)
    \/ \E s \in Slots : WorkerStep(s) \/ WorkerThrows(s)
    \/ \E c \in Chunks : Expire(c) \/ DownloadChunk(c)

Spec == Init /\ [][Next]_vars

(* The event loop serves every timer, query and file operation; a POST is  *)
(* cut off by its timeout.  For HEAD, which has no timeout, fairness is an *)
(* assumption on the bundler: it answers or the connection breaks.         *)
Fairness ==
    /\ WF_vars(Restart) /\ WF_vars(CallWhileActive)
    /\ \A u \in Uploads : WF_vars(UploadStep(u))
    /\ \A l \in Loops : WF_vars(LoopStep(l))
    /\ \A s \in Slots : WF_vars(WorkerStep(s))

FairSpec == Spec /\ Fairness

-----------------------------------------------------------------------------
(* Properties *)

\* "there must be one only uploadLoop executing at any time" (uploader.ts:24):
\* whatever exits the activations take, no two of them are between their awaits.
SingleLoop == \A k, l \in Loops : loop[k].pc # "idle" /\ loop[l].pc # "idle" => k = l

\* A chunk is uploaded by two workers at once only if the lease of the first ran
\* out or a late restart took it away: the row is marked in progress "so it is not
\* picked up again" (uploader.ts:75).
ExclusiveUpload ==
    \A s, t \in Slots : \A c \in Chunks \ lostLease : Holds(s, c) /\ Holds(t, c) => s = t

\* A slot whose worker never started belongs to the running loop: no exit of the
\* loop but an exception forgets a slot, which would lower the upload limit for good.
NoLeakedSlot ==
    used.faults = 0 =>
        \A s \in Slots : worker[s].pc = "reserved" => \E l \in Loops : loop[l].pc # "idle" /\ loop[l].slot = s

\* The retry limit is not cut short: a row is FAILED only after more recorded
\* failures than UPLOAD_RETRY_LIMIT, whichever workers overlapped.
FailedOnlyAfterRetries ==
    \A c \in Chunks : ul[c] = "FAILED" => failures[c] > UPLOAD_RETRY_LIMIT

Lifecycle == INSTANCE ChunkLifecycle WITH Chunks <- Chunks, ul <- ul, network <- network

\* The rows follow the life cycle: COMPLETED is final and written only for chunks
\* on the network, FAILED is left only for a new request or a successful download.
ImplementsLifecycle == Lifecycle!LifecycleSpec

Settled(c) == ul[c] \in {"COMPLETED", "FAILED"}

\* The loop returned while a call was noted in retryUploadLoop, and nothing will
\* call it again.
LostWakeup == ~isUploadLoopActive /\ retryUploadLoop /\ calls = 0

\* A chunk of an accepted upload is settled in the end, unless its wake-up got
\* lost: no other interleaving of loop, workers and enqueues strands a chunk.
OnlyLostWakeupStrands ==
    \A u \in Uploads : \A c \in ChunksOf[u] :
        (upload[u] = "done" /\ ~Settled(c)) ~> (Settled(c) \/ LostWakeup)
=============================================================================
