------------------------- MODULE ChunkUploadProofs --------------------------
(***************************************************************************)
(* Proofs about ChunkUpload for every set of chunks, uploads and loop      *)
(* activations, every upload limit and every retry limit.                  *)
(***************************************************************************)
EXTENDS ChunkUpload, TLAPS

-----------------------------------------------------------------------------
(* Lemmas about the operators of the specification *)

\* An available slot is a slot of the pool that no worker occupies.
LEMMA AvailableSlotsIdle ==
    ASSUME NEW pool, NEW s \in AvailableSlots(pool)
    PROVE  s \in Slots /\ pool[s].pc \in {"none", "free"}
  BY DEF AvailableSlots

\* The fresh records are well typed.
LEMMA FreshRecords ==
    /\ IdleLoop \in LoopState
    /\ \A pc \in {"none", "free", "reserved"} : Worker(pc, NoChunk) \in WorkerState
    /\ \A c \in Chunks : Worker("scheduled", c) \in WorkerState
  BY DEF IdleLoop, Worker, LoopState, WorkerState, Holding

\* The head of the loop keeps the types of what it assigns.
LEMMA NextIterationType ==
    ASSUME TypeOK, NEW l \in Loops, NEW pool \in [Slots -> WorkerState],
           NEW A \in SUBSET Chunks, NEW S \in SUBSET Chunks, NextIteration(l, pool, A, S)
    PROVE  /\ loop' \in [Loops -> LoopState]
           /\ worker' \in [Slots -> WorkerState]
           /\ isUploadLoopActive' \in BOOLEAN
           /\ retryUploadLoop' \in BOOLEAN
           /\ calls' \in Nat
  <1>1. CASE A \cup S = {} /\ ExitLoop(l) /\ worker' = pool /\ retryUploadLoop' = FALSE
             /\ calls' = (IF retryUploadLoop THEN calls + 1 ELSE calls)
    <2>1. (IF retryUploadLoop THEN calls + 1 ELSE calls) \in Nat
      BY DEF TypeOK
    <2>2. retryUploadLoop' \in BOOLEAN /\ isUploadLoopActive' \in BOOLEAN
      BY <1>1 DEF ExitLoop
    <2>3. loop' \in [Loops -> LoopState]
      BY <1>1, FreshRecords DEF ExitLoop, TypeOK
    <2>4. QED  BY <1>1, <2>1, <2>2, <2>3
  <1>2. CASE ExitLoop(l) /\ worker' = pool /\ UNCHANGED <<retryUploadLoop, calls>>
    BY <1>2, FreshRecords DEF ExitLoop, TypeOK
  <1>3. ASSUME NEW s \in AvailableSlots(pool), NEW c \in IF A # {} THEN A ELSE S,
               worker' = [pool EXCEPT ![s] = Worker("reserved", NoChunk)],
               loop' = [loop EXCEPT ![l] = [pc |-> "check", chunk |-> c, slot |-> s,
                                            awaiting |-> A \ {c}, stale |-> S \ {c}]],
               UNCHANGED <<isUploadLoopActive, retryUploadLoop, calls>>
        PROVE  /\ loop' \in [Loops -> LoopState]
               /\ worker' \in [Slots -> WorkerState]
               /\ isUploadLoopActive' \in BOOLEAN
               /\ retryUploadLoop' \in BOOLEAN
               /\ calls' \in Nat
    <2>1. s \in Slots
      BY AvailableSlotsIdle
    <2>2. c \in Chunks
      OBVIOUS
    <2>3. [pc |-> "check", chunk |-> c, slot |-> s, awaiting |-> A \ {c}, stale |-> S \ {c}] \in LoopState
      BY <2>1, <2>2 DEF LoopState
    <2>4. QED
      BY <1>3, <2>1, <2>3, FreshRecords DEF TypeOK
  <1>4. QED
    BY <1>1, <1>2, <1>3 DEF NextIteration

-----------------------------------------------------------------------------
(* Type correctness *)

LEMMA TypeInit == Init => TypeOK
  <1> SUFFICES ASSUME Init PROVE TypeOK
    OBVIOUS
  <1>1. isUploadLoopActive \in BOOLEAN /\ retryUploadLoop \in BOOLEAN
    BY DEF Init
  <1>2. loop \in [Loops -> LoopState] /\ worker \in [Slots -> WorkerState]
    BY FreshRecords DEF Init
  <1>3. /\ ul \in [Chunks -> UlStatus]
        /\ upload \in [Uploads -> {"idle", "write", "fix", "trigger", "done", "threw"}]
        /\ used \in [expiries: Nat, faults: Nat, crashes: Nat]
    BY DEF Init, UlStatus
  <1>4. QED
    BY <1>1, <1>2, <1>3 DEF Init, TypeOK

LEMMA TypeUpload ==
    ASSUME TypeOK, NEW u \in Uploads, BeginUpload(u) \/ UploadStep(u) \/ UploadThrows(u)
    PROVE  TypeOK'
  <1> USE DEF TypeOK, uploadFrame
  <1>1. CASE BeginUpload(u)   BY <1>1 DEF BeginUpload
  <1>2. CASE WriteChunk(u)    BY <1>2, ChunkUploadAssumption DEF WriteChunk
  <1>3. CASE BulkCreate(u)    BY <1>3 DEF BulkCreate, UlStatus
  <1>4. CASE FixStatuses(u)   BY <1>4 DEF FixStatuses, UlStatus
  <1>5. CASE TriggerLoop(u)   BY <1>5 DEF TriggerLoop
  <1>6. CASE UploadThrows(u)  BY <1>6 DEF UploadThrows
  <1>7. QED  BY <1>1, <1>2, <1>3, <1>4, <1>5, <1>6 DEF UploadStep

LEMMA TypeLoop ==
    ASSUME TypeOK, NEW l \in Loops, LoopStep(l) \/ LoopThrows(l)
    PROVE  TypeOK'
  <1>0. /\ loop[l] \in LoopState
        /\ loop[l].awaiting \in SUBSET Chunks /\ loop[l].stale \in SUBSET Chunks
        /\ loop[l].pc \in {"check", "mark"} => loop[l].chunk \in Chunks /\ loop[l].slot \in Slots
    BY DEF TypeOK, LoopState
  <1>1. CASE StartLoop(l)
    BY <1>1, <1>0 DEF StartLoop, TypeOK, LoopState, rest
  <1>2. CASE FindAwaiting(l)
    <2>1. PICK R \in Limited({c \in Chunks : ul[c] = "ENQUEUED"}) :
              loop' = [loop EXCEPT ![l].pc = "stale", ![l].awaiting = R]
      BY <1>2 DEF FindAwaiting
    <2>2. R \in SUBSET Chunks
      BY DEF Limited
    <2>3. loop' \in [Loops -> LoopState]
      BY <1>2, <2>1, <2>2, <1>0 DEF FindAwaiting, TypeOK, LoopState
    <2>4. QED  BY <1>2, <2>3 DEF FindAwaiting, TypeOK, rest
  <1>3. CASE FindNothing(l)
    BY <1>3, FreshRecords DEF FindNothing, ExitLoop, TypeOK, rest
  <1>4. CASE FindStale(l)
    <2>1. PICK R \in Limited(StaleRows) : NextIteration(l, worker, loop[l].awaiting, R)
      BY <1>4 DEF FindStale
    <2>2. R \in SUBSET Chunks
      BY DEF Limited, StaleRows
    <2>3. worker \in [Slots -> WorkerState]
      BY DEF TypeOK
    <2>4. QED  BY <1>4, <1>0, <2>1, <2>2, <2>3, NextIterationType DEF FindStale, TypeOK, rest
  <1>5. CASE CheckRow(l)
    BY <1>5, <1>0 DEF CheckRow, TypeOK, LoopState, rest
  <1>6. CASE SkipRow(l)
    <2>1. [worker EXCEPT ![loop[l].slot] = Worker("free", NoChunk)] \in [Slots -> WorkerState]
      BY FreshRecords DEF TypeOK
    <2>2. QED  BY <1>6, <1>0, <2>1, NextIterationType DEF SkipRow, TypeOK, rest
  <1>7. CASE MarkRow(l)
    <2>1. [worker EXCEPT ![loop[l].slot] = Worker("scheduled", loop[l].chunk)] \in [Slots -> WorkerState]
      BY <1>7, <1>0, FreshRecords DEF MarkRow, TypeOK
    <2>2. ul' \in [Chunks -> UlStatus] /\ expired' \subseteq Chunks
      BY <1>7 DEF MarkRow, TypeOK, UlStatus
    <2>3. QED  BY <1>7, <1>0, <2>1, <2>2, NextIterationType DEF MarkRow, TypeOK, rest
  <1>8. CASE LoopThrows(l)
    <2>1. used' \in [expiries: Nat, faults: Nat, crashes: Nat]
      BY <1>8 DEF LoopThrows, TypeOK
    <2>2. loop' \in [Loops -> LoopState] /\ isUploadLoopActive' \in BOOLEAN
      BY <1>8, FreshRecords DEF LoopThrows, ExitLoop, TypeOK
    <2>3. QED  BY <1>8, <2>1, <2>2 DEF LoopThrows, TypeOK
  <1>9. QED
    BY <1>1, <1>2, <1>3, <1>4, <1>5, <1>6, <1>7, <1>8 DEF LoopStep

LEMMA TypeWorker ==
    ASSUME TypeOK, NEW s \in Slots, WorkerStep(s) \/ WorkerThrows(s)
    PROVE  TypeOK'
  <1>0. /\ worker[s] \in WorkerState /\ worker[s].count \in Nat
        /\ worker[s].pc \in Holding => worker[s].chunk \in Chunks
    BY DEF TypeOK, WorkerState, Holding
  <1>a. ASSUME NEW pc \in Holding, worker[s].pc \in Holding, Goto(s, pc)
        PROVE  worker' \in [Slots -> WorkerState] /\ calls' \in Nat
    BY <1>0, <1>a DEF Goto, TypeOK, WorkerState, Holding
  <1>b. Finish(s) => worker' \in [Slots -> WorkerState] /\ calls' \in Nat
    BY FreshRecords DEF Finish, TypeOK
  <1>1. CASE StartWorker(s)
    BY <1>1, <1>a DEF StartWorker, TypeOK, workerFrame, Holding
  <1>2. CASE ReadFile(s)
    BY <1>2, <1>a DEF ReadFile, TypeOK, workerFrame, Holding
  <1>3. CASE Head(s)
    BY <1>3, <1>a DEF Head, TypeOK, workerFrame, Holding
  <1>4. CASE PostChunk(s)
    BY <1>4, <1>0, <1>a DEF PostChunk, TypeOK, workerFrame, Holding
  <1>5. CASE VerifyRow(s)
    BY <1>5, <1>a, <1>b DEF VerifyRow, TypeOK, workerFrame, Holding
  <1>6. CASE CompleteRow(s)
    BY <1>6, <1>a DEF CompleteRow, TypeOK, UlStatus, workerFrame, Holding
  <1>7. CASE ProgressUpdated(s)
    BY <1>7, <1>b DEF ProgressUpdated, TypeOK, workerFrame
  <1>8. CASE ReadFailedRow(s)
    BY <1>8, <1>0, <1>b DEF ReadFailedRow, TypeOK, workerFrame, WorkerState, Holding
  <1>9. CASE SettleFailedRow(s)
    BY <1>9, <1>0, <1>b DEF SettleFailedRow, StatusAfterFailure, TypeOK, UlStatus, workerFrame
  <1>10. CASE WorkerThrows(s)
    BY <1>10, <1>a, <1>b DEF WorkerThrows, TypeOK, workerFrame, Holding
  <1>11. QED
    BY <1>1, <1>2, <1>3, <1>4, <1>5, <1>6, <1>7, <1>8, <1>9, <1>10 DEF WorkerStep

LEMMA TypeStep == TypeOK /\ [Next]_vars => TypeOK'
  <1> SUFFICES ASSUME TypeOK, [Next]_vars PROVE TypeOK'
    OBVIOUS
  <1>1. CASE Restart          BY <1>1 DEF Restart, TypeOK, UlStatus
  <1>2. CASE CallWhileActive  BY <1>2 DEF CallWhileActive, TypeOK, rest
  <1>3. CASE Crash
    <2>1. used' \in [expiries: Nat, faults: Nat, crashes: Nat]
      BY <1>3 DEF Crash, TypeOK
    <2>2. loop' \in [Loops -> LoopState] /\ worker' \in [Slots -> WorkerState]
      BY <1>3, FreshRecords DEF Crash
    <2>3. isUploadLoopActive' \in BOOLEAN /\ retryUploadLoop' \in BOOLEAN /\ calls' \in Nat
      BY <1>3 DEF Crash
    <2>4. upload' \in [Uploads -> {"idle", "write", "fix", "trigger", "done", "threw"}]
      BY <1>3 DEF Crash, TypeOK
    <2>5. QED  BY <1>3, <2>1, <2>2, <2>3, <2>4 DEF Crash, TypeOK
  <1>4. ASSUME NEW c \in Chunks, Expire(c)         PROVE TypeOK'
    BY <1>4 DEF Expire, TypeOK
  <1>5. ASSUME NEW c \in Chunks, DownloadChunk(c)  PROVE TypeOK'
    BY <1>5 DEF DownloadChunk, TypeOK, UlStatus, uploadFrame
  <1>6. CASE UNCHANGED vars   BY <1>6 DEF vars, rest, TypeOK
  <1>7. QED
    BY <1>1, <1>2, <1>3, <1>4, <1>5, <1>6, TypeUpload, TypeLoop, TypeWorker DEF Next

\* Every variable keeps its type: the statuses are those of chunk.ts:15-22, a
\* timer or retry counter never goes below zero.
THEOREM TypeCorrect == Spec => []TypeOK
  BY TypeInit, TypeStep, PTL DEF Spec
-----------------------------------------------------------------------------
(* What the head of the for loop does to the activation and to the pool *)

LEMMA NextIterationEffect ==
    ASSUME TypeOK, NEW l \in Loops, NEW pool \in [Slots -> WorkerState],
           NEW A \in SUBSET Chunks, NEW S \in SUBSET Chunks, NextIteration(l, pool, A, S)
    PROVE  /\ loop' = [loop EXCEPT ![l] = loop'[l]]
           /\ \/ loop'[l].pc = "idle" /\ isUploadLoopActive' = FALSE
              \/ loop'[l].pc = "check" /\ UNCHANGED isUploadLoopActive
           /\ \A t \in Slots : worker'[t] = pool[t] \/ worker'[t] = Worker("reserved", NoChunk)
  <1>1. CASE ExitLoop(l) /\ worker' = pool
    BY <1>1 DEF ExitLoop, IdleLoop, TypeOK
  <1>2. ASSUME NEW s \in AvailableSlots(pool), NEW c \in IF A # {} THEN A ELSE S,
               worker' = [pool EXCEPT ![s] = Worker("reserved", NoChunk)],
               loop' = [loop EXCEPT ![l] = [pc |-> "check", chunk |-> c, slot |-> s,
                                            awaiting |-> A \ {c}, stale |-> S \ {c}]],
               UNCHANGED isUploadLoopActive
        PROVE  /\ loop' = [loop EXCEPT ![l] = loop'[l]]
               /\ loop'[l].pc = "check"
               /\ \A t \in Slots : worker'[t] = pool[t] \/ worker'[t] = Worker("reserved", NoChunk)
    BY <1>2, AvailableSlotsIdle DEF TypeOK
  <1>3. QED
    BY <1>1, <1>2 DEF NextIteration

\* A step of a loop changes no other activation, and leaves the flag reset when it
\* leaves the activation idle.
LEMMA LoopStepEffect ==
    ASSUME TypeOK, NEW l \in Loops, LoopStep(l) \/ LoopThrows(l)
    PROVE  /\ loop' = [loop EXCEPT ![l] = loop'[l]]
           /\ \/ loop'[l].pc = "idle" /\ isUploadLoopActive' = FALSE
              \/ loop[l].pc = "idle" /\ ~isUploadLoopActive /\ isUploadLoopActive' = TRUE
              \/ loop[l].pc # "idle" /\ UNCHANGED isUploadLoopActive
  <1>0. /\ worker \in [Slots -> WorkerState]
        /\ loop[l].awaiting \in SUBSET Chunks /\ loop[l].stale \in SUBSET Chunks
        /\ loop[l].pc = "mark" => loop[l].chunk \in Chunks
    BY DEF TypeOK, LoopState
  <1>1. CASE StartLoop(l)      BY <1>1 DEF StartLoop, TypeOK
  <1>2. CASE FindAwaiting(l)   BY <1>2 DEF FindAwaiting, TypeOK
  <1>3. CASE FindNothing(l)    BY <1>3 DEF FindNothing, ExitLoop, IdleLoop, TypeOK
  <1>4. CASE FindStale(l)
    <2>1. PICK R \in Limited(StaleRows) : NextIteration(l, worker, loop[l].awaiting, R)
      BY <1>4 DEF FindStale
    <2>2. R \in SUBSET Chunks
      BY DEF Limited, StaleRows
    <2>3. loop[l].pc # "idle"
      BY <1>4 DEF FindStale
    <2>4. QED  BY <1>0, <2>1, <2>2, <2>3, NextIterationEffect
  <1>5. CASE CheckRow(l)       BY <1>5 DEF CheckRow, TypeOK
  <1>6. CASE SkipRow(l)
    <2>1. [worker EXCEPT ![loop[l].slot] = Worker("free", NoChunk)] \in [Slots -> WorkerState]
      BY FreshRecords DEF TypeOK
    <2>2. QED  BY <1>6, <1>0, <2>1, NextIterationEffect DEF SkipRow
  <1>7. CASE MarkRow(l)
    <2>1. [worker EXCEPT ![loop[l].slot] = Worker("scheduled", loop[l].chunk)] \in [Slots -> WorkerState]
      BY <1>7, <1>0, FreshRecords DEF MarkRow, TypeOK
    <2>2. QED  BY <1>7, <1>0, <2>1, NextIterationEffect DEF MarkRow
  <1>8. CASE LoopThrows(l)     BY <1>8 DEF LoopThrows, ExitLoop, IdleLoop, TypeOK
  <1>9. QED
    BY <1>1, <1>2, <1>3, <1>4, <1>5, <1>6, <1>7, <1>8 DEF LoopStep

-----------------------------------------------------------------------------
(* One activation at a time.  SingleLoop is not inductive: the flag could  *)
(* be reset under a running activation.  LoopInv adds that it is not.      *)

LoopInv ==
    \A l \in Loops : loop[l].pc # "idle" =>
        isUploadLoopActive /\ \A k \in Loops : loop[k].pc # "idle" => k = l

LEMMA LoopInvStep == TypeOK /\ LoopInv /\ [Next]_vars => LoopInv'
  <1> SUFFICES ASSUME TypeOK, LoopInv, [Next]_vars PROVE LoopInv'
    OBVIOUS
  <1>1. CASE UNCHANGED <<loop, isUploadLoopActive>>
    BY <1>1 DEF LoopInv
  <1>2. CASE Crash
    BY <1>2 DEF Crash, IdleLoop, LoopInv
  <1>3. ASSUME NEW l \in Loops, LoopStep(l) \/ LoopThrows(l)
        PROVE  LoopInv'
    <2>1. /\ loop' = [loop EXCEPT ![l] = loop'[l]]
          /\ \/ loop'[l].pc = "idle" /\ isUploadLoopActive' = FALSE
             \/ loop[l].pc = "idle" /\ ~isUploadLoopActive /\ isUploadLoopActive' = TRUE
             \/ loop[l].pc # "idle" /\ UNCHANGED isUploadLoopActive
      BY <1>3, LoopStepEffect
    <2>2. \A k \in Loops : k # l => loop'[k] = loop[k]
      BY <2>1 DEF TypeOK
    <2>3. CASE loop'[l].pc = "idle" /\ isUploadLoopActive' = FALSE
      <3>1. CASE loop[l].pc # "idle"
        BY <2>2, <2>3, <3>1 DEF LoopInv
      <3>2. CASE loop[l].pc = "idle"
        <4>1. LoopStep(l) => StartLoop(l)
          BY <3>2 DEF LoopStep, FindAwaiting, FindNothing, FindStale, CheckRow, SkipRow, MarkRow
        <4>2. ~LoopThrows(l)
          BY <3>2 DEF LoopThrows
        <4>3. QED  BY <1>3, <2>3, <4>1, <4>2 DEF StartLoop, TypeOK
      <3>3. QED  BY <3>1, <3>2
    <2>4. CASE loop[l].pc = "idle" /\ ~isUploadLoopActive /\ isUploadLoopActive' = TRUE
      BY <2>2, <2>4 DEF LoopInv
    <2>5. CASE loop[l].pc # "idle" /\ UNCHANGED isUploadLoopActive
      BY <2>2, <2>5 DEF LoopInv
    <2>6. QED  BY <2>1, <2>3, <2>4, <2>5
  <1>4. QED
    <2> USE DEF uploadFrame, workerFrame
    <2>1. CASE Restart                            BY <2>1, <1>1 DEF Restart
    <2>2. CASE CallWhileActive                    BY <2>2, <1>1 DEF CallWhileActive
    <2>3. ASSUME NEW u \in Uploads, BeginUpload(u) \/ UploadStep(u) \/ UploadThrows(u)
          PROVE  UNCHANGED <<loop, isUploadLoopActive>>
      BY <2>3 DEF BeginUpload, UploadStep, WriteChunk, BulkCreate, FixStatuses, TriggerLoop, UploadThrows
    <2>4. ASSUME NEW s \in Slots, WorkerStep(s) \/ WorkerThrows(s)
          PROVE  UNCHANGED <<loop, isUploadLoopActive>>
      BY <2>4 DEF WorkerStep, StartWorker, ReadFile, Head, PostChunk, VerifyRow, CompleteRow,
                  ProgressUpdated, ReadFailedRow, SettleFailedRow, WorkerThrows
    <2>5. ASSUME NEW c \in Chunks, Expire(c) \/ DownloadChunk(c)
          PROVE  UNCHANGED <<loop, isUploadLoopActive>>
      BY <2>5 DEF Expire, DownloadChunk
    <2>6. CASE UNCHANGED vars                     BY <2>6, <1>1 DEF vars
    <2>7. QED
      BY <1>1, <1>2, <1>3, <2>1, <2>2, <2>3, <2>4, <2>5, <2>6 DEF Next

\* Whatever exits the activations of uploadLoop take, no two of them run at once
\* (uploader.ts:24).
THEOREM UploadLoopIsUnique == Spec => []SingleLoop
  <1>1. Init => LoopInv
    BY DEF Init, LoopInv, IdleLoop
  <1>2. LoopInv => SingleLoop
    BY DEF LoopInv, SingleLoop
  <1>3. QED
    BY <1>1, <1>2, LoopInvStep, TypeCorrect, PTL DEF Spec

-----------------------------------------------------------------------------
(* One worker per chunk.  ExclusiveUpload needs to know what a row may     *)
(* hold while a worker has its chunk, and that nobody has the chunk that   *)
(* the loop is about to mark.                                              *)

OwnInv ==
    \A c \in Chunks \ lostLease :
        /\ \A s \in Slots : Holds(s, c) => ul[c] \in {"IN_PROGRESS", "COMPLETED"}
        /\ \A s, t \in Slots : Holds(s, c) /\ Holds(t, c) => s = t
        /\ \A l \in Loops : loop[l].pc = "mark" /\ loop[l].chunk = c =>
              ul[c] \in {"ENQUEUED", "IN_PROGRESS", "COMPLETED"} /\ \A s \in Slots : ~Holds(s, c)
        /\ c \in expired /\ ul[c] = "IN_PROGRESS" => \A s \in Slots : ~Holds(s, c)

\* Steps that hand out no chunk and change no row that a worker or the loop relies on.
LEMMA OwnInvKept ==
    ASSUME OwnInv, TypeOK,
           \A l \in Loops : loop'[l].pc = "mark" => loop'[l] = loop[l],
           expired' \subseteq expired \cup lostLease', lostLease \subseteq lostLease',
           \A s \in Slots, c \in Chunks : Holds(s, c)' => Holds(s, c),
           \A c \in Chunks \ lostLease' :
              \/ ul'[c] = ul[c]
              \/ ul[c] \in {"ABSENT", "NOT_STARTED", "FAILED"} /\ ul'[c] \in {"NOT_STARTED", "ENQUEUED"}
              \/ ul'[c] = "COMPLETED"
              \/ /\ ul[c] = "IN_PROGRESS" /\ ul'[c] \in {"ENQUEUED", "FAILED"}
                 /\ \A s \in Slots : ~Holds(s, c)'
                 /\ ul'[c] = "FAILED" => \E s \in Slots : Holds(s, c)
    PROVE  OwnInv'
  <1> SUFFICES ASSUME NEW c \in Chunks \ lostLease'
               PROVE  /\ \A s \in Slots : Holds(s, c)' => ul'[c] \in {"IN_PROGRESS", "COMPLETED"}
                      /\ \A s, t \in Slots : Holds(s, c)' /\ Holds(t, c)' => s = t
                      /\ \A l \in Loops : loop'[l].pc = "mark" /\ loop'[l].chunk = c =>
                            /\ ul'[c] \in {"ENQUEUED", "IN_PROGRESS", "COMPLETED"}
                            /\ \A s \in Slots : ~Holds(s, c)'
                      /\ c \in expired' /\ ul'[c] = "IN_PROGRESS" => \A s \in Slots : ~Holds(s, c)'
    BY DEF OwnInv
  <1>1. c \in Chunks /\ c \in Chunks \ lostLease /\ (c \in expired' => c \in expired)
    OBVIOUS
  <1>2. /\ \A s \in Slots : Holds(s, c) => ul[c] \in {"IN_PROGRESS", "COMPLETED"}
        /\ \A s, t \in Slots : Holds(s, c) /\ Holds(t, c) => s = t
        /\ \A l \in Loops : loop[l].pc = "mark" /\ loop[l].chunk = c =>
              ul[c] \in {"ENQUEUED", "IN_PROGRESS", "COMPLETED"} /\ \A s \in Slots : ~Holds(s, c)
        /\ c \in expired /\ ul[c] = "IN_PROGRESS" => \A s \in Slots : ~Holds(s, c)
    BY <1>1 DEF OwnInv
  <1>3. \A s \in Slots : Holds(s, c)' => Holds(s, c)
    BY <1>1
  <1>4. \A l \in Loops : loop'[l].pc = "mark" /\ loop'[l].chunk = c =>
            loop[l].pc = "mark" /\ loop[l].chunk = c
    OBVIOUS
  <1>5. QED
    BY <1>1, <1>2, <1>3, <1>4

LEMMA OwnUpload ==
    ASSUME TypeOK, OwnInv, NEW u \in Uploads, BeginUpload(u) \/ UploadStep(u) \/ UploadThrows(u)
    PROVE  OwnInv'
  <1>1. UNCHANGED <<worker, loop, expired, lostLease>>
    BY DEF BeginUpload, UploadStep, WriteChunk, BulkCreate, FixStatuses, TriggerLoop, UploadThrows, uploadFrame
  <1>2. \A c \in Chunks :
              \/ ul'[c] = ul[c]
              \/ ul[c] \in {"ABSENT", "NOT_STARTED", "FAILED"} /\ ul'[c] = "ENQUEUED"
    BY DEF BeginUpload, UploadStep, WriteChunk, BulkCreate, FixStatuses, TriggerLoop, UploadThrows
  <1>3. \A s \in Slots, c \in Chunks : Holds(s, c)' => Holds(s, c)
    BY <1>1 DEF Holds
  <1>4. loop' = loop /\ expired' \subseteq expired /\ lostLease \subseteq lostLease'
    BY <1>1
  <1>5. QED
    BY <1>2, <1>3, <1>4, OwnInvKept

LEMMA OwnWorker ==
    ASSUME TypeOK, OwnInv, NEW s \in Slots, WorkerStep(s) \/ WorkerThrows(s)
    PROVE  OwnInv'
  <1>0. worker[s] \in WorkerState /\ (worker[s].pc \in Holding => worker[s].chunk \in Chunks)
    BY DEF TypeOK, WorkerState, Holding
  <1>1. UNCHANGED <<loop, expired, lostLease>>
    BY DEF WorkerStep, StartWorker, ReadFile, Head, PostChunk, VerifyRow, CompleteRow, ProgressUpdated,
           ReadFailedRow, SettleFailedRow, WorkerThrows, workerFrame
  <1>2. \A t \in Slots, c \in Chunks : Holds(t, c)' => Holds(t, c)
    <2>1. ASSUME NEW pc, worker[s].pc \in Holding, Goto(s, pc)
          PROVE  \A t \in Slots, c \in Chunks : Holds(t, c)' => Holds(t, c)
      BY <2>1 DEF Goto, Holds, TypeOK, WorkerState
    <2>2. Finish(s) => \A t \in Slots, c \in Chunks : Holds(t, c)' => Holds(t, c)
      BY DEF Finish, Worker, Holds, Holding, TypeOK
    <2>3. worker[s].pc \in Holding
      BY DEF WorkerStep, StartWorker, ReadFile, Head, PostChunk, VerifyRow, CompleteRow, ProgressUpdated,
             ReadFailedRow, SettleFailedRow, WorkerThrows, Holding
    <2>4. CASE ReadFailedRow(s)
      BY <2>2, <2>3, <2>4 DEF ReadFailedRow, Holds, TypeOK, WorkerState
    <2>5. CASE ~ReadFailedRow(s)
      BY <2>1, <2>2, <2>3, <2>5 DEF WorkerStep, StartWorker, ReadFile, Head, PostChunk, VerifyRow, CompleteRow,
             ProgressUpdated, SettleFailedRow, WorkerThrows
    <2>6. QED  BY <2>4, <2>5
  <1>3. CASE SettleFailedRow(s)
    <2>1. PICK d \in Chunks : d = worker[s].chunk
      BY <1>0, <1>3 DEF SettleFailedRow, Holding
    <2>2. worker' = [worker EXCEPT ![s] = Worker("free", NoChunk)] /\ Holds(s, d)
      BY <1>3, <2>1 DEF SettleFailedRow, Finish, Holds, Holding
    <2>3. ~Holds(s, d)'
      BY <2>2 DEF Holds, Worker, Holding, TypeOK
    <2>4. d \notin lostLease => \A t \in Slots : ~Holds(t, d)'
      BY <1>2, <2>2, <2>3 DEF OwnInv
    <2>5. \A c \in Chunks :
              \/ ul'[c] = ul[c]
              \/ c = d /\ ul[c] = "IN_PROGRESS" /\ ul'[c] \in {"ENQUEUED", "FAILED"}
      BY <1>3, <2>1 DEF SettleFailedRow, StatusAfterFailure, TypeOK
    <2>6. \A c \in Chunks \ lostLease' :
              \/ ul'[c] = ul[c]
              \/ /\ ul[c] = "IN_PROGRESS" /\ ul'[c] \in {"ENQUEUED", "FAILED"}
                 /\ \A t \in Slots : ~Holds(t, c)'
                 /\ ul'[c] = "FAILED" => \E t \in Slots : Holds(t, c)
      BY <1>1, <2>2, <2>4, <2>5
    <2>7. QED  BY <1>1, <1>2, <2>6, OwnInvKept
  <1>4. CASE ~SettleFailedRow(s)
    <2>1. \A c \in Chunks : ul'[c] = ul[c] \/ ul'[c] = "COMPLETED"
      BY <1>4 DEF WorkerStep, StartWorker, ReadFile, Head, PostChunk, VerifyRow, CompleteRow, ProgressUpdated,
             ReadFailedRow, WorkerThrows, TypeOK
    <2>2. QED  BY <1>1, <1>2, <2>1, OwnInvKept
  <1>5. QED
    BY <1>3, <1>4

\* What the pool that the loop hands on may hold is all that it may hold afterwards.
LEMMA NextIterationHolds ==
    ASSUME TypeOK, NEW l \in Loops, NEW pool \in [Slots -> WorkerState],
           NEW A \in SUBSET Chunks, NEW S \in SUBSET Chunks, NextIteration(l, pool, A, S)
    PROVE  /\ \A k \in Loops : loop'[k].pc = "mark" => k # l /\ loop'[k] = loop[k]
           /\ \A t \in Slots, c \in Chunks : Holds(t, c)' => pool[t].pc \in Holding /\ pool[t].chunk = c
  <1>1. /\ loop' = [loop EXCEPT ![l] = loop'[l]]
        /\ loop'[l].pc \in {"idle", "check"}
        /\ \A t \in Slots : worker'[t] = pool[t] \/ worker'[t] = Worker("reserved", NoChunk)
    BY NextIterationEffect
  <1>2. \A k \in Loops : loop'[k].pc = "mark" => k # l /\ loop'[k] = loop[k]
    BY <1>1 DEF TypeOK
  <1>3. \A t \in Slots, c \in Chunks : Holds(t, c)' => pool[t].pc \in Holding /\ pool[t].chunk = c
    BY <1>1 DEF Holds, Worker, Holding
  <1>4. QED  BY <1>2, <1>3

\* The row is read again and asks for an upload: nobody has its chunk.
LEMMA OwnCheckRow ==
    ASSUME TypeOK, OwnInv, NEW l \in Loops, CheckRow(l)
    PROVE  OwnInv'
  <1> DEFINE d == loop[l].chunk
  <1>1. UNCHANGED <<ul, expired, worker, lostLease>>
    BY DEF CheckRow, rest
  <1>2. \A s \in Slots, c \in Chunks : Holds(s, c)' <=> Holds(s, c)
    BY <1>1 DEF Holds
  <1>3. \A k \in Loops : loop'[k].chunk = loop[k].chunk /\ (k # l => loop'[k] = loop[k])
    BY DEF CheckRow, TypeOK, LoopState
  <1>4. d \in Chunks \ lostLease =>
            ul[d] \in {"ENQUEUED", "IN_PROGRESS"} /\ \A s \in Slots : ~Holds(s, d)
    BY DEF CheckRow, IsUploadable, OwnInv
  <1>5. QED
    BY <1>1, <1>2, <1>3, <1>4 DEF OwnInv

\* The chunk that is handed to a worker was held by nobody, and no other loop is
\* about to hand it out.
LEMMA OwnMarkRow ==
    ASSUME TypeOK, LoopInv, OwnInv, NEW l \in Loops, MarkRow(l)
    PROVE  OwnInv'
  <1>1. PICK d \in Chunks : d = loop[l].chunk
    BY DEF MarkRow, TypeOK, LoopState
  <1>2. PICK slot \in Slots : slot = loop[l].slot
    BY DEF MarkRow, TypeOK, LoopState
  <1> DEFINE pool == [worker EXCEPT ![slot] = Worker("scheduled", d)]
  <1>3. pool \in [Slots -> WorkerState] /\ loop[l].awaiting \in SUBSET Chunks /\ loop[l].stale \in SUBSET Chunks
    BY FreshRecords DEF TypeOK, LoopState
  <1>4. NextIteration(l, pool, loop[l].awaiting, loop[l].stale)
    BY <1>1, <1>2 DEF MarkRow
  <1>5. /\ \A k \in Loops : loop'[k].pc = "mark" => k # l /\ loop'[k] = loop[k]
        /\ \A t \in Slots, c \in Chunks : Holds(t, c)' => pool[t].pc \in Holding /\ pool[t].chunk = c
    <2> HIDE DEF pool
    <2>1. QED  BY <1>3, <1>4, NextIterationHolds
  <1>6. \A k \in Loops : loop'[k].pc # "mark"
    BY <1>5 DEF MarkRow, LoopInv
  <1>7. \A t \in Slots, c \in Chunks : Holds(t, c)' => Holds(t, c) \/ (t = slot /\ c = d)
    BY <1>5 DEF Holds, TypeOK, Worker
  <1>8. lostLease' = lostLease
    BY DEF MarkRow, rest
  <1>9. \A c \in Chunks : c # d => ul'[c] = ul[c] /\ (c \in expired' => c \in expired)
    BY <1>1 DEF MarkRow, TypeOK
  <1>10. d \notin lostLease =>
            /\ \A t \in Slots : ~Holds(t, d)
            /\ ul'[d] \in {"IN_PROGRESS", "COMPLETED"}
            /\ d \in expired' => ul'[d] # "IN_PROGRESS"
    BY <1>1 DEF MarkRow, OwnInv, TypeOK
  <1>11. QED
    <2> SUFFICES ASSUME NEW c \in Chunks \ lostLease
                 PROVE  /\ \A s \in Slots : Holds(s, c)' => ul'[c] \in {"IN_PROGRESS", "COMPLETED"}
                        /\ \A s, t \in Slots : Holds(s, c)' /\ Holds(t, c)' => s = t
                        /\ c \in expired' /\ ul'[c] = "IN_PROGRESS" => \A s \in Slots : ~Holds(s, c)'
      BY <1>6, <1>8 DEF OwnInv
    <2>1. CASE c = d
      BY <1>7, <1>10, <2>1
    <2>2. CASE c # d
      BY <1>7, <1>9, <2>2 DEF OwnInv
    <2>3. QED  BY <2>1, <2>2

LEMMA OwnLoop ==
    ASSUME TypeOK, LoopInv, OwnInv, NEW l \in Loops, LoopStep(l) \/ LoopThrows(l)
    PROVE  OwnInv'
  <1>0. /\ worker \in [Slots -> WorkerState]
        /\ loop[l].awaiting \in SUBSET Chunks /\ loop[l].stale \in SUBSET Chunks
    BY DEF TypeOK, LoopState
  <1>a. ASSUME UNCHANGED <<ul, expired, lostLease>>,
               \A k \in Loops : loop'[k].pc = "mark" => loop'[k] = loop[k],
               \A s \in Slots, c \in Chunks : Holds(s, c)' => Holds(s, c)
        PROVE  OwnInv'
    BY <1>a, OwnInvKept
  <1>b. UNCHANGED worker => \A s \in Slots, c \in Chunks : Holds(s, c)' => Holds(s, c)
    BY DEF Holds
  <1>1. CASE StartLoop(l)
    <2>1. \A k \in Loops : loop'[k].pc = "mark" => loop'[k] = loop[k]
      BY <1>1 DEF StartLoop, TypeOK
    <2>2. QED  BY <1>1, <1>a, <1>b, <2>1 DEF StartLoop, rest
  <1>2. CASE FindAwaiting(l)
    <2>1. \A k \in Loops : loop'[k].pc = "mark" => loop'[k] = loop[k]
      BY <1>2 DEF FindAwaiting, TypeOK
    <2>2. QED  BY <1>2, <1>a, <1>b, <2>1 DEF FindAwaiting, rest
  <1>3. CASE FindNothing(l) \/ LoopThrows(l)
    <2>1. \A k \in Loops : loop'[k].pc = "mark" => loop'[k] = loop[k]
      BY <1>3 DEF FindNothing, LoopThrows, ExitLoop, IdleLoop, TypeOK
    <2>2. QED  BY <1>3, <1>a, <1>b, <2>1 DEF FindNothing, LoopThrows, rest
  <1>4. CASE FindStale(l)
    <2>1. PICK R \in Limited(StaleRows) : NextIteration(l, worker, loop[l].awaiting, R)
      BY <1>4 DEF FindStale
    <2>2. R \in SUBSET Chunks
      BY DEF Limited, StaleRows
    <2>3. /\ \A k \in Loops : loop'[k].pc = "mark" => k # l /\ loop'[k] = loop[k]
          /\ \A t \in Slots, c \in Chunks : Holds(t, c)' => worker[t].pc \in Holding /\ worker[t].chunk = c
      BY <1>0, <2>1, <2>2, NextIterationHolds
    <2>4. QED  BY <1>4, <1>a, <2>3 DEF FindStale, Holds, rest
  <1>5. CASE SkipRow(l)
    <2> DEFINE pool == [worker EXCEPT ![loop[l].slot] = Worker("free", NoChunk)]
    <2>1. pool \in [Slots -> WorkerState]
      BY FreshRecords DEF TypeOK
    <2>2. NextIteration(l, pool, loop[l].awaiting, loop[l].stale)
      BY <1>5 DEF SkipRow
    <2>3. /\ \A k \in Loops : loop'[k].pc = "mark" => k # l /\ loop'[k] = loop[k]
          /\ \A t \in Slots, c \in Chunks : Holds(t, c)' => pool[t].pc \in Holding /\ pool[t].chunk = c
      <3> HIDE DEF pool
      <3>1. QED  BY <1>0, <2>1, <2>2, NextIterationHolds
    <2>4. \A t \in Slots, c \in Chunks : Holds(t, c)' => Holds(t, c)
      BY <2>3 DEF Holds, Worker, Holding, TypeOK
    <2>5. QED  BY <1>5, <1>a, <2>3, <2>4 DEF SkipRow, rest
  <1>6. QED
    BY <1>1, <1>2, <1>3, <1>4, <1>5, OwnCheckRow, OwnMarkRow DEF LoopStep

LEMMA OwnInvStep == TypeOK /\ LoopInv /\ OwnInv /\ [Next]_vars => OwnInv'
  <1> SUFFICES ASSUME TypeOK, LoopInv, OwnInv, [Next]_vars PROVE OwnInv'
    OBVIOUS
  <1>1. CASE Restart
    <2>1. UNCHANGED <<loop, worker, expired>>
      BY <1>1 DEF Restart
    <2>2. \A s \in Slots, c \in Chunks : Holds(s, c)' <=> Holds(s, c)
      BY <2>1 DEF Holds
    <2>3. \A c \in Chunks \ lostLease' :
              \/ ul'[c] = ul[c]
              \/ ul[c] = "IN_PROGRESS" /\ ul'[c] = "ENQUEUED" /\ \A s \in Slots : ~Holds(s, c)
      BY <1>1 DEF Restart, TypeOK
    <2>4. lostLease \subseteq lostLease'
      BY <1>1 DEF Restart
    <2>5. QED  BY <2>1, <2>2, <2>3, <2>4, OwnInvKept
  <1>2. CASE CallWhileActive \/ UNCHANGED vars
    <2>1. UNCHANGED <<ul, loop, worker, expired, lostLease>>
      BY <1>2 DEF CallWhileActive, vars, rest
    <2>2. QED  BY <2>1 DEF OwnInv, Holds
  <1>3. CASE Crash
    <2>1. \A s \in Slots, c \in Chunks : ~Holds(s, c)'
      BY <1>3 DEF Crash, Holds, Worker, Holding
    <2>2. \A l \in Loops : loop'[l].pc # "mark"
      BY <1>3 DEF Crash, IdleLoop
    <2>3. QED  BY <2>1, <2>2 DEF OwnInv
  <1>4. ASSUME NEW d \in Chunks, Expire(d) \/ DownloadChunk(d)
        PROVE  OwnInv'
    <2>1. UNCHANGED <<loop, worker>> /\ lostLease \subseteq lostLease' /\ expired' \subseteq expired \cup lostLease'
      BY <1>4 DEF Expire, DownloadChunk, uploadFrame
    <2>2. \A s \in Slots, c \in Chunks : Holds(s, c)' <=> Holds(s, c)
      BY <2>1 DEF Holds
    <2>3. \A c \in Chunks :
              \/ ul'[c] = ul[c]
              \/ ul[c] = "ABSENT" /\ ul'[c] = "NOT_STARTED"
              \/ ul'[c] = "COMPLETED"
      BY <1>4 DEF Expire, DownloadChunk, TypeOK
    <2>4. QED  BY <2>1, <2>2, <2>3, OwnInvKept
  <1>5. QED
    BY <1>1, <1>2, <1>3, <1>4, OwnUpload, OwnLoop, OwnWorker DEF Next

\* Unless its lease ran out or a late restart took it away, no chunk has two
\* workers: the row is marked in progress "so it is not picked up again"
\* (uploader.ts:75).
THEOREM UploadIsExclusive == Spec => []ExclusiveUpload
  <1>1. Init => OwnInv /\ LoopInv
    BY DEF Init, OwnInv, LoopInv, Holds, Holding, IdleLoop, Worker
  <1>2. OwnInv => ExclusiveUpload
    BY DEF OwnInv, ExclusiveUpload
  <1>3. TypeOK /\ (LoopInv /\ OwnInv) /\ [Next]_vars => (LoopInv /\ OwnInv)'
    BY LoopInvStep, OwnInvStep
  <1>4. QED
    BY <1>1, <1>2, <1>3, TypeCorrect, PTL DEF Spec

-----------------------------------------------------------------------------
(* What the steps of the loop may do to workers and rows                   *)

\* A step of the loop leaves a worker alone or puts it at its start, and changes no
\* row but the one it marks.
LEMMA LoopStepFrame ==
    ASSUME TypeOK, NEW l \in Loops, LoopStep(l) \/ LoopThrows(l)
    PROVE  /\ UNCHANGED <<retry_count, failures, network>>
           /\ \A t \in Slots : worker'[t] = worker[t] \/ worker'[t].pc \in {"reserved", "free", "scheduled"}
           /\ \A c \in Chunks :
                \/ ul'[c] = ul[c]
                \/ /\ loop[l].pc = "mark" /\ loop[l].chunk = c
                   /\ ul[c] \notin {"FAILED", "COMPLETED"} /\ ul'[c] = "IN_PROGRESS"
           /\ \A k \in Loops : loop'[k].pc = "mark" =>
                  loop'[k] = loop[k] \/ (ul[loop'[k].chunk] \in {"ENQUEUED", "IN_PROGRESS"} /\ ul' = ul)
  <1>0. /\ worker \in [Slots -> WorkerState]
        /\ loop[l].awaiting \in SUBSET Chunks /\ loop[l].stale \in SUBSET Chunks
    BY DEF TypeOK, LoopState
  <1>a. ASSUME NEW pool \in [Slots -> WorkerState], NEW A \in SUBSET Chunks, NEW S \in SUBSET Chunks,
               NextIteration(l, pool, A, S),
               \A t \in Slots : pool[t] = worker[t] \/ pool[t].pc \in {"free", "scheduled"}
        PROVE  /\ \A t \in Slots : worker'[t] = worker[t] \/ worker'[t].pc \in {"reserved", "free", "scheduled"}
               /\ \A k \in Loops : loop'[k].pc = "mark" => loop'[k] = loop[k]
    <2>1. \A t \in Slots : worker'[t] = pool[t] \/ worker'[t] = Worker("reserved", NoChunk)
      BY <1>a, NextIterationEffect
    <2>2. \A k \in Loops : loop'[k].pc = "mark" => loop'[k] = loop[k]
      BY <1>a, NextIterationHolds
    <2>3. QED  BY <1>a, <2>1, <2>2 DEF Worker
  <1>1. CASE StartLoop(l)     BY <1>1 DEF StartLoop, TypeOK, rest
  <1>2. CASE FindAwaiting(l)  BY <1>2 DEF FindAwaiting, TypeOK, rest
  <1>3. CASE FindNothing(l) \/ LoopThrows(l)
    BY <1>3 DEF FindNothing, LoopThrows, ExitLoop, IdleLoop, TypeOK, rest
  <1>4. CASE FindStale(l)
    <2>1. PICK R \in Limited(StaleRows) : NextIteration(l, worker, loop[l].awaiting, R)
      BY <1>4 DEF FindStale
    <2>2. R \in SUBSET Chunks
      BY DEF Limited, StaleRows
    <2>3. UNCHANGED <<ul, retry_count, failures, network>>
      BY <1>4 DEF FindStale, rest
    <2>4. QED  BY <1>0, <1>a, <2>1, <2>2, <2>3
  <1>5. CASE CheckRow(l)
    BY <1>5 DEF CheckRow, IsUploadable, TypeOK, LoopState, rest
  <1>6. CASE SkipRow(l)
    <2> DEFINE pool == [worker EXCEPT ![loop[l].slot] = Worker("free", NoChunk)]
    <2>1. pool \in [Slots -> WorkerState]
      BY FreshRecords DEF TypeOK
    <2>2. \A t \in Slots : pool[t] = worker[t] \/ pool[t].pc \in {"free", "scheduled"}
      BY DEF TypeOK, Worker
    <2>3. NextIteration(l, pool, loop[l].awaiting, loop[l].stale) /\ UNCHANGED <<ul, retry_count, failures, network>>
      BY <1>6 DEF SkipRow, rest
    <2> HIDE DEF pool
    <2>4. QED  BY <1>0, <1>a, <2>1, <2>2, <2>3
  <1>7. CASE MarkRow(l)
    <2> DEFINE pool == [worker EXCEPT ![loop[l].slot] = Worker("scheduled", loop[l].chunk)]
    <2>1. pool \in [Slots -> WorkerState]
      BY <1>7, FreshRecords DEF MarkRow, TypeOK, LoopState
    <2>2. \A t \in Slots : pool[t] = worker[t] \/ pool[t].pc \in {"free", "scheduled"}
      BY DEF TypeOK, Worker
    <2>3. NextIteration(l, pool, loop[l].awaiting, loop[l].stale) /\ UNCHANGED <<retry_count, failures, network>>
      BY <1>7 DEF MarkRow, rest
    <2>4. \A c \in Chunks :
              \/ ul'[c] = ul[c]
              \/ /\ loop[l].pc = "mark" /\ loop[l].chunk = c
                 /\ ul[c] \notin {"FAILED", "COMPLETED"} /\ ul'[c] = "IN_PROGRESS"
      BY <1>7 DEF MarkRow, TypeOK
    <2> HIDE DEF pool
    <2>5. QED  BY <1>0, <1>a, <2>1, <2>2, <2>3, <2>4
  <1>8. QED
    BY <1>1, <1>2, <1>3, <1>4, <1>5, <1>6, <1>7 DEF LoopStep

-----------------------------------------------------------------------------
(* Retries.  A worker settles a row with the retry_count it read before;   *)
(* RetryInv bounds every such copy by the failures recorded so far.        *)

RetryInv ==
    /\ \A c \in Chunks : ul[c] = "FAILED" => failures[c] > UPLOAD_RETRY_LIMIT
    /\ \A c \in Chunks : retry_count[c] <= failures[c]
    /\ \A s \in Slots : worker[s].pc = "settle" => worker[s].count <= failures[worker[s].chunk]

\* Steps that record no failure, read no count and give up no row.
LEMMA RetryInvKept ==
    ASSUME TypeOK, RetryInv, UNCHANGED <<retry_count, failures>>,
           \A c \in Chunks : ul'[c] = "FAILED" => ul[c] = "FAILED",
           \A s \in Slots : worker'[s].pc = "settle" => worker'[s] = worker[s]
    PROVE  RetryInv'
  BY DEF RetryInv

LEMMA RetryWorker ==
    ASSUME TypeOK, RetryInv, NEW s \in Slots, WorkerStep(s) \/ WorkerThrows(s)
    PROVE  RetryInv'
  <1>0. worker[s] \in WorkerState /\ (worker[s].pc \in Holding => worker[s].chunk \in Chunks)
    BY DEF TypeOK, WorkerState, Holding
  <1>1. CASE SettleFailedRow(s)
    <2>1. PICK d \in Chunks : d = worker[s].chunk
      BY <1>0, <1>1 DEF SettleFailedRow, Holding
    <2>2. worker[s].count \in Nat /\ worker[s].count <= failures[d]
      BY <1>0, <1>1, <2>1 DEF SettleFailedRow, RetryInv, WorkerState
    <2>3. /\ worker'[s].pc = "free"
          /\ \A t \in Slots : t # s => worker'[t] = worker[t]
      BY <1>1 DEF SettleFailedRow, Finish, Worker, TypeOK
    <2>4. CASE ul[d] = "IN_PROGRESS"
      <3>1. /\ \A c \in Chunks : failures'[c] = IF c = d THEN failures[d] + 1 ELSE failures[c]
            /\ \A c \in Chunks : retry_count'[c] = IF c = d THEN worker[s].count + 1 ELSE retry_count[c]
            /\ \A c \in Chunks : ul'[c] = IF c = d THEN StatusAfterFailure(worker[s].count) ELSE ul[c]
        BY <1>1, <2>1, <2>4 DEF SettleFailedRow, TypeOK
      <3>2. \A c \in Chunks : failures[c] \in Nat /\ retry_count[c] \in Nat
        BY DEF TypeOK
      <3>3. \A c \in Chunks : ul'[c] = "FAILED" => failures'[c] > UPLOAD_RETRY_LIMIT
        BY <2>2, <3>1, <3>2, ChunkUploadAssumption DEF RetryInv, StatusAfterFailure
      <3>4. \A c \in Chunks : retry_count'[c] <= failures'[c]
        BY <2>2, <3>1, <3>2 DEF RetryInv
      <3>5. ASSUME NEW t \in Slots, worker'[t].pc = "settle"
            PROVE  worker'[t].count <= failures'[worker'[t].chunk]
        <4>1. t # s /\ worker'[t] = worker[t]
          BY <2>3, <3>5
        <4>2. worker[t].chunk \in Chunks /\ worker[t].count \in Nat
          BY <3>5, <4>1 DEF TypeOK, WorkerState, Holding
        <4>3. worker[t].count <= failures[worker[t].chunk]
          BY <3>5, <4>1 DEF RetryInv
        <4>4. QED  BY <3>1, <3>2, <4>1, <4>2, <4>3
      <3>6. QED  BY <3>3, <3>4, <3>5 DEF RetryInv
    <2>5. CASE ul[d] # "IN_PROGRESS"
      <3>1. UNCHANGED <<ul, retry_count, failures>>
        BY <1>1, <2>1, <2>5 DEF SettleFailedRow
      <3>2. \A t \in Slots : worker'[t].pc = "settle" => worker'[t] = worker[t]
        BY <2>3
      <3>3. QED  BY <3>1, <3>2, RetryInvKept
    <2>6. QED  BY <2>4, <2>5
  <1>2. CASE ReadFailedRow(s) /\ ul[worker[s].chunk] = "IN_PROGRESS"
    <2>1. /\ \A t \in Slots : t # s => worker'[t] = worker[t]
          /\ worker'[s].chunk = worker[s].chunk /\ worker'[s].count = retry_count[worker[s].chunk]
          /\ worker[s].chunk \in Chunks
      BY <1>0, <1>2 DEF ReadFailedRow, TypeOK, WorkerState, Holding
    <2>2. UNCHANGED <<ul, retry_count, failures>>
      BY <1>2 DEF ReadFailedRow
    <2>3. QED  BY <2>1, <2>2 DEF RetryInv
  <1>3. CASE ~SettleFailedRow(s) /\ ~(ReadFailedRow(s) /\ ul[worker[s].chunk] = "IN_PROGRESS")
    <2> USE <1>3 DEF WorkerStep, StartWorker, ReadFile, Head, PostChunk, VerifyRow, CompleteRow,
                     ProgressUpdated, ReadFailedRow, WorkerThrows
    <2>1. UNCHANGED <<retry_count, failures>>
      OBVIOUS
    <2>2. \A c \in Chunks : ul'[c] = "FAILED" => ul[c] = "FAILED"
      BY DEF TypeOK
    <2>3. \A t \in Slots : worker'[t].pc = "settle" => worker'[t] = worker[t]
      BY DEF Goto, Finish, Worker, TypeOK, WorkerState
    <2>4. QED  BY <2>1, <2>2, <2>3, RetryInvKept
  <1>4. QED  BY <1>1, <1>2, <1>3

LEMMA RetryInvStep == TypeOK /\ RetryInv /\ [Next]_vars => RetryInv'
  <1> SUFFICES ASSUME TypeOK, RetryInv, [Next]_vars PROVE RetryInv'
    OBVIOUS
  <1>1. ASSUME NEW u \in Uploads, BeginUpload(u) \/ UploadStep(u) \/ UploadThrows(u)
        PROVE  RetryInv'
    <2>1. UNCHANGED <<worker, retry_count, failures>> /\ \A c \in Chunks : ul'[c] = "FAILED" => ul[c] = "FAILED"
      BY <1>1 DEF BeginUpload, UploadStep, WriteChunk, BulkCreate, FixStatuses, TriggerLoop, UploadThrows, uploadFrame
    <2>2. QED  BY <2>1, RetryInvKept
  <1>2. ASSUME NEW l \in Loops, LoopStep(l) \/ LoopThrows(l)
        PROVE  RetryInv'
    <2>1. /\ UNCHANGED <<retry_count, failures>>
          /\ \A c \in Chunks : ul'[c] = "FAILED" => ul[c] = "FAILED"
          /\ \A t \in Slots : worker'[t].pc = "settle" => worker'[t] = worker[t]
      BY <1>2, LoopStepFrame
    <2>2. QED  BY <2>1, RetryInvKept
  <1>3. CASE Restart
    BY <1>3, RetryInvKept DEF Restart, TypeOK
  <1>4. CASE CallWhileActive \/ UNCHANGED vars
    BY <1>4, RetryInvKept DEF CallWhileActive, vars, rest
  <1>5. CASE Crash
    BY <1>5, RetryInvKept DEF Crash, Worker
  <1>6. ASSUME NEW c \in Chunks, Expire(c) \/ DownloadChunk(c)
        PROVE  RetryInv'
    <2>1. UNCHANGED <<worker, retry_count, failures>> /\ \A d \in Chunks : ul'[d] = "FAILED" => ul[d] = "FAILED"
      BY <1>6 DEF Expire, DownloadChunk, uploadFrame, TypeOK
    <2>2. QED  BY <2>1, RetryInvKept
  <1>7. QED
    BY <1>1, <1>2, <1>3, <1>4, <1>5, <1>6, RetryWorker DEF Next

\* Overlapping workers may lose an increment of retry_count, but they never give a
\* chunk up before UPLOAD_RETRY_LIMIT retries failed (markAsFailedOrRestart, chunk.ts).
THEOREM RetriesAreNotCutShort == Spec => []FailedOnlyAfterRetries
  <1>1. Init => RetryInv
    BY DEF Init, RetryInv, Worker
  <1>2. RetryInv => FailedOnlyAfterRetries
    BY DEF RetryInv, FailedOnlyAfterRetries
  <1>3. QED
    BY <1>1, <1>2, RetryInvStep, TypeCorrect, PTL DEF Spec

-----------------------------------------------------------------------------
(* The life cycle of the rows.  The writes are guarded by what the writer  *)
(* read before: the worker that completes a row saw its chunk accepted,    *)
(* the loop that marks a row saw it enqueued.                              *)

NetInv == \A s \in Slots : worker[s].pc \in {"verify", "complete"} => worker[s].chunk \in network

MarkInv == \A l \in Loops : loop[l].pc = "mark" => ul[loop[l].chunk] \notin {"ABSENT", "NOT_STARTED"}

\* A step that maps to a step of the life cycle and leaves the invariants alone.
LEMMA LifecycleKept ==
    ASSUME TypeOK, TypeOK', NetInv, MarkInv, network \subseteq network',
           \A c \in Chunks : Lifecycle!MayBecome(c),
           \A s \in Slots : worker'[s].pc \in {"verify", "complete"} =>
              worker'[s] = worker[s] \/ worker'[s].chunk \in network',
           \A l \in Loops : loop'[l].pc = "mark" =>
              loop'[l] = loop[l] \/ (ul[loop'[l].chunk] \in {"ENQUEUED", "IN_PROGRESS"} /\ ul' = ul)
    PROVE  Lifecycle!LifecycleNext /\ NetInv' /\ MarkInv'
  <1>1. Lifecycle!LifecycleNext
    BY DEF Lifecycle!LifecycleNext, TypeOK, UlStatus, Lifecycle!UlStatus
  <1>2. NetInv'
    BY DEF NetInv
  <1>3. MarkInv'
    <2> SUFFICES ASSUME NEW l \in Loops, loop'[l].pc = "mark", loop'[l] = loop[l]
                 PROVE  ul'[loop'[l].chunk] \notin {"ABSENT", "NOT_STARTED"}
      BY DEF MarkInv
    <2>1. loop[l].chunk \in Chunks /\ ul[loop[l].chunk] \notin {"ABSENT", "NOT_STARTED"}
      BY DEF MarkInv, TypeOK, LoopState
    <2>2. Lifecycle!MayBecome(loop[l].chunk)
      BY <2>1
    <2>3. ul'[loop[l].chunk] \in UlStatus
      BY <2>1 DEF TypeOK
    <2>4. QED
      BY <2>1, <2>2, <2>3 DEF Lifecycle!MayBecome, Lifecycle!Predecessors, UlStatus
  <1>4. QED  BY <1>1, <1>2, <1>3

LEMMA LifecycleWorker ==
    ASSUME TypeOK, TypeOK', NetInv, MarkInv, NEW s \in Slots, WorkerStep(s) \/ WorkerThrows(s)
    PROVE  Lifecycle!LifecycleNext /\ NetInv' /\ MarkInv'
  <1> USE DEF WorkerStep, StartWorker, ReadFile, Head, PostChunk, VerifyRow, CompleteRow, ProgressUpdated,
              ReadFailedRow, SettleFailedRow, WorkerThrows
  <1>1. UNCHANGED loop /\ network \subseteq network'
    BY DEF workerFrame
  <1>2. \A t \in Slots : worker'[t].pc \in {"verify", "complete"} =>
            worker'[t] = worker[t] \/ worker'[t].chunk \in network'
    BY DEF Goto, Finish, Worker, TypeOK, WorkerState, NetInv
  <1>3. \A c \in Chunks : Lifecycle!MayBecome(c)
    <2>1. CASE CompleteRow(s)
      BY <2>1 DEF NetInv, TypeOK, Lifecycle!MayBecome, Lifecycle!Predecessors, Lifecycle!UlStatus
    <2>2. CASE SettleFailedRow(s)
      <3>1. \A c \in Chunks :
                \/ ul'[c] = ul[c]
                \/ ul[c] = "IN_PROGRESS" /\ ul'[c] \in {"ENQUEUED", "FAILED"}
        BY <2>2 DEF StatusAfterFailure, TypeOK
      <3>2. QED  BY <3>1 DEF Lifecycle!MayBecome, Lifecycle!Predecessors
    <2>3. CASE ~CompleteRow(s) /\ ~SettleFailedRow(s)
      BY <2>3 DEF Lifecycle!MayBecome
    <2>4. QED  BY <2>1, <2>2, <2>3
  <1>4. QED  BY <1>1, <1>2, <1>3, LifecycleKept

LEMMA LifecycleStep ==
    ASSUME TypeOK, TypeOK', NetInv, MarkInv, [Next]_vars
    PROVE  [Lifecycle!LifecycleNext]_(Lifecycle!lifecycleVars) /\ NetInv' /\ MarkInv'
  <1> USE DEF Lifecycle!MayBecome, Lifecycle!Predecessors
  <1>1. ASSUME NEW u \in Uploads, BeginUpload(u) \/ UploadStep(u) \/ UploadThrows(u)
        PROVE  Lifecycle!LifecycleNext /\ NetInv' /\ MarkInv'
    <2>1. UNCHANGED <<worker, loop, network>>
      BY <1>1 DEF BeginUpload, UploadStep, WriteChunk, BulkCreate, FixStatuses, TriggerLoop, UploadThrows, uploadFrame
    <2>2. \A c \in Chunks :
              \/ ul'[c] = ul[c]
              \/ ul[c] \in {"ABSENT", "NOT_STARTED", "FAILED"} /\ ul'[c] = "ENQUEUED"
      BY <1>1 DEF BeginUpload, UploadStep, WriteChunk, BulkCreate, FixStatuses, TriggerLoop, UploadThrows
    <2>3. \A c \in Chunks : Lifecycle!MayBecome(c)
      BY <2>2
    <2>4. QED  BY <2>1, <2>3, LifecycleKept
  <1>2. ASSUME NEW l \in Loops, LoopStep(l) \/ LoopThrows(l)
        PROVE  Lifecycle!LifecycleNext /\ NetInv' /\ MarkInv'
    <2>1. /\ UNCHANGED network
          /\ \A t \in Slots : worker'[t] = worker[t] \/ worker'[t].pc \in {"reserved", "free", "scheduled"}
          /\ \A c \in Chunks :
                \/ ul'[c] = ul[c]
                \/ /\ loop[l].pc = "mark" /\ loop[l].chunk = c
                   /\ ul[c] \notin {"FAILED", "COMPLETED"} /\ ul'[c] = "IN_PROGRESS"
          /\ \A k \in Loops : loop'[k].pc = "mark" =>
                loop'[k] = loop[k] \/ (ul[loop'[k].chunk] \in {"ENQUEUED", "IN_PROGRESS"} /\ ul' = ul)
      BY <1>2, LoopStepFrame
    <2>2. \A c \in Chunks : ul'[c] = ul[c] \/ (ul[c] \in {"ENQUEUED", "IN_PROGRESS"} /\ ul'[c] = "IN_PROGRESS")
      BY <2>1 DEF MarkInv, TypeOK, UlStatus
    <2>3. \A c \in Chunks : Lifecycle!MayBecome(c)
      BY <2>2
    <2>4. QED  BY <2>1, <2>3, LifecycleKept
  <1>3. CASE Restart \/ CallWhileActive
    <2>1. UNCHANGED <<worker, loop, network>>
      BY <1>3 DEF Restart, CallWhileActive, rest
    <2>2. \A c \in Chunks : Lifecycle!MayBecome(c)
      BY <1>3 DEF Restart, CallWhileActive
    <2>3. QED  BY <2>1, <2>2, LifecycleKept
  <1>4. CASE Crash
    <2>1. UNCHANGED <<ul, network>>
      BY <1>4 DEF Crash
    <2>2. /\ \A s \in Slots : worker'[s].pc \notin {"verify", "complete"}
          /\ \A l \in Loops : loop'[l].pc # "mark"
      BY <1>4 DEF Crash, Worker, IdleLoop
    <2>3. QED  BY <2>1, <2>2, LifecycleKept
  <1>5. ASSUME NEW d \in Chunks, Expire(d) \/ DownloadChunk(d)
        PROVE  Lifecycle!LifecycleNext /\ NetInv' /\ MarkInv'
    <2>1. UNCHANGED <<worker, loop, network>>
      BY <1>5 DEF Expire, DownloadChunk, uploadFrame
    <2>2. \A c \in Chunks : Lifecycle!MayBecome(c)
      BY <1>5 DEF Expire, DownloadChunk, TypeOK, UlStatus, Lifecycle!UlStatus
    <2>3. QED  BY <2>1, <2>2, LifecycleKept
  <1>6. CASE UNCHANGED vars
    BY <1>6 DEF vars, Lifecycle!lifecycleVars, NetInv, MarkInv
  <1>7. QED
    BY <1>1, <1>2, <1>3, <1>4, <1>5, <1>6, LifecycleWorker DEF Next

\* The pipeline implements the life cycle of ChunkLifecycle: COMPLETED is final and
\* written only for chunks that the network holds, FAILED is left only for a new
\* request or a successful download.
THEOREM UploadImplementsLifecycle == Spec => ImplementsLifecycle
  <1>1. Init => Lifecycle!LifecycleInit /\ NetInv /\ MarkInv
    BY DEF Init, Lifecycle!LifecycleInit, NetInv, MarkInv, Worker, IdleLoop
  <1>2. TypeOK /\ TypeOK' /\ (NetInv /\ MarkInv) /\ [Next]_vars =>
            [Lifecycle!LifecycleNext]_(Lifecycle!lifecycleVars) /\ (NetInv /\ MarkInv)'
    BY LifecycleStep
  <1>3. QED
    BY <1>1, <1>2, TypeCorrect, PTL DEF Spec, ImplementsLifecycle, Lifecycle!LifecycleSpec
-----------------------------------------------------------------------------
(* Slots of the pool.  A slot is reserved while the loop reads and marks a *)
(* row, so NoLeakedSlot follows the reserved slots through every exit of   *)
(* the loop.  It needs LoopInv: the step of an activation may overwrite    *)
(* its slot only because no other activation runs, so that every reserved  *)
(* slot is its own.                                                        *)

\* The head of the for loop takes at most one slot, that of the row it goes on with.
LEMMA NextIterationSlot ==
    ASSUME TypeOK, NEW l \in Loops, NEW pool \in [Slots -> WorkerState],
           NEW A \in SUBSET Chunks, NEW S \in SUBSET Chunks, NextIteration(l, pool, A, S)
    PROVE  \A t \in Slots : worker'[t].pc = "reserved" =>
              pool[t].pc = "reserved" \/ (loop'[l].pc # "idle" /\ loop'[l].slot = t)
  <1>1. CASE worker' = pool
    BY <1>1
  <1>2. ASSUME NEW s \in AvailableSlots(pool), NEW c \in IF A # {} THEN A ELSE S,
               worker' = [pool EXCEPT ![s] = Worker("reserved", NoChunk)],
               loop' = [loop EXCEPT ![l] = [pc |-> "check", chunk |-> c, slot |-> s,
                                            awaiting |-> A \ {c}, stale |-> S \ {c}]]
        PROVE  \A t \in Slots : worker'[t].pc = "reserved" =>
                  pool[t].pc = "reserved" \/ (loop'[l].pc # "idle" /\ loop'[l].slot = t)
    BY <1>2 DEF TypeOK
  <1>3. QED
    BY <1>1, <1>2 DEF NextIteration

\* A step of a running activation that is no exception keeps no reserved slot but its own.
LEMMA SlotLoop ==
    ASSUME TypeOK, LoopInv, NEW l \in Loops, LoopStep(l),
           \A s \in Slots : worker[s].pc = "reserved" => \E k \in Loops : loop[k].pc # "idle" /\ loop[k].slot = s
    PROVE  \A s \in Slots : worker'[s].pc = "reserved" => \E k \in Loops : loop'[k].pc # "idle" /\ loop'[k].slot = s
  <1>0. /\ worker \in [Slots -> WorkerState]
        /\ loop[l].awaiting \in SUBSET Chunks /\ loop[l].stale \in SUBSET Chunks
        /\ loop[l].pc = "mark" => loop[l].chunk \in Chunks
        /\ loop[l].pc \in {"check", "mark"} => loop[l].slot \in Slots
        /\ loop[l].pc \in {"idle", "awaiting", "stale"} => loop[l].slot = 0 /\ loop[l].slot \notin Slots
    BY DEF TypeOK, LoopState, Slots
  <1>a. ASSUME loop[l].pc # "idle", NEW s \in Slots, worker[s].pc = "reserved"
        PROVE  loop[l].slot = s
    BY <1>a DEF LoopInv
  <1>1. CASE StartLoop(l)
    BY <1>1 DEF StartLoop, TypeOK, rest
  <1>2. CASE FindAwaiting(l)
    BY <1>2, <1>a, <1>0 DEF FindAwaiting
  <1>3. CASE FindNothing(l)
    BY <1>3, <1>a, <1>0 DEF FindNothing
  <1>4. CASE FindStale(l)
    <2>1. PICK R \in Limited(StaleRows) : NextIteration(l, worker, loop[l].awaiting, R)
      BY <1>4 DEF FindStale
    <2>2. R \in SUBSET Chunks
      BY DEF Limited, StaleRows
    <2>3. \A s \in Slots : worker[s].pc # "reserved"
      BY <1>4, <1>a, <1>0 DEF FindStale
    <2>4. QED  BY <1>0, <2>1, <2>2, <2>3, NextIterationSlot
  <1>5. CASE CheckRow(l)
    BY <1>5, <1>a DEF CheckRow, TypeOK
  <1>6. CASE SkipRow(l)
    <2> DEFINE pool == [worker EXCEPT ![loop[l].slot] = Worker("free", NoChunk)]
    <2>1. pool \in [Slots -> WorkerState]
      BY <1>0, FreshRecords
    <2>2. \A s \in Slots : pool[s].pc # "reserved"
      BY <1>6, <1>a, <1>0 DEF SkipRow, Worker
    <2>3. NextIteration(l, pool, loop[l].awaiting, loop[l].stale)
      BY <1>6 DEF SkipRow
    <2> HIDE DEF pool
    <2>4. QED  BY <1>0, <2>1, <2>2, <2>3, NextIterationSlot
  <1>7. CASE MarkRow(l)
    <2> DEFINE pool == [worker EXCEPT ![loop[l].slot] = Worker("scheduled", loop[l].chunk)]
    <2>1. pool \in [Slots -> WorkerState]
      BY <1>7, <1>0, FreshRecords DEF MarkRow
    <2>2. \A s \in Slots : pool[s].pc # "reserved"
      BY <1>7, <1>a, <1>0 DEF MarkRow, Worker
    <2>3. NextIteration(l, pool, loop[l].awaiting, loop[l].stale)
      BY <1>7 DEF MarkRow
    <2> HIDE DEF pool
    <2>4. QED  BY <1>0, <2>1, <2>2, <2>3, NextIterationSlot
  <1>8. QED
    BY <1>1, <1>2, <1>3, <1>4, <1>5, <1>6, <1>7 DEF LoopStep

LEMMA SlotStep == TypeOK /\ LoopInv /\ NoLeakedSlot /\ [Next]_vars => NoLeakedSlot'
  <1> SUFFICES ASSUME TypeOK, LoopInv, NoLeakedSlot, [Next]_vars, used'.faults = 0
               PROVE  \A s \in Slots : worker'[s].pc = "reserved" =>
                          \E k \in Loops : loop'[k].pc # "idle" /\ loop'[k].slot = s
    BY DEF NoLeakedSlot
  <1> USE DEF uploadFrame, workerFrame, rest
  <1>a. ASSUME used' = [used EXCEPT !.faults = @ + 1] PROVE FALSE
    <2>1. used \in [expiries: Nat, faults: Nat, crashes: Nat]
      BY DEF TypeOK
    <2>2. used'.faults = used.faults + 1 /\ used.faults \in Nat
      BY <1>a, <2>1
    <2>3. QED  BY <2>2
  <1>b. used.faults = 0 \/ Crash
    <2>1. ASSUME NEW c \in Chunks, Expire(c) PROVE used'.faults = used.faults
      BY <2>1 DEF Expire, TypeOK
    <2>2. ASSUME NEW c \in Chunks, DownloadChunk(c) PROVE UNCHANGED used
      BY <2>2 DEF DownloadChunk
    <2>3. ASSUME NEW u \in Uploads, BeginUpload(u) \/ UploadStep(u) PROVE UNCHANGED used
      BY <2>3 DEF BeginUpload, UploadStep, WriteChunk, BulkCreate, FixStatuses, TriggerLoop
    <2>4. ASSUME NEW l \in Loops, LoopStep(l) PROVE UNCHANGED used
      BY <2>4 DEF LoopStep, StartLoop, FindAwaiting, FindNothing, FindStale, CheckRow, SkipRow, MarkRow
    <2>5. ASSUME NEW s \in Slots, WorkerStep(s) PROVE UNCHANGED used
      BY <2>5 DEF WorkerStep, StartWorker, ReadFile, Head, PostChunk, VerifyRow, CompleteRow,
                  ProgressUpdated, ReadFailedRow, SettleFailedRow
    <2>6. Restart \/ CallWhileActive \/ UNCHANGED vars => UNCHANGED used
      BY DEF Restart, CallWhileActive, vars
    <2>7. QED
      BY <1>a, <2>1, <2>2, <2>3, <2>4, <2>5, <2>6 DEF Next, UploadThrows, LoopThrows, WorkerThrows
  <1>1. CASE UNCHANGED <<loop, worker>> /\ used.faults = 0
    BY <1>1 DEF NoLeakedSlot
  <1>2. CASE Crash
    BY <1>2 DEF Crash, Worker
  <1>3. ASSUME NEW l \in Loops, LoopStep(l), used.faults = 0
        PROVE  \A s \in Slots : worker'[s].pc = "reserved" =>
                   \E k \in Loops : loop'[k].pc # "idle" /\ loop'[k].slot = s
    BY <1>3, SlotLoop DEF NoLeakedSlot
  <1>4. ASSUME NEW s \in Slots, WorkerStep(s), used.faults = 0
        PROVE  \A t \in Slots : worker'[t].pc = "reserved" =>
                   \E k \in Loops : loop'[k].pc # "idle" /\ loop'[k].slot = t
    <2>1. UNCHANGED loop
      BY <1>4 DEF WorkerStep, StartWorker, ReadFile, Head, PostChunk, VerifyRow, CompleteRow,
                  ProgressUpdated, ReadFailedRow, SettleFailedRow
    <2>2. ASSUME NEW pc \in Holding, Goto(s, pc)
          PROVE  \A t \in Slots : worker'[t].pc = "reserved" => worker[t].pc = "reserved"
      BY <2>2 DEF Goto, Holding, TypeOK, WorkerState
    <2>3. Finish(s) => \A t \in Slots : worker'[t].pc = "reserved" => worker[t].pc = "reserved"
      BY DEF Finish, Worker, TypeOK
    <2>4. \A t \in Slots : worker'[t].pc = "reserved" => worker[t].pc = "reserved"
      <3>1. CASE ReadFailedRow(s)
        BY <3>1, <2>3 DEF ReadFailedRow, TypeOK, WorkerState
      <3>2. CASE ~ReadFailedRow(s)
        BY <3>2, <1>4, <2>2, <2>3 DEF WorkerStep, StartWorker, ReadFile, Head, PostChunk, VerifyRow, CompleteRow,
               ProgressUpdated, SettleFailedRow, Holding
      <3>3. QED  BY <3>1, <3>2
    <2>5. QED  BY <1>4, <2>1, <2>4 DEF NoLeakedSlot
  <1>5. QED
    <2>1. CASE Restart          BY <2>1, <1>1, <1>b, <1>2 DEF Restart
    <2>2. CASE CallWhileActive  BY <2>2, <1>1, <1>b, <1>2 DEF CallWhileActive
    <2>3. ASSUME NEW u \in Uploads, BeginUpload(u) \/ UploadStep(u) \/ UploadThrows(u)
          PROVE  UNCHANGED <<loop, worker>>
      BY <2>3 DEF BeginUpload, UploadStep, WriteChunk, BulkCreate, FixStatuses, TriggerLoop, UploadThrows
    <2>4. ASSUME NEW c \in Chunks, Expire(c) \/ DownloadChunk(c)
          PROVE  UNCHANGED <<loop, worker>>
      BY <2>4 DEF Expire, DownloadChunk
    <2>5. CASE UNCHANGED vars   BY <2>5, <1>1, <1>b, <1>2 DEF vars
    <2>6. \A l \in Loops : ~LoopThrows(l)
      BY <1>a DEF LoopThrows
    <2>7. \A s \in Slots : ~WorkerThrows(s)
      BY <1>a DEF WorkerThrows
    <2>8. QED
      BY <1>1, <1>2, <1>3, <1>4, <1>b, <2>1, <2>2, <2>3, <2>4, <2>5, <2>6, <2>7 DEF Next

\* As long as no call throws, every slot whose worker never started belongs to the
\* running loop: none of its exits shrinks the pool (uploader.ts:83, :109).
THEOREM NoSlotIsForgotten == Spec => []NoLeakedSlot
  <1>1. Init => NoLeakedSlot
    BY DEF Init, NoLeakedSlot, Worker
  <1>2. Init => LoopInv
    BY DEF Init, LoopInv, IdleLoop
  <1>3. QED
    BY <1>1, <1>2, SlotStep, LoopInvStep, TypeCorrect, PTL DEF Spec
=============================================================================
