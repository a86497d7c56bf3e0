------------------------ MODULE UploadProgressProofs ------------------------
(***************************************************************************)
(* Proofs about module UploadProgress.                                     *)
(***************************************************************************)
EXTENDS UploadProgress, FiniteSetTheorems, WellFoundedInduction, TLAPS

FileStates == [known : BOOLEAN, uploaded : BOOLEAN, failed : BOOLEAN, progress : Nat]
DirStates == [known : BOOLEAN, uploaded : BOOLEAN, failed : BOOLEAN, members : Seq(Files)]

-----------------------------------------------------------------------------
(* What is said of chunks and files: everything that claims a chunk is     *)
(* uploaded has seen its row COMPLETED, and rows stay COMPLETED.           *)

\* updateFileProgress has counted the chunks that are no longer in rest.
Counted(a) == Len(ChunksOf[act[a].file]) - Len(act[a].rest)

CountOK(a) ==
  act[a].pc \in {"fillFile", "count"} =>
    /\ Counted(a) \in Nat
    /\ \A i \in 1..Len(act[a].rest) : act[a].rest[i] = ChunksOf[act[a].file][Counted(a) + i]
    /\ act[a].done <= Counted(a)
    /\ act[a].done = Counted(a) => \A i \in 1..Counted(a) : ul[ChunksOf[act[a].file][i]] = "COMPLETED"

SaveOK(a) == act[a].pc = "saveFile" /\ ~act[a].failed => AllUploaded(act[a].file)

FileInv ==
  /\ \A c \in Chunks : chunkCache[c] = "COMPLETED" => ul[c] = "COMPLETED"
  /\ \A i \in 1..Len(queue) : ul[queue[i]] = "COMPLETED"
  /\ \A a \in Activities : CountOK(a) /\ SaveOK(a)
  /\ FileReportedTruly

-----------------------------------------------------------------------------
(* What is said of the directory.                                          *)

Members == {dirCache.members[i] : i \in 1..Len(dirCache.members)}

\* A filling activity has still to enter the files after the first At(a) of DirMap; those
\* before are in memory, the one it is at as soon as updateFileProgress has read its rows.
At(a) == Len(dirMap) - Len(act[a].entries)

FillOK(a) ==
  /\ dirCache.known
  /\ At(a) \in 1..Len(dirMap)
  /\ \A i \in 1..Len(act[a].entries) : act[a].entries[i] = dirMap[At(a) + i]
  /\ \A i \in 1..At(a) : dirMap[i] \in Members
  /\ \A i \in 1..(At(a) - 1) : fileCache[dirMap[i]].known
  /\ act[a].pc = "fillFile" => act[a].file = dirMap[At(a)]
  /\ act[a].pc # "fillFile" => fileCache[dirMap[At(a)]].known

CountsMembers(a) ==
  act[a].pc = "members" \/ (act[a].pc \in {"fillFile", "count", "saveFile"} /\ act[a].caller = "members")

\* The members before pos are counted; good is as large as their number only if all of
\* them are uploaded.
MembersOK(a) ==
  /\ dirCache.known
  /\ act[a].pos \in 1..(Len(dirCache.members) + 1)
  /\ act[a].good < act[a].pos
  /\ act[a].good = act[a].pos - 1 =>
       \A i \in 1..(act[a].pos - 1) : AllUploaded(dirCache.members[i])

Claimed == dul = "COMPLETED" \/ dirCache.uploaded \/ \E a \in Activities : act[a].pc = "saveDir" /\ act[a].bad = 0

DirInv ==
  ~partial =>
    /\ dirCache.known => Entered = Files
    /\ \A a \in Activities : Filling(a) => FillOK(a)
    /\ dirCache.known /\ (\A a \in Activities : ~Filling(a)) =>
         Files \subseteq Members /\ \A f \in Files : fileCache[f].known
    /\ \A a \in Activities : CountsMembers(a) => MembersOK(a)
    /\ \A a, b \in Activities : act[b].pc = "readDir" /\ CountsMembers(a) => act[a].pos = 1
    /\ Claimed => \A f \in Files : AllUploaded(f)

ProgressInv == TypeOK /\ FileInv /\ DirInv
-----------------------------------------------------------------------------
(* The types *)

\* A set of places in a sequence has a first one.
LEMMA FirstPlace ==
  ASSUME NEW n \in Nat, NEW S \in SUBSET (1..n), S # {}
  PROVE  \E m \in S : \A k \in S : m <= k
  <1>1. S \subseteq Nat
    OBVIOUS
  <1>2. PICK m \in S : \A k \in S : ~(<<k, m>> \in OpToRel(<, Nat))
    BY <1>1, NatLessThanWellFounded, WFMin
  <1>3. \A k \in S : ~(k < m)
    BY <1>1, <1>2 DEF OpToRel
  <1>4. QED
    BY <1>3

LEMMA ChunksTyped ==
  ASSUME NEW f \in Files
  PROVE  /\ ChunksOf[f] \in Seq(Chunks) /\ Len(ChunksOf[f]) \in Nat \ {0}
         /\ \A i \in 1..Len(ChunksOf[f]) : ChunksOf[f][i] \in Chunks
         /\ ChunkSet(f) \subseteq Chunks
  <1>1. ChunksOf[f] \in Seq(Chunks) /\ ChunksOf[f] # <<>>
    BY UploadProgressAssumption
  <1>2. QED
    BY <1>1 DEF ChunkSet

LEMMA IdleTyped == Idle \in Frame
  <1>1. Dir \in Files /\ ChunksOf[Dir][1] \in Chunks
    BY UploadProgressAssumption, ChunksTyped
  <1>2. QED
    BY <1>1 DEF Idle, Frame

LEMMA TypeInit == Init => TypeOK
  <1>1. NoDir \in DirStates /\ Unknown \in FileStates
    BY DEF NoDir, Unknown, DirStates, FileStates
  <1>2. Init => ul \in [Chunks -> ChunkStatus]
    BY DEF Init, ChunkStatus
  <1>3. Init => dirCache \in DirStates /\ fileCache \in [Files -> FileStates] /\ act \in [Activities -> Frame]
    BY <1>1, IdleTyped DEF Init
  <1>4. Init => dirMap \in Seq(Files) /\ queue \in Seq(Chunks)
    BY DEF Init
  <1>5. Init => /\ stage \in [Files -> {"none", "rows", "mapped", "marked"}]
                /\ mapped \subseteq Files /\ missed \subseteq Files /\ fileParents \subseteq Files
                /\ ful \in [Files -> UlStatus] /\ dul \in UlStatus
                /\ chunkCache \in [Chunks -> ChunkStatus]
                /\ chunkParents \in [Chunks -> SUBSET Files]
                /\ partial \in BOOLEAN
    BY DEF Init, UlStatus, ChunkStatus
  <1>6. QED
    BY <1>2, <1>3, <1>4, <1>5 DEF TypeOK, DirStates, FileStates

LEMMA TypeUpload ==
  ASSUME TypeOK, NEW f \in Files, UploadStep(f)
  PROVE  TypeOK'
  <1>1. CASE EnqueueRows(f)
    BY <1>1 DEF EnqueueRows, TypeOK, ChunkStatus, rowVars, cacheVars, history
  <1>2. CASE MapChunks(f)
    BY <1>2 DEF MapChunks, TypeOK, rowVars
  <1>3. CASE MarkFileAsBeingUploaded(f)
    BY <1>3 DEF MarkFileAsBeingUploaded, TypeOK, UlStatus, cacheVars, history
  <1>4. CASE EnterFile(f)
    BY <1>4 DEF EnterFile, TypeOK, rowVars, history
  <1>5. QED
    BY <1>1, <1>2, <1>3, <1>4 DEF UploadStep

LEMMA TypeChunk ==
  ASSUME TypeOK, NEW c \in Chunks, CompleteChunk(c) \/ FailChunk(c) \/ CompleteByDownload(c)
  PROVE  TypeOK'
  <1>1. ul' \in [Chunks -> ChunkStatus] /\ queue' \in Seq(Chunks)
    <2>1. CASE CompleteChunk(c)
      BY <2>1 DEF CompleteChunk, TypeOK, ChunkStatus
    <2>2. CASE FailChunk(c)
      BY <2>2 DEF FailChunk, TypeOK, ChunkStatus
    <2>3. CASE CompleteByDownload(c)
      BY <2>3 DEF CompleteByDownload, TypeOK, ChunkStatus
    <2>4. QED
      BY <2>1, <2>2, <2>3
  <1>2. CASE CompleteChunk(c) \/ FailChunk(c)
    BY <1>1, <1>2 DEF CompleteChunk, FailChunk, TypeOK, rowVars, cacheVars, history
  <1>3. CASE CompleteByDownload(c)
    BY <1>1, <1>3 DEF CompleteByDownload, TypeOK, ChunkStatus, rowVars
  <1>4. QED
    BY <1>2, <1>3

LEMMA TypeQueue ==
  ASSUME TypeOK, QueueStep \/ Poll
  PROVE  TypeOK'
  <1>a. /\ act["queue"] \in Frame /\ act["poll"] \in Frame
        /\ "queue" \in Activities /\ "poll" \in Activities
    BY DEF TypeOK, Activities
  <1>1. CASE NextChunk
    <2>1. Head(queue) \in Chunks /\ Tail(queue) \in Seq(Chunks)
      BY <1>1 DEF NextChunk, TypeOK
    <2>2. chunkParents[Head(queue)] \in SUBSET Files
      BY <2>1 DEF TypeOK
    <2>3. \A pc \in {"parents", "file"} :
            [Idle EXCEPT !.pc = pc, !.chunk = Head(queue), !.files = chunkParents[Head(queue)]] \in Frame
      BY <2>1, <2>2, IdleTyped DEF Frame
    <2>4. act' \in [Activities -> Frame]
      BY <1>1, <1>a, <2>3 DEF NextChunk, TypeOK
    <2>5. chunkCache' \in [Chunks -> ChunkStatus]
      BY <1>1, <2>1 DEF NextChunk, TypeOK, ChunkStatus
    <2>6. QED
      BY <1>1, <2>1, <2>4, <2>5 DEF NextChunk, TypeOK, uploadVars, rowVars, history
  <1>2. CASE LoadParents
    <2> DEFINE c == act["queue"].chunk
               found == {f \in mapped : c \in ChunkSet(f)}
    <2>1. c \in Chunks
      BY <1>a DEF Frame
    <2>2. found \subseteq Files /\ chunkParents[c] \cup found \in SUBSET Files
      BY <2>1 DEF TypeOK
    <2>3. [act["queue"] EXCEPT !.pc = "file", !.files = chunkParents[c] \cup found] \in Frame
      BY <1>a, <2>2 DEF Frame
    <2>4. act' \in [Activities -> Frame]
      BY <1>2, <1>a, <2>3, IdleTyped DEF LoadParents, TypeOK
    <2>5. chunkParents' \in [Chunks -> SUBSET Files]
      BY <1>2, <2>1, <2>2 DEF LoadParents, TypeOK
    <2>6. QED
      BY <1>2, <2>4, <2>5 DEF LoadParents, TypeOK, uploadVars, rowVars, history
  <1>3. CASE NextFile
    <2>1. \A f \in Files, pc \in {"fillFile", "file", "count"} :
            [act["queue"] EXCEPT !.files = act["queue"].files \ {f}, !.caller = "chunk", !.file = f,
                                 !.rest = ChunksOf[f], !.done = 0, !.failed = FALSE, !.pc = pc] \in Frame
      BY <1>a, ChunksTyped DEF Frame
    <2>2. act["queue"].files \subseteq Files
      BY <1>a DEF Frame
    <2>3. act' \in [Activities -> Frame]
      <3>1. CASE act' = [act EXCEPT !["queue"] = Idle]
        BY <1>a, <3>1, IdleTyped DEF TypeOK
      <3>2. ASSUME NEW f \in act["queue"].files, NEW pc \in {"fillFile", "file", "count"},
                   act' = [act EXCEPT !["queue"] =
                            [@ EXCEPT !.files = act["queue"].files \ {f}, !.caller = "chunk", !.file = f,
                                      !.rest = ChunksOf[f], !.done = 0, !.failed = FALSE, !.pc = pc]]
            PROVE  act' \in [Activities -> Frame]
        <4>a. [act["queue"] EXCEPT !.files = act["queue"].files \ {f}, !.caller = "chunk", !.file = f,
                                   !.rest = ChunksOf[f], !.done = 0, !.failed = FALSE, !.pc = pc] \in Frame
          BY <2>1, <2>2
        <4>1. act'["queue"] \in Frame /\ act'["poll"] \in Frame
          BY <1>a, <4>a, <3>2 DEF TypeOK
        <4>2. QED
          BY <3>2, <4>1 DEF TypeOK, Activities
      <3>3. QED
        BY <1>3, <3>1, <3>2 DEF NextFile
    <2>4. QED
      BY <1>3, <2>3 DEF NextFile, TypeOK, uploadVars, rowVars, cacheVars, history
  <1>4. CASE Poll
    <2>1. [act["poll"] EXCEPT !.pc = "readDir"] \in Frame
      BY <1>a DEF Frame
    <2>2. QED
      BY <1>4, <1>a, <2>1 DEF Poll, To, TypeOK, uploadVars, rowVars, cacheVars, history
  <1>5. QED
    BY <1>1, <1>2, <1>3, <1>4 DEF QueueStep

LEMMA FillTyped ==
  ASSUME TypeOK, NEW a \in Activities, NEW cache \in DirStates, NEW entries \in Seq(Files),
         Fill(a, cache, entries)
  PROVE  dirCache' \in DirStates /\ act' \in [Activities -> Frame]
  <1> DEFINE n == Len(entries)
             strange == {i \in 1..n : ~fileCache[entries[i]].known}
             k == CHOOSE i \in strange : \A j \in strange : i <= j
  <1>a. act \in [Activities -> Frame] /\ act[a] \in Frame /\ cache.members \in Seq(Files)
    BY DEF TypeOK, DirStates
  <1>1. CASE strange = {}
    <2>1. dirCache' = [cache EXCEPT !.members = cache.members \o entries]
          /\ act' = [act EXCEPT ![a].pc = "dir", ![a].entries = <<>>]
      BY <1>1 DEF Fill
    <2>2. cache.members \o entries \in Seq(Files)
      BY <1>a
    <2>3. dirCache' \in DirStates
      BY <2>1, <2>2 DEF DirStates
    <2>a. \A e \in Seq(Files) : [act[a] EXCEPT !.pc = "dir", !.entries = e] \in Frame
      BY <1>a DEF Frame
    <2>b. <<>> \in Seq(Files)
      OBVIOUS
    <2>4. [act[a] EXCEPT !.pc = "dir", !.entries = <<>>] \in Frame
      BY <2>a, <2>b
    <2>5. act' = [act EXCEPT ![a] = [act[a] EXCEPT !.pc = "dir", !.entries = <<>>]]
      BY <2>1, <1>a
    <2>6. QED
      BY <2>3, <2>4, <2>5, <1>a
  <1>2. CASE strange # {}
    <2>a. strange \in SUBSET (1..n) /\ n \in Nat
      OBVIOUS
    <2>b. \E i \in strange : \A j \in strange : i <= j
      BY <1>2, <2>a, FirstPlace
    <2>0. k \in strange
      BY <2>b
    <2>1. k \in 1..n /\ entries[k] \in Files
      BY <2>0
    <2> DEFINE rest == SubSeq(entries, k + 1, n)
               start == SubSeq(entries, 1, k)
    <2>2. /\ dirCache' = [cache EXCEPT !.members = cache.members \o start]
          /\ act' = [act EXCEPT ![a] =
                       [act[a] EXCEPT !.pc = "fillFile", !.caller = "fill", !.file = entries[k],
                                      !.rest = ChunksOf[entries[k]], !.done = 0, !.failed = FALSE,
                                      !.entries = rest]]
      BY <1>2 DEF Fill
    <2> HIDE DEF k
    <2>3. rest \in Seq(Files) /\ start \in Seq(Files)
      BY <2>1
    <2> HIDE DEF rest, start
    <2>4. cache.members \o start \in Seq(Files)
      BY <2>3, <1>a
    <2>5. dirCache' \in DirStates
      BY <2>2, <2>4 DEF DirStates
    <2>6. [act[a] EXCEPT !.pc = "fillFile", !.caller = "fill", !.file = entries[k],
                         !.rest = ChunksOf[entries[k]], !.done = 0, !.failed = FALSE,
                         !.entries = rest] \in Frame
      BY <1>a, <2>1, <2>3, ChunksTyped DEF Frame
    <2>7. QED
      BY <2>2, <2>5, <2>6, <1>a
  <1>3. QED
    BY <1>1, <1>2

\* The members that a count has still to look at, as CountMembers writes them.
Ahead(a) == act[a].pos..Len(dirCache.members)
Strange(a) == {i \in Ahead(a) : ~fileCache[dirCache.members[i]].known}
FirstStrange(a) == CHOOSE i \in Strange(a) : \A j \in Strange(a) : i <= j
Good(a, n) == {i \in Ahead(a) : i < n /\ fileCache[dirCache.members[i]].uploaded}
Bad(a, n) == {i \in Ahead(a) : i < n /\ fileCache[dirCache.members[i]].failed}
GoodUpTo(a, n) == act[a].good + Cardinality(Good(a, n))
BadUpTo(a, n) == act[a].bad + Cardinality(Bad(a, n))
Whole(a) == /\ BadUpTo(a, Len(dirCache.members) + 1) = 0
            /\ GoodUpTo(a, Len(dirCache.members) + 1) = Len(dirCache.members)

LEMMA CountsTyped ==
  ASSUME TypeOK, NEW a \in Activities, NEW n \in Nat
  PROVE  /\ IsFiniteSet(Good(a, n)) /\ IsFiniteSet(Bad(a, n))
         /\ GoodUpTo(a, n) \in Nat /\ BadUpTo(a, n) \in Nat
  <1>1. act[a].pos \in Nat /\ act[a].good \in Nat /\ act[a].bad \in Nat /\ Len(dirCache.members) \in Nat
    BY DEF TypeOK, Frame
  <1>a. act[a].pos \in Int /\ Len(dirCache.members) \in Int
    BY <1>1
  <1>2. IsFiniteSet(Ahead(a))
    BY <1>a, FS_Interval DEF Ahead
  <1>3. IsFiniteSet(Good(a, n)) /\ IsFiniteSet(Bad(a, n))
    BY <1>2, FS_Subset DEF Good, Bad
  <1>4. Cardinality(Good(a, n)) \in Nat /\ Cardinality(Bad(a, n)) \in Nat
    BY <1>3, FS_CardinalityType
  <1>5. QED
    BY <1>1, <1>3, <1>4 DEF GoodUpTo, BadUpTo

\* The two outcomes of CountMembers.
LEMMA CountMembersOutcome ==
  ASSUME NEW a \in Activities, CountMembers(a)
  PROVE  \/ /\ Strange(a) # {}
            /\ act' = [act EXCEPT ![a] =
                         [act[a] EXCEPT !.pc = "fillFile", !.caller = "members",
                            !.file = dirCache.members[FirstStrange(a)],
                            !.rest = ChunksOf[dirCache.members[FirstStrange(a)]], !.done = 0, !.failed = FALSE,
                            !.pos = FirstStrange(a), !.good = GoodUpTo(a, FirstStrange(a)),
                            !.bad = BadUpTo(a, FirstStrange(a))]]
            /\ UNCHANGED <<dirCache, partial>>
         \/ /\ Strange(a) = {}
            /\ dirCache' = [dirCache EXCEPT
                 !.uploaded = BadUpTo(a, Len(dirCache.members) + 1) = 0 /\ (Whole(a) \/ dirCache.uploaded),
                 !.failed = BadUpTo(a, Len(dirCache.members) + 1) > 0 \/ (dirCache.failed /\ ~Whole(a))]
            /\ act' = [act EXCEPT ![a] = IF BadUpTo(a, Len(dirCache.members) + 1) > 0 \/ Whole(a)
                         THEN [act[a] EXCEPT !.pc = "saveDir", !.bad = BadUpTo(a, Len(dirCache.members) + 1)]
                         ELSE Leave(a)]
            /\ partial' = (partial \/ (Whole(a) /\ \E b \in Activities : Filling(b)))
  BY DEF CountMembers, Ahead, Strange, FirstStrange, Good, Bad, GoodUpTo, BadUpTo, Whole

LEMMA FirstStrangeOne ==
  ASSUME TypeOK, NEW a \in Activities, Strange(a) # {}
  PROVE  /\ FirstStrange(a) \in Strange(a)
         /\ FirstStrange(a) \in 1..Len(dirCache.members) /\ act[a].pos <= FirstStrange(a)
         /\ dirCache.members[FirstStrange(a)] \in Files
  <1>1. act[a].pos \in Nat \ {0} /\ Len(dirCache.members) \in Nat /\ dirCache.members \in Seq(Files)
    BY DEF TypeOK, Frame
  <1>2. Strange(a) \in SUBSET (1..Len(dirCache.members))
    BY <1>1 DEF Strange, Ahead
  <1>3. \E i \in Strange(a) : \A j \in Strange(a) : i <= j
    BY <1>1, <1>2, FirstPlace
  <1>4. FirstStrange(a) \in Strange(a)
    BY <1>3 DEF FirstStrange
  <1>5. QED
    BY <1>1, <1>2, <1>4 DEF Strange, Ahead

LEMMA LeaveTyped ==
  ASSUME TypeOK, NEW a \in Activities
  PROVE  Leave(a) \in Frame
  <1>1. act[a] \in Frame
    BY DEF TypeOK
  <1>2. [act[a] EXCEPT !.pc = "file"] \in Frame
    BY <1>1 DEF Frame
  <1>3. QED
    BY <1>2, IdleTyped DEF Leave

LEMMA PcTyped ==
  ASSUME TypeOK, NEW a \in Activities,
         NEW pc \in {"file", "dir", "fill", "members", "count", "saveFile", "readDir"}
  PROVE  To(a, pc) \in [Activities -> Frame]
  <1>1. act[a] \in Frame
    BY DEF TypeOK
  <1>2. [act[a] EXCEPT !.pc = pc] \in Frame
    BY <1>1 DEF Frame
  <1>3. QED
    BY <1>2 DEF To, TypeOK

LEMMA ReturnTyped ==
  ASSUME TypeOK, NEW a \in Activities
  PROVE  /\ Return(a) \in {"file", "fill", "members"}
         /\ Return(a) = "fill" <=> act[a].caller = "fill"
         /\ Return(a) = "members" <=> act[a].caller = "members"
         /\ ReturnUpdated(a) \in {Return(a), "dir"}
         /\ ReturnUpdated(a) = "dir" => act[a].caller = "chunk"
  <1>1. act[a].caller \in {"chunk", "fill", "members"}
    BY DEF TypeOK, Frame
  <1>2. QED
    BY <1>1 DEF Return, ReturnUpdated

LEMMA TypeFile ==
  ASSUME TypeOK, NEW a \in Activities, FillFile(a) \/ CountChunk(a) \/ JudgeFile(a) \/ SaveFile(a)
  PROVE  TypeOK'
  <1>a. act[a] \in Frame /\ act[a].file \in Files /\ act[a].rest \in Seq(Chunks) /\ act[a].done \in Nat
    BY DEF TypeOK, Frame
  <1>1. CASE FillFile(a)
    <2>1. act' \in [Activities -> Frame]
      BY <1>1, PcTyped DEF FillFile
    <2>2. Fresh \in FileStates
      BY DEF Fresh, Unknown, FileStates
    <2>3. fileCache' \in [Files -> FileStates]
      BY <1>1, <1>a, <2>2 DEF FillFile, TypeOK, FileStates
    <2>4. chunkParents' \in [Chunks -> SUBSET Files]
      BY <1>1, <1>a DEF FillFile, TypeOK
    <2>5. QED
      BY <1>1, <2>1, <2>3, <2>4 DEF FillFile, TypeOK, FileStates, uploadVars, rowVars, history
  <1>2. CASE CountChunk(a)
    <2> DEFINE c == Head(act[a].rest)
               status == IF chunkCache[c] = "NONE" THEN ul[c] ELSE chunkCache[c]
    <2>1. c \in Chunks /\ Tail(act[a].rest) \in Seq(Chunks)
      BY <1>2, <1>a DEF CountChunk
    <2>2. status \in ChunkStatus
      BY <2>1 DEF TypeOK
    <2>3. chunkCache' \in [Chunks -> ChunkStatus]
      BY <1>2, <2>1, <2>2 DEF CountChunk, TypeOK
    <2> DEFINE rest == Tail(act[a].rest)
               done == IF status = "COMPLETED" THEN act[a].done + 1 ELSE act[a].done
               failed == act[a].failed \/ status = "FAILED"
    <2>4. act' = [act EXCEPT ![a] = [act[a] EXCEPT !.rest = rest, !.done = done, !.failed = failed]]
      BY <1>2 DEF CountChunk, TypeOK
    <2>5. rest \in Seq(Chunks) /\ done \in Nat /\ failed \in BOOLEAN
      BY <2>1, <1>a DEF Frame
    <2> HIDE DEF rest, done, failed
    <2>6. [act[a] EXCEPT !.rest = rest, !.done = done, !.failed = failed] \in Frame
      BY <2>5, <1>a DEF Frame
    <2>7. act' \in [Activities -> Frame]
      BY <2>4, <2>6 DEF TypeOK
    <2>8. QED
      BY <1>2, <2>3, <2>7 DEF CountChunk, TypeOK, uploadVars, rowVars, history
  <1>3. CASE JudgeFile(a)
    <2>a. Return(a) \in {"file", "fill", "members"} /\ ReturnUpdated(a) \in {"file", "fill", "members", "dir"}
      BY ReturnTyped
    <2>b. \E pc \in {"saveFile", Return(a), ReturnUpdated(a)} : act' = To(a, pc)
      BY <1>3 DEF JudgeFile
    <2>1. act' \in [Activities -> Frame]
      BY <2>a, <2>b, PcTyped
    <2>2. fileCache' \in [Files -> FileStates]
      <3>1. fileCache \in [Files -> FileStates] /\ act[a].failed \in BOOLEAN
        BY <1>a DEF TypeOK, FileStates, Frame
      <3> DEFINE f == act[a].file
                 cached(uploaded, failed, progress) ==
                   [fileCache[f] EXCEPT !.uploaded = uploaded, !.failed = failed, !.progress = progress]
      <3>2. \A u, d \in BOOLEAN, p \in Nat : cached(u, d, p) \in FileStates
        BY <3>1, <1>a DEF FileStates
      <3>3. fileCache[f].progress \in Nat /\ fileCache[f] \in FileStates
        BY <3>1, <1>a DEF FileStates
      <3>4. [fileCache[f] EXCEPT !.progress = act[a].done] \in FileStates
        BY <3>3, <1>a DEF FileStates
      <3>5. \/ fileCache' = [fileCache EXCEPT ![f] = [fileCache[f] EXCEPT !.progress = act[a].done]]
            \/ fileCache' = [fileCache EXCEPT ![f] =
                 cached(~act[a].failed, act[a].failed, IF act[a].failed THEN fileCache[f].progress ELSE act[a].done)]
        BY <1>3, <3>1 DEF JudgeFile
      <3> HIDE DEF cached
      <3>6. cached(~act[a].failed, act[a].failed, IF act[a].failed THEN fileCache[f].progress ELSE act[a].done) \in FileStates
        BY <3>1, <3>2, <3>3, <1>a
      <3>7. QED
        BY <3>1, <3>4, <3>5, <3>6
    <2>3. QED
      BY <1>3, <2>1, <2>2 DEF JudgeFile, TypeOK, FileStates, uploadVars, rowVars, history
  <1>4. CASE SaveFile(a)
    <2>1. act' \in [Activities -> Frame]
      BY <1>4, PcTyped, ReturnTyped DEF SaveFile
    <2>2. ful' \in [Files -> UlStatus]
      BY <1>4, <1>a DEF SaveFile, TypeOK, UlStatus
    <2>3. QED
      BY <1>4, <2>1, <2>2 DEF SaveFile, TypeOK, uploadVars, cacheVars, history
  <1>5. QED
    BY <1>1, <1>2, <1>3, <1>4

LEMMA TypeDir ==
  ASSUME TypeOK, NEW a \in Activities,
         BeginDir(a) \/ ReadDir(a) \/ FillDir(a) \/ CountMembers(a) \/ SaveDir(a)
  PROVE  TypeOK'
  <1>a. act[a] \in Frame /\ dirCache \in DirStates
    BY DEF TypeOK, DirStates
  <1>1. CASE BeginDir(a)
    <2>1. [act[a] EXCEPT !.pc = "readDir"] \in Frame
      BY <1>a DEF Frame
    <2>b. \A p \in Nat \ {0}, g, b \in Nat :
            [act[a] EXCEPT !.pc = "members", !.pos = p, !.good = g, !.bad = b] \in Frame
      BY <1>a DEF Frame
    <2>c. 1 \in Nat \ {0} /\ 0 \in Nat
      OBVIOUS
    <2>a. [act[a] EXCEPT !.pc = "members", !.pos = 1, !.good = 0, !.bad = 0] \in Frame
      BY <2>b, <2>c
    <2>2. act' \in [Activities -> Frame]
      BY <1>1, <2>1, <2>a, LeaveTyped DEF BeginDir, TypeOK
    <2>3. QED
      BY <1>1, <2>2 DEF BeginDir, TypeOK, uploadVars, rowVars, cacheVars, history
  <1>2. CASE ReadDir(a)
    <2>a. <<>> \in Seq(Files)
      OBVIOUS
    <2>1. [NoDir EXCEPT !.known = TRUE] \in DirStates
      BY <2>a DEF NoDir, DirStates
    <2>2. dirCache' \in DirStates /\ act' \in [Activities -> Frame]
      BY <1>2, <2>1, FillTyped DEF ReadDir, TypeOK
    <2>3. partial' \in BOOLEAN
      BY <1>2 DEF ReadDir
    <2>4. QED
      BY <1>2, <2>2, <2>3 DEF ReadDir, TypeOK, DirStates, uploadVars, rowVars
  <1>3. CASE FillDir(a)
    <2>1. act[a].entries \in Seq(Files)
      BY <1>a DEF Frame
    <2>2. dirCache' \in DirStates /\ act' \in [Activities -> Frame]
      BY <1>3, <2>1, <1>a, FillTyped DEF FillDir
    <2>3. QED
      BY <1>3, <2>2 DEF FillDir, TypeOK, DirStates, uploadVars, rowVars, history
  <1>4. CASE CountMembers(a)
    <2>1. dirCache' \in DirStates /\ act' \in [Activities -> Frame] /\ partial' \in BOOLEAN
      <3>1. CASE Strange(a) # {}
        <4> DEFINE k == FirstStrange(a)
                   f == dirCache.members[FirstStrange(a)]
        <4>1. k \in Nat \ {0} /\ f \in Files
          BY <3>1, FirstStrangeOne
        <4>2. GoodUpTo(a, k) \in Nat /\ BadUpTo(a, k) \in Nat
          BY <4>1, CountsTyped
        <4> DEFINE frame == [act[a] EXCEPT !.pc = "fillFile", !.caller = "members", !.file = f,
                               !.rest = ChunksOf[f], !.done = 0, !.failed = FALSE,
                               !.pos = k, !.good = GoodUpTo(a, k), !.bad = BadUpTo(a, k)]
        <4>3. act' = [act EXCEPT ![a] = frame] /\ UNCHANGED <<dirCache, partial>>
          BY <1>4, <3>1, CountMembersOutcome
        <4> HIDE DEF k, f
        <4>4. frame \in Frame
          BY <1>a, <4>1, <4>2, ChunksTyped DEF Frame
        <4> HIDE DEF frame
        <4>5. QED
          BY <4>3, <4>4, <1>a DEF TypeOK
      <3>2. CASE Strange(a) = {}
        <4> DEFINE n == Len(dirCache.members) + 1
        <4>1. n \in Nat
          BY <1>a DEF DirStates
        <4>2. GoodUpTo(a, n) \in Nat /\ BadUpTo(a, n) \in Nat
          BY <4>1, CountsTyped
        <4>3. [act[a] EXCEPT !.pc = "saveDir", !.bad = BadUpTo(a, n)] \in Frame
          BY <1>a, <4>2 DEF Frame
        <4>a. /\ partial' = (partial \/ (Whole(a) /\ \E b \in Activities : Filling(b)))
              /\ act' = [act EXCEPT ![a] = IF BadUpTo(a, n) > 0 \/ Whole(a)
                           THEN [act[a] EXCEPT !.pc = "saveDir", !.bad = BadUpTo(a, n)] ELSE Leave(a)]
          BY <1>4, <3>2, CountMembersOutcome
        <4>b. partial' \in BOOLEAN
          BY <4>a
        <4>4. act' \in [Activities -> Frame] /\ partial' \in BOOLEAN
          BY <4>a, <4>b, <4>3, LeaveTyped DEF TypeOK
        <4> DEFINE uploaded == BadUpTo(a, n) = 0 /\ (Whole(a) \/ dirCache.uploaded)
                   failed == BadUpTo(a, n) > 0 \/ (dirCache.failed /\ ~Whole(a))
        <4>5. dirCache' = [dirCache EXCEPT !.uploaded = uploaded, !.failed = failed]
          BY <1>4, <3>2, CountMembersOutcome
        <4>6. uploaded \in BOOLEAN /\ failed \in BOOLEAN
          BY <1>a DEF DirStates
        <4> HIDE DEF uploaded, failed
        <4>7. dirCache' \in DirStates
          BY <4>5, <4>6, <1>a DEF DirStates
        <4>8. QED
          BY <4>4, <4>7
      <3>3. QED
        BY <3>1, <3>2
    <2>2. QED
      BY <1>4, <2>1 DEF CountMembers, TypeOK, DirStates, uploadVars, rowVars
  <1>5. CASE SaveDir(a)
    <2>1. act' \in [Activities -> Frame] /\ dul' \in UlStatus
      BY <1>5, LeaveTyped DEF SaveDir, TypeOK, UlStatus
    <2>2. QED
      BY <1>5, <2>1 DEF SaveDir, TypeOK, uploadVars, cacheVars, history
  <1>6. QED
    BY <1>1, <1>2, <1>3, <1>4, <1>5

LEMMA TypeStep == TypeOK /\ [Next]_vars => TypeOK'
  <1> SUFFICES ASSUME TypeOK, [Next]_vars PROVE TypeOK'
    OBVIOUS
  <1>1. CASE UNCHANGED vars
    BY <1>1 DEF TypeOK, vars, uploadVars, rowVars, cacheVars, history
  <1>2. CASE Next
    BY <1>2, TypeUpload, TypeChunk, TypeQueue, TypeFile, TypeDir DEF Next, ProgressStep
  <1>3. QED
    BY <1>1, <1>2

\* Type correctness: rows, caches, queue and the two activities of the progress.
THEOREM ProgressTypeCorrect == Spec => []TypeOK
  BY TypeInit, TypeStep, PTL DEF Spec

-----------------------------------------------------------------------------
(* FileReportedTruly *)

\* COMPLETED is the end of a chunk row: uploads, workers, downloads and the progress leave
\* it alone.
LEMMA RowsStayCompleted ==
  ASSUME TypeOK, [Next]_vars
  PROVE  \A c \in Chunks : ul[c] = "COMPLETED" => ul'[c] = "COMPLETED"
  <1>1. CASE \E f \in Files : EnqueueRows(f)
    BY <1>1 DEF EnqueueRows, TypeOK
  <1>2. CASE \E c \in Chunks : CompleteChunk(c) \/ FailChunk(c) \/ CompleteByDownload(c)
    BY <1>2 DEF CompleteChunk, FailChunk, CompleteByDownload, TypeOK
  <1>3. CASE UNCHANGED ul
    BY <1>3
  <1>4. CASE UNCHANGED vars
    BY <1>3, <1>4 DEF vars, uploadVars
  <1>5. CASE \E f \in Files : MapChunks(f) \/ MarkFileAsBeingUploaded(f) \/ EnterFile(f)
    BY <1>3, <1>5 DEF MapChunks, MarkFileAsBeingUploaded, EnterFile
  <1>6. CASE QueueStep \/ Poll
    BY <1>3, <1>6 DEF QueueStep, NextChunk, LoadParents, NextFile, Poll, uploadVars
  <1>7. CASE \E a \in Activities : ProgressStep(a)
    BY <1>3, <1>7 DEF ProgressStep, FillFile, CountChunk, JudgeFile, SaveFile, BeginDir, ReadDir,
                      FillDir, CountMembers, SaveDir, uploadVars
  <1>8. QED
    BY <1>1, <1>2, <1>4, <1>5, <1>6, <1>7 DEF Next, UploadStep

LEMMA UploadedStays ==
  ASSUME TypeOK, [Next]_vars, NEW f \in Files, AllUploaded(f)
  PROVE  AllUploaded(f)'
  BY RowsStayCompleted, ChunksTyped DEF AllUploaded

LEMMA CountKept ==
  ASSUME TypeOK, [Next]_vars, NEW a \in Activities, CountOK(a), SaveOK(a), act'[a] = act[a]
  PROVE  (CountOK(a) /\ SaveOK(a))'
  <1>1. act[a].file \in Files
    BY DEF TypeOK, Frame
  <1>2. SaveOK(a)'
    BY <1>1, UploadedStays DEF SaveOK
  <1>3. Counted(a)' = Counted(a)
    BY DEF Counted
  <1>4. CountOK(a)'
    <2> SUFFICES ASSUME act[a].pc \in {"fillFile", "count"}
                 PROVE  CountOK(a)'
      BY DEF CountOK
    <2>1. \A i \in 1..Counted(a) : ChunksOf[act[a].file][i] \in Chunks
      <3>1. Counted(a) \in Nat
        BY DEF CountOK
      <3>a. act[a].rest \in Seq(Chunks) /\ ChunksOf[act[a].file] \in Seq(Chunks)
        BY <1>1, ChunksTyped DEF TypeOK, Frame
      <3>b. PICK n \in Nat, m \in Nat : n = Len(ChunksOf[act[a].file]) /\ m = Len(act[a].rest)
        BY <3>a
      <3>c. Counted(a) = n - m
        BY <3>b DEF Counted
      <3>d. \A x, y \in Nat : x - y <= x
        OBVIOUS
      <3>2. Counted(a) <= n
        BY <3>c, <3>d
      <3>e. \A i \in 1..Counted(a) : i \in 1..n
        BY <3>1, <3>2
      <3>3. QED
        BY <3>b, <3>e, <1>1, ChunksTyped
    <2>2. QED
      BY <1>3, <2>1, RowsStayCompleted DEF CountOK
  <1>5. QED
    BY <1>2, <1>4

\* A call of updateFileProgress starts with every chunk of the file before it.
LEMMA CountStarts ==
  ASSUME NEW a \in Activities, act'[a].file \in Files, act'[a].pc # "saveFile",
         act'[a].rest = ChunksOf[act'[a].file], act'[a].done = 0
  PROVE  (CountOK(a) /\ SaveOK(a))'
  <1>1. Counted(a)' = 0
    BY ChunksTyped DEF Counted
  <1>2. QED
    BY <1>1, ChunksTyped DEF CountOK, SaveOK

\* The other places of an activity claim nothing of chunks.
LEMMA NothingCounted ==
  ASSUME NEW a \in Activities, act'[a].pc \notin {"fillFile", "count", "saveFile"}
  PROVE  (CountOK(a) /\ SaveOK(a))'
  BY DEF CountOK, SaveOK

\* FileInv is kept by a step that leaves caches, queue and file rows alone, and under
\* which the activity that moves claims no chunk it has not seen.
LEMMA OnlyFramesMove ==
  ASSUME TypeOK, FileInv, [Next]_vars, NEW a \in Activities,
         UNCHANGED <<chunkCache, queue, fileCache, ful>>,
         \A b \in Activities \ {a} : act'[b] = act[b],
         (CountOK(a) /\ SaveOK(a))'
  PROVE  FileInv'
  <1>1. \A b \in Activities : (CountOK(b) /\ SaveOK(b))'
    BY CountKept DEF FileInv
  <1>2. \A i \in 1..Len(queue) : queue[i] \in Chunks
    BY DEF TypeOK
  <1>3. FileReportedTruly'
    BY UploadedStays DEF FileInv, FileReportedTruly
  <1>4. QED
    BY <1>1, <1>2, <1>3, RowsStayCompleted DEF FileInv

LEMMA FileUpload ==
  ASSUME TypeOK, FileInv, [Next]_vars,
         \/ \E f \in Files : UploadStep(f)
         \/ \E c \in Chunks : CompleteChunk(c) \/ FailChunk(c)
         \/ UNCHANGED vars
  PROVE  FileInv'
  <1>1. UNCHANGED <<act, chunkCache, fileCache>>
    BY DEF UploadStep, EnqueueRows, MapChunks, MarkFileAsBeingUploaded, EnterFile, CompleteChunk, FailChunk,
           vars, cacheVars
  <1>2. \A a \in Activities : (CountOK(a) /\ SaveOK(a))'
    BY <1>1, CountKept DEF FileInv
  <1>3. \A f \in Files : ful'[f] = "COMPLETED" => ful[f] = "COMPLETED"
    BY DEF UploadStep, EnqueueRows, MapChunks, MarkFileAsBeingUploaded, EnterFile, CompleteChunk, FailChunk,
           vars, rowVars, TypeOK
  <1>4. FileReportedTruly'
    BY <1>1, <1>3, UploadedStays DEF FileInv, FileReportedTruly
  <1>5. \A i \in 1..Len(queue') : ul'[queue'[i]] = "COMPLETED"
    <2>0. \A i \in 1..Len(queue) : queue[i] \in Chunks /\ ul'[queue[i]] = "COMPLETED"
      BY RowsStayCompleted, SMTT(30) DEF FileInv, TypeOK
    <2>1. CASE \E c \in Chunks : CompleteChunk(c)
      <3>1. PICK c \in Chunks : CompleteChunk(c)
        BY <2>1
      <3>2. queue' = Append(queue, c) /\ ul'[c] = "COMPLETED" /\ queue \in Seq(Chunks)
        BY <3>1 DEF CompleteChunk, TypeOK
      <3>3. QED
        BY <2>0, <3>2
    <2>2. CASE UNCHANGED queue
      BY <2>0, <2>2
    <2>3. QED
      BY <2>1, <2>2 DEF UploadStep, EnqueueRows, MapChunks, MarkFileAsBeingUploaded, EnterFile, FailChunk, vars
  <1>6. QED
    BY <1>1, <1>2, <1>4, <1>5, RowsStayCompleted DEF FileInv

\* A download forgets what progress.ts knew of its chunk and claims nothing new.
LEMMA FileAfterDownload ==
  ASSUME TypeOK, FileInv, [Next]_vars, NEW c \in Chunks, CompleteByDownload(c)
  PROVE  FileInv'
  <1>1. UNCHANGED <<act, fileCache, ful, queue>>
    BY DEF CompleteByDownload, rowVars
  <1>2. \A d \in Chunks : chunkCache'[d] = "COMPLETED" => chunkCache[d] = "COMPLETED"
    BY DEF CompleteByDownload, TypeOK
  <1>3. \A a \in Activities : (CountOK(a) /\ SaveOK(a))'
    BY <1>1, CountKept DEF FileInv
  <1>4. FileReportedTruly'
    BY <1>1, UploadedStays DEF FileInv, FileReportedTruly
  <1>5. \A i \in 1..Len(queue) : queue[i] \in Chunks
    BY DEF TypeOK
  <1>6. QED
    BY <1>1, <1>2, <1>3, <1>4, <1>5, RowsStayCompleted DEF FileInv

LEMMA FileQueue ==
  ASSUME TypeOK, FileInv, [Next]_vars, QueueStep \/ Poll
  PROVE  FileInv'
  <1>a. "queue" \in Activities /\ "poll" \in Activities /\ act["queue"] \in Frame
    BY DEF Activities, TypeOK
  <1>1. CASE NextChunk
    <2>1. /\ Head(queue) = queue[1] /\ 1 \in 1..Len(queue) /\ Head(queue) \in Chunks
          /\ \A i \in 1..Len(Tail(queue)) : Tail(queue)[i] = queue[i + 1] /\ i + 1 \in 1..Len(queue)
      BY <1>1 DEF NextChunk, TypeOK
    <2>2. UNCHANGED <<ul, ful, fileCache>>
      BY <1>1 DEF NextChunk, uploadVars, rowVars
    <2>a. chunkCache' = [chunkCache EXCEPT ![Head(queue)] = "COMPLETED"] /\ queue' = Tail(queue)
      BY <1>1 DEF NextChunk
    <2>3. \A c \in Chunks : chunkCache'[c] = "COMPLETED" => ul'[c] = "COMPLETED"
      BY <2>a, <2>1, <2>2 DEF FileInv, TypeOK
    <2>4. \A i \in 1..Len(queue') : ul'[queue'[i]] = "COMPLETED"
      BY <2>a, <2>1, <2>2 DEF FileInv
    <2>5. act'["queue"].pc \in {"parents", "file"} /\ act'["poll"] = act["poll"]
      BY <1>1, <1>a DEF NextChunk, TypeOK, Idle
    <2>6. \A a \in Activities : (CountOK(a) /\ SaveOK(a))'
      BY <2>5, CountKept, NothingCounted DEF FileInv, Activities
    <2>7. FileReportedTruly'
      BY <2>2 DEF FileInv, FileReportedTruly, AllUploaded
    <2>8. QED
      BY <2>3, <2>4, <2>6, <2>7 DEF FileInv
  <1>2. CASE LoadParents
    <2>1. UNCHANGED <<chunkCache, queue, fileCache, ful>> /\ act'["poll"] = act["poll"]
      BY <1>2, <1>a DEF LoadParents, rowVars, TypeOK
    <2>2. act'["queue"].pc \in {"idle", "file"}
      BY <1>2, <1>a DEF LoadParents, TypeOK, Idle
    <2>3. (CountOK("queue") /\ SaveOK("queue"))'
      BY <1>a, <2>2, NothingCounted
    <2>4. QED
      BY <2>1, <2>3, <1>a, OnlyFramesMove DEF Activities
  <1>3. CASE NextFile
    <2>1. UNCHANGED <<chunkCache, queue, fileCache, ful>> /\ act'["poll"] = act["poll"]
      BY <1>3, <1>a DEF NextFile, rowVars, cacheVars, TypeOK
    <2>2. \/ act'["queue"].pc = "idle"
          \/ /\ act'["queue"].file \in Files /\ act'["queue"].pc # "saveFile"
             /\ act'["queue"].rest = ChunksOf[act'["queue"].file] /\ act'["queue"].done = 0
      <3>1. CASE act' = [act EXCEPT !["queue"] = Idle]
        BY <1>a, <3>1 DEF TypeOK, Idle
      <3>2. ASSUME NEW f \in act["queue"].files, NEW pc \in {"fillFile", "file", "count"},
                   act' = [act EXCEPT !["queue"] =
                            [@ EXCEPT !.files = act["queue"].files \ {f}, !.caller = "chunk", !.file = f,
                                      !.rest = ChunksOf[f], !.done = 0, !.failed = FALSE, !.pc = pc]]
            PROVE  /\ act'["queue"].file \in Files /\ act'["queue"].pc # "saveFile"
                   /\ act'["queue"].rest = ChunksOf[act'["queue"].file] /\ act'["queue"].done = 0
        BY <1>a, <3>2 DEF TypeOK, Frame
      <3>3. QED
        BY <1>3, <3>1, <3>2 DEF NextFile
    <2>3. (CountOK("queue") /\ SaveOK("queue"))'
      BY <1>a, <2>2, NothingCounted, CountStarts
    <2>4. QED
      BY <2>1, <2>3, <1>a, OnlyFramesMove DEF Activities
  <1>4. CASE Poll
    <2>1. UNCHANGED <<chunkCache, queue, fileCache, ful>> /\ act'["queue"] = act["queue"]
      BY <1>4, <1>a DEF Poll, To, rowVars, cacheVars, TypeOK
    <2>2. act'["poll"].pc = "readDir"
      BY <1>4, <1>a DEF Poll, To, TypeOK
    <2>3. (CountOK("poll") /\ SaveOK("poll"))'
      BY <1>a, <2>2, NothingCounted
    <2>4. QED
      BY <2>1, <2>3, <1>a, OnlyFramesMove DEF Activities
  <1>5. QED
    BY <1>1, <1>2, <1>3, <1>4 DEF QueueStep

LEMMA FileFill ==
  ASSUME TypeOK, FileInv, [Next]_vars, NEW a \in Activities, FillFile(a)
  PROVE  FileInv'
  <1>a. act[a] \in Frame /\ act[a].file \in Files
    BY DEF TypeOK, Frame
  <1>1. /\ UNCHANGED <<ul, chunkCache, queue, ful>>
        /\ \A b \in Activities \ {a} : act'[b] = act[b]
        /\ act'[a].pc = "count" /\ act'[a].file = act[a].file /\ act'[a].rest = act[a].rest
        /\ act'[a].done = act[a].done
    BY <1>a DEF FillFile, To, TypeOK, uploadVars, rowVars
  <1>2. \A f \in Files : fileCache'[f].uploaded => fileCache[f].uploaded
    BY <1>a DEF FillFile, Fresh, Unknown, TypeOK
  <1>3. FileReportedTruly'
    BY <1>1, <1>2 DEF FileInv, FileReportedTruly, AllUploaded
  <1>b. act[a].pc = "fillFile" /\ CountOK(a)
    BY DEF FillFile, FileInv
  <1>c. Counted(a)' = Counted(a)
    BY <1>1 DEF Counted
  <1>4. (CountOK(a) /\ SaveOK(a))'
    BY <1>1, <1>b, <1>c DEF CountOK, SaveOK
  <1>5. \A b \in Activities : (CountOK(b) /\ SaveOK(b))'
    BY <1>1, <1>4, CountKept DEF FileInv
  <1>6. QED
    BY <1>1, <1>3, <1>5 DEF FileInv

LEMMA FileCount ==
  ASSUME TypeOK, FileInv, [Next]_vars, NEW a \in Activities, CountChunk(a)
  PROVE  FileInv'
  <1> DEFINE f == act[a].file
             rest == act[a].rest
             c == Head(rest)
             status == IF chunkCache[c] = "NONE" THEN ul[c] ELSE chunkCache[c]
             k == Counted(a)
  <1>a. act[a] \in Frame /\ f \in Files /\ rest \in Seq(Chunks) /\ rest # <<>> /\ act[a].done \in Nat
    BY DEF TypeOK, Frame, CountChunk
  <1>b. /\ c = rest[1] /\ c \in Chunks /\ Len(rest) \in Nat \ {0} /\ Len(Tail(rest)) = Len(rest) - 1
        /\ \A i \in 1..Len(Tail(rest)) : Tail(rest)[i] = rest[i + 1]
    BY <1>a
  <1>1. /\ UNCHANGED <<ul, queue, fileCache, ful>>
        /\ chunkCache' = [chunkCache EXCEPT ![c] = status]
        /\ \A b \in Activities \ {a} : act'[b] = act[b]
    BY DEF CountChunk, TypeOK, uploadVars, rowVars
  <1>2. /\ act'[a].pc = "count" /\ act'[a].file = f /\ act'[a].rest = Tail(rest)
        /\ act'[a].done = IF status = "COMPLETED" THEN act[a].done + 1 ELSE act[a].done
    BY <1>a DEF CountChunk, TypeOK
  <1>3. status = "COMPLETED" => ul[c] = "COMPLETED"
    BY <1>b DEF FileInv
  <1>4. \A d \in Chunks : chunkCache'[d] = "COMPLETED" => ul'[d] = "COMPLETED"
    BY <1>1, <1>3, <1>b DEF FileInv, TypeOK
  <1>5. /\ k \in Nat
        /\ \A i \in 1..Len(rest) : rest[i] = ChunksOf[f][k + i]
        /\ act[a].done <= k
        /\ act[a].done = k => \A i \in 1..k : ul[ChunksOf[f][i]] = "COMPLETED"
    BY DEF FileInv, CountOK, CountChunk
  <1>c. ChunksOf[f] \in Seq(Chunks)
    BY <1>a, ChunksTyped
  <1>6. Counted(a)' = k + 1
    <2>1. Counted(a)' = Len(ChunksOf[f]) - Len(Tail(rest))
      BY <1>2 DEF Counted
    <2>2. PICK n \in Nat, m \in Nat : n = Len(ChunksOf[f]) /\ m = Len(rest)
      BY <1>a, <1>c
    <2>3. Counted(a) = n - m /\ Counted(a)' = n - (m - 1)
      BY <2>1, <2>2, <1>b DEF Counted
    <2>4. QED
      BY <2>2, <2>3
  <1>7. c = ChunksOf[f][k + 1]
    BY <1>5, <1>b
  <1> HIDE DEF k, status, f, rest, c
  <1>8. CountOK(a)'
    <2>1. \A i \in 1..Len(act'[a].rest) : act'[a].rest[i] = ChunksOf[act'[a].file][(k + 1) + i]
      <3> SUFFICES ASSUME NEW i \in 1..Len(Tail(rest))
                   PROVE  Tail(rest)[i] = ChunksOf[f][(k + 1) + i]
        BY <1>2
      <3>1. Tail(rest)[i] = rest[i + 1] /\ i + 1 \in 1..Len(rest)
        BY <1>b
      <3>2. PICK j \in 1..Len(rest) : j = i + 1
        BY <3>1
      <3>3. rest[j] = ChunksOf[f][k + j]
        BY <1>5
      <3>4. k + j = (k + 1) + i
        <4>1. k \in Int /\ i \in Int /\ j \in Int
          BY <1>5, <1>b
        <4>2. QED
          BY <4>1, <3>2
      <3>5. QED
        BY <3>1, <3>2, <3>3, <3>4
    <2>2. act'[a].done <= k + 1
      BY <1>2, <1>5, <1>a
    <2>3. act'[a].done = k + 1 => \A i \in 1..(k + 1) : ul'[ChunksOf[act'[a].file][i]] = "COMPLETED"
      <3> SUFFICES ASSUME act'[a].done = k + 1, NEW i \in 1..(k + 1)
                   PROVE  ul[ChunksOf[f][i]] = "COMPLETED"
        BY <1>1, <1>2
      <3>1. status = "COMPLETED" /\ act[a].done = k
        BY <1>2, <1>5, <1>a
      <3>2. QED
        BY <3>1, <1>3, <1>5, <1>7
    <2>4. QED
      BY <1>2, <1>5, <1>6, <2>1, <2>2, <2>3 DEF CountOK
  <1>9. SaveOK(a)'
    BY <1>2 DEF SaveOK
  <1>10. \A b \in Activities : (CountOK(b) /\ SaveOK(b))'
    BY <1>1, <1>8, <1>9, CountKept DEF FileInv
  <1>11. QED
    BY <1>1, <1>4, <1>10 DEF FileInv, FileReportedTruly, AllUploaded

LEMMA FileJudge ==
  ASSUME TypeOK, FileInv, [Next]_vars, NEW a \in Activities, JudgeFile(a)
  PROVE  FileInv'
  <1> DEFINE f == act[a].file
  <1>a. /\ act[a] \in Frame /\ f \in Files /\ act[a].rest = <<>> /\ act[a].failed \in BOOLEAN
        /\ act[a].done \in Nat /\ act[a].pc = "count"
    BY DEF TypeOK, Frame, JudgeFile
  <1>b. Return(a) \in {"file", "fill", "members"} /\ ReturnUpdated(a) \in {"file", "fill", "members", "dir"}
    BY ReturnTyped
  <1>1. act[a].done = Len(ChunksOf[f]) => AllUploaded(f)
    <2>1. Counted(a) = Len(ChunksOf[f])
      BY <1>a, ChunksTyped DEF Counted
    <2>2. QED
      BY <1>a, <2>1 DEF FileInv, CountOK, AllUploaded, ChunkSet
  <1>2. UNCHANGED <<ul, chunkCache, queue, ful>> /\ \A b \in Activities \ {a} : act'[b] = act[b]
    BY DEF JudgeFile, To, TypeOK, uploadVars, rowVars
  <1>3. /\ act'[a].file = f /\ act'[a].failed = act[a].failed
        /\ \/ act'[a].pc = "saveFile" /\ (act[a].failed \/ act[a].done = Len(ChunksOf[f]))
           \/ act'[a].pc \in {"file", "fill", "members", "dir"}
    <2>1. \A pc \in {"saveFile", "file", "fill", "members", "dir"} : act' = To(a, pc) =>
            act'[a].file = f /\ act'[a].failed = act[a].failed /\ act'[a].pc = pc
      BY <1>a DEF To, TypeOK, Frame
    <2>2. \/ act' = To(a, "saveFile") /\ (act[a].failed \/ act[a].done = Len(ChunksOf[f]))
          \/ \E pc \in {"file", "fill", "members", "dir"} : act' = To(a, pc)
      BY <1>b DEF JudgeFile
    <2>3. QED
      BY <2>1, <2>2
  <1>4. (CountOK(a) /\ SaveOK(a))'
    BY <1>1, <1>2, <1>3 DEF CountOK, SaveOK, AllUploaded
  <1>5. \A b \in Activities : (CountOK(b) /\ SaveOK(b))'
    BY <1>2, <1>4, CountKept DEF FileInv
  <1>6. \A g \in Files : fileCache'[g].uploaded => fileCache[g].uploaded \/ AllUploaded(g)
    <2>1. CASE act[a].failed \/ act[a].done = Len(ChunksOf[f])
      <3>1. fileCache' = [fileCache EXCEPT ![f].uploaded = ~act[a].failed, ![f].failed = act[a].failed,
                                           ![f].progress = IF act[a].failed THEN @ ELSE act[a].done]
        BY <2>1 DEF JudgeFile
      <3>2. \A g \in Files : fileCache'[g].uploaded => fileCache[g].uploaded \/ (g = f /\ ~act[a].failed)
        BY <3>1, <1>a DEF TypeOK
      <3>3. QED
        BY <3>2, <2>1, <1>1
    <2>2. CASE ~(act[a].failed \/ act[a].done = Len(ChunksOf[f]))
      <3>1. fileCache' = [fileCache EXCEPT ![f].progress = act[a].done]
        BY <2>2 DEF JudgeFile
      <3>2. QED
        BY <3>1, <1>a DEF TypeOK
    <2>3. QED
      BY <2>1, <2>2
  <1>7. FileReportedTruly'
    BY <1>2, <1>6 DEF FileInv, FileReportedTruly, AllUploaded
  <1>8. QED
    BY <1>2, <1>5, <1>7 DEF FileInv

LEMMA FileSave ==
  ASSUME TypeOK, FileInv, [Next]_vars, NEW a \in Activities, SaveFile(a)
  PROVE  FileInv'
  <1>a. act[a].file \in Files
    BY DEF TypeOK, Frame
  <1>b. ReturnUpdated(a) \in {"file", "fill", "members", "dir"}
    BY ReturnTyped
  <1>1. UNCHANGED <<ul, chunkCache, queue, fileCache>> /\ \A b \in Activities \ {a} : act'[b] = act[b]
    BY DEF SaveFile, To, TypeOK, uploadVars, cacheVars
  <1>2. act'[a].pc = ReturnUpdated(a)
    BY DEF SaveFile, To, TypeOK
  <1>3. \A b \in Activities : (CountOK(b) /\ SaveOK(b))'
    BY <1>b, <1>1, <1>2, NothingCounted, CountKept DEF FileInv
  <1>4. \A g \in Files : ful'[g] = "COMPLETED" => ful[g] = "COMPLETED" \/ AllUploaded(g)
    BY <1>a DEF SaveFile, FileInv, SaveOK, TypeOK
  <1>5. FileReportedTruly'
    BY <1>1, <1>4 DEF FileInv, FileReportedTruly, AllUploaded
  <1>6. QED
    BY <1>1, <1>3, <1>5 DEF FileInv

\* The two outcomes of Fill.
LEMMA FillOutcome ==
  ASSUME TypeOK, NEW a \in Activities, NEW cache \in DirStates, NEW entries \in Seq(Files),
         Fill(a, cache, entries)
  PROVE  /\ \A b \in Activities \ {a} : act'[b] = act[b]
         /\ \/ /\ \A i \in 1..Len(entries) : fileCache[entries[i]].known
               /\ dirCache' = [cache EXCEPT !.members = cache.members \o entries]
               /\ act'[a].pc = "dir" /\ act'[a].caller = act[a].caller
            \/ \E k \in 1..Len(entries) :
                 /\ \A i \in 1..(k - 1) : fileCache[entries[i]].known
                 /\ ~fileCache[entries[k]].known
                 /\ dirCache' = [cache EXCEPT !.members = cache.members \o SubSeq(entries, 1, k)]
                 /\ act'[a].pc = "fillFile" /\ act'[a].caller = "fill" /\ act'[a].file = entries[k]
                 /\ act'[a].rest = ChunksOf[entries[k]] /\ act'[a].done = 0
                 /\ act'[a].entries = SubSeq(entries, k + 1, Len(entries))
  <1> DEFINE n == Len(entries)
             strange == {i \in 1..n : ~fileCache[entries[i]].known}
             k == CHOOSE i \in strange : \A j \in strange : i <= j
  <1>a. act \in [Activities -> Frame] /\ act[a] \in Frame
    BY DEF TypeOK
  <1>1. CASE strange = {}
    <2>1. /\ dirCache' = [cache EXCEPT !.members = cache.members \o entries]
          /\ act' = [act EXCEPT ![a].pc = "dir", ![a].entries = <<>>]
      BY <1>1 DEF Fill
    <2>2. \A b \in Activities \ {a} : act'[b] = act[b]
      BY <2>1, <1>a
    <2>3. act'[a].pc = "dir" /\ act'[a].caller = act[a].caller
      BY <2>1, <1>a DEF Frame
    <2>4. QED
      BY <1>1, <2>1, <2>2, <2>3
  <1>2. CASE strange # {}
    <2>a. strange \in SUBSET (1..n) /\ n \in Nat
      OBVIOUS
    <2>b. \E i \in strange : \A j \in strange : i <= j
      BY <1>2, <2>a, FirstPlace
    <2>0. k \in strange /\ \A j \in strange : k <= j
      BY <2>b
    <2>1. /\ dirCache' = [cache EXCEPT !.members = cache.members \o SubSeq(entries, 1, k)]
          /\ act' = [act EXCEPT ![a] =
                       [act[a] EXCEPT !.pc = "fillFile", !.caller = "fill", !.file = entries[k],
                                      !.rest = ChunksOf[entries[k]], !.done = 0, !.failed = FALSE,
                                      !.entries = SubSeq(entries, k + 1, n)]]
      BY <1>2 DEF Fill
    <2> HIDE DEF k
    <2>2. k \in 1..n /\ ~fileCache[entries[k]].known /\ \A i \in 1..(k - 1) : fileCache[entries[i]].known
      <3>1. k \in 1..n
        BY <2>0
      <3>2. \A i \in 1..(k - 1) : i \in 1..n /\ ~(k <= i)
        BY <3>1
      <3>3. QED
        BY <2>0, <3>1, <3>2
    <2>3. \A b \in Activities \ {a} : act'[b] = act[b]
      BY <2>1, <1>a
    <2>4. act'[a] = [act[a] EXCEPT !.pc = "fillFile", !.caller = "fill", !.file = entries[k],
                                      !.rest = ChunksOf[entries[k]], !.done = 0, !.failed = FALSE,
                                      !.entries = SubSeq(entries, k + 1, n)]
      BY <2>1, <1>a
    <2>5. /\ act'[a].pc = "fillFile" /\ act'[a].caller = "fill" /\ act'[a].file = entries[k]
          /\ act'[a].rest = ChunksOf[entries[k]] /\ act'[a].done = 0
          /\ act'[a].entries = SubSeq(entries, k + 1, n)
      BY <2>4, <1>a DEF Frame
    <2>6. QED
      BY <2>1, <2>2, <2>3, <2>5
  <1>3. QED
    BY <1>1, <1>2

LEMMA LeaveOutcome ==
  ASSUME TypeOK, NEW a \in Activities
  PROVE  Leave(a).pc \in {"idle", "file"}
  <1>1. act[a] \in Frame
    BY DEF TypeOK
  <1>2. QED
    BY <1>1 DEF Leave, Idle, Frame

LEMMA FileDir ==
  ASSUME TypeOK, FileInv, [Next]_vars, NEW a \in Activities,
         BeginDir(a) \/ ReadDir(a) \/ FillDir(a) \/ CountMembers(a) \/ SaveDir(a)
  PROVE  FileInv'
  <1>a. act \in [Activities -> Frame] /\ act[a] \in Frame /\ dirCache \in DirStates
    BY DEF TypeOK, DirStates
  <1>1. UNCHANGED <<chunkCache, queue, fileCache, ful>>
    BY DEF BeginDir, ReadDir, FillDir, CountMembers, SaveDir, rowVars, cacheVars
  <1>2. ASSUME NEW cache \in DirStates, NEW entries \in Seq(Files), Fill(a, cache, entries)
        PROVE  (CountOK(a) /\ SaveOK(a))' /\ \A b \in Activities \ {a} : act'[b] = act[b]
    <2>1. \A i \in 1..Len(entries) : entries[i] \in Files
      OBVIOUS
    <2>2. \/ act'[a].pc = "dir"
          \/ /\ act'[a].file \in Files /\ act'[a].pc # "saveFile"
             /\ act'[a].rest = ChunksOf[act'[a].file] /\ act'[a].done = 0
      BY <1>2, <2>1, FillOutcome
    <2>3. QED
      BY <1>2, <2>2, FillOutcome, CountStarts, NothingCounted
  <1>3. CASE BeginDir(a)
    <2>1. \A b \in Activities \ {a} : act'[b] = act[b]
      BY <1>3, <1>a DEF BeginDir
    <2>2. act'[a].pc \in {"readDir", "idle", "file", "members"}
      BY <1>3, <1>a, LeaveOutcome DEF BeginDir
    <2>3. QED
      BY <1>1, <2>1, <2>2, NothingCounted, OnlyFramesMove
  <1>4. CASE ReadDir(a)
    <2>a. <<>> \in Seq(Files)
      OBVIOUS
    <2>1. [NoDir EXCEPT !.known = TRUE] \in DirStates
      BY <2>a DEF NoDir, DirStates
    <2>2. dirMap \in Seq(Files)
      BY DEF TypeOK
    <2>3. QED
      BY <1>1, <1>2, <1>4, <2>1, <2>2, OnlyFramesMove DEF ReadDir
  <1>5. CASE FillDir(a)
    <2>1. act[a].entries \in Seq(Files)
      BY <1>a DEF Frame
    <2>2. QED
      BY <1>1, <1>2, <1>5, <1>a, <2>1, OnlyFramesMove DEF FillDir
  <1>6. CASE CountMembers(a)
    <2>1. CASE Strange(a) # {}
      <3> DEFINE k == FirstStrange(a)
                 f == dirCache.members[FirstStrange(a)]
      <3>1. f \in Files
        BY <2>1, FirstStrangeOne
      <3>2. act' = [act EXCEPT ![a] =
                      [act[a] EXCEPT !.pc = "fillFile", !.caller = "members", !.file = f,
                               !.rest = ChunksOf[f], !.done = 0, !.failed = FALSE,
                               !.pos = k, !.good = GoodUpTo(a, k), !.bad = BadUpTo(a, k)]]
        BY <1>6, <2>1, CountMembersOutcome
      <3> HIDE DEF f, k
      <3>3. \A b \in Activities \ {a} : act'[b] = act[b]
        BY <3>2, <1>a
      <3>4. act'[a].file = f /\ act'[a].pc = "fillFile" /\ act'[a].rest = ChunksOf[f] /\ act'[a].done = 0
        BY <3>2, <1>a DEF Frame
      <3>5. QED
        BY <1>1, <3>1, <3>3, <3>4, CountStarts, OnlyFramesMove
    <2>2. CASE Strange(a) = {}
      <3> DEFINE bad == BadUpTo(a, Len(dirCache.members) + 1)
      <3>1. act' = [act EXCEPT ![a] = IF bad > 0 \/ Whole(a)
                         THEN [act[a] EXCEPT !.pc = "saveDir", !.bad = bad] ELSE Leave(a)]
        BY <1>6, <2>2, CountMembersOutcome
      <3> HIDE DEF bad
      <3>2. \A b \in Activities \ {a} : act'[b] = act[b]
        BY <3>1, <1>a
      <3>3. act'[a].pc \in {"saveDir", "idle", "file"}
        BY <3>1, <1>a, LeaveOutcome DEF Frame
      <3>4. QED
        BY <1>1, <3>2, <3>3, NothingCounted, OnlyFramesMove
    <2>3. QED
      BY <2>1, <2>2
  <1>7. CASE SaveDir(a)
    <2>1. \A b \in Activities \ {a} : act'[b] = act[b]
      BY <1>7, <1>a DEF SaveDir
    <2>2. act'[a].pc \in {"idle", "file"}
      BY <1>7, <1>a, LeaveOutcome DEF SaveDir
    <2>3. QED
      BY <1>1, <2>1, <2>2, NothingCounted, OnlyFramesMove
  <1>8. QED
    BY <1>3, <1>4, <1>5, <1>6, <1>7

LEMMA FileInit == Init => FileInv
  <1> SUFFICES ASSUME Init PROVE FileInv
    OBVIOUS
  <1>1. \A a \in Activities : act[a].pc = "idle"
    BY DEF Init, Idle
  <1>2. \A a \in Activities : CountOK(a) /\ SaveOK(a)
    BY <1>1 DEF CountOK, SaveOK
  <1>3. FileReportedTruly
    BY DEF Init, FileReportedTruly, Unknown
  <1>4. QED
    BY <1>2, <1>3 DEF Init, FileInv

LEMMA FileStep == TypeOK /\ FileInv /\ [Next]_vars => FileInv'
  <1> SUFFICES ASSUME TypeOK, FileInv, [Next]_vars PROVE FileInv'
    OBVIOUS
  <1>1. CASE \E a \in Activities : ProgressStep(a)
    BY <1>1, FileFill, FileCount, FileJudge, FileSave, FileDir DEF ProgressStep
  <1>2. CASE QueueStep \/ Poll
    BY <1>2, FileQueue
  <1>3. CASE \/ \E f \in Files : UploadStep(f)
             \/ \E c \in Chunks : CompleteChunk(c) \/ FailChunk(c)
             \/ UNCHANGED vars
    BY <1>3, FileUpload
  <1>4. CASE \E c \in Chunks : CompleteByDownload(c)
    BY <1>4, FileAfterDownload
  <1>5. QED
    BY <1>1, <1>2, <1>3, <1>4 DEF Next

\* waitForFileToUpload tells the truth: when the row of a file or the cache of progress.ts
\* says that it is uploaded, the rows of all its chunks are COMPLETED, for any files that
\* share chunks in any way, and any overlap of the queue, a poll and the upload itself.
THEOREM FilesAreReportedTruly == Spec => []FileReportedTruly
  <1>1. TypeOK /\ FileInv => FileReportedTruly
    BY DEF FileInv
  <1>2. QED
    BY <1>1, TypeInit, TypeStep, FileInit, FileStep, PTL DEF Spec
-----------------------------------------------------------------------------
(* DirReportedTruly *)

LEMMA FrameFacts ==
  ASSUME TypeOK, NEW a \in Activities
  PROVE  /\ act[a] \in Frame /\ act[a].entries \in Seq(Files) /\ act[a].file \in Files
         /\ act[a].pos \in Nat \ {0} /\ act[a].good \in Nat /\ act[a].bad \in Nat
         /\ dirCache.members \in Seq(Files) /\ dirMap \in Seq(Files)
         /\ Len(dirCache.members) \in Nat /\ Len(dirMap) \in Nat /\ Len(act[a].entries) \in Nat
  <1>1. /\ act[a] \in Frame /\ act[a].entries \in Seq(Files) /\ act[a].file \in Files
        /\ act[a].pos \in Nat \ {0} /\ act[a].good \in Nat /\ act[a].bad \in Nat
        /\ dirCache.members \in Seq(Files) /\ dirMap \in Seq(Files)
    BY DEF TypeOK, Frame
  <1>2. QED
    BY <1>1

\* A step that leaves the members and DirMap alone, loses no file from memory, and moves
\* each activity on without a claim of its own.
LEMMA DirKept ==
  ASSUME TypeOK, DirInv, [Next]_vars,
         UNCHANGED <<dirMap, partial>>,
         dirCache'.known = dirCache.known, dirCache'.members = dirCache.members,
         ~partial /\ Claimed' => Claimed \/ \A f \in Files : AllUploaded(f),
         \A f \in Files : fileCache[f].known => fileCache'[f].known,
         \A a \in Activities :
           /\ Filling(a)' <=> Filling(a)
           /\ Filling(a) => /\ act'[a].entries = act[a].entries /\ act'[a].file = act[a].file
                            /\ act'[a].pc = "fillFile" => act[a].pc = "fillFile"
                            /\ act[a].pc = "fillFile" /\ act'[a].pc # "fillFile" => fileCache'[act[a].file].known
           /\ CountsMembers(a)' => \/ CountsMembers(a) /\ act'[a].pos = act[a].pos /\ act'[a].good = act[a].good
                                   \/ dirCache.known /\ act'[a].pos = 1 /\ act'[a].good = 0
           /\ act'[a].pc = "readDir" => act[a].pc = "readDir" \/ ~dirCache.known
  PROVE  DirInv'
  <1> SUFFICES ASSUME ~partial
      PROVE /\ (dirCache.known => Entered = Files)'
            /\ \A a \in Activities : (Filling(a) => FillOK(a))'
            /\ (dirCache.known /\ (\A a \in Activities : ~Filling(a)) =>
                  Files \subseteq Members /\ \A f \in Files : fileCache[f].known)'
            /\ \A a \in Activities : (CountsMembers(a) => MembersOK(a))'
            /\ \A a, b \in Activities : (act[b].pc = "readDir" /\ CountsMembers(a) => act[a].pos = 1)'
            /\ (Claimed => \A f \in Files : AllUploaded(f))'
    BY DEF DirInv
  <1>a. /\ dirCache.known => Entered = Files
        /\ \A a \in Activities : Filling(a) => FillOK(a)
        /\ dirCache.known /\ (\A a \in Activities : ~Filling(a)) =>
             Files \subseteq Members /\ \A f \in Files : fileCache[f].known
        /\ \A a \in Activities : CountsMembers(a) => MembersOK(a)
        /\ \A a, b \in Activities : act[b].pc = "readDir" /\ CountsMembers(a) => act[a].pos = 1
        /\ Claimed => \A f \in Files : AllUploaded(f)
    BY DEF DirInv
  <1>b. Entered' = Entered /\ Members' = Members
    BY DEF Entered, Members
  <1>1. (dirCache.known => Entered = Files)'
    BY <1>a, <1>b
  <1>2. ASSUME NEW a \in Activities, Filling(a)'
        PROVE  FillOK(a)'
    <2>1. Filling(a) /\ FillOK(a)
      BY <1>2, <1>a
    <2>2. At(a)' = At(a)
      BY <2>1 DEF At
    <2>3. \A i \in 1..Len(dirMap) : dirMap[i] \in Files
      BY FrameFacts
    <2>4. /\ At(a) \in 1..Len(dirMap) /\ \A i \in 1..(At(a) - 1) : i \in 1..Len(dirMap)
          /\ Len(dirMap) \in Nat
      BY <2>1, FrameFacts DEF FillOK
    <2>5. \A i \in 1..(At(a) - 1) : fileCache'[dirMap[i]].known
      BY <2>1, <2>3, <2>4 DEF FillOK
    <2>6. act'[a].pc # "fillFile" => fileCache'[dirMap[At(a)]].known
      BY <2>1, <2>3, <2>4 DEF FillOK
    <2>7. QED
      BY <2>1, <2>2, <2>5, <2>6, <1>b DEF FillOK
  <1>3. (dirCache.known /\ (\A a \in Activities : ~Filling(a)) =>
           Files \subseteq Members /\ \A f \in Files : fileCache[f].known)'
    BY <1>a, <1>b
  <1>4. ASSUME NEW a \in Activities, CountsMembers(a)'
        PROVE  MembersOK(a)'
    <2>1. CASE CountsMembers(a) /\ act'[a].pos = act[a].pos /\ act'[a].good = act[a].good
      <3>1. MembersOK(a)
        BY <2>1, <1>a
      <3>2. \A i \in 1..(act[a].pos - 1) : dirCache.members[i] \in Files
        BY <3>1, FrameFacts DEF MembersOK
      <3>3. QED
        BY <2>1, <3>1, <3>2, UploadedStays DEF MembersOK
    <2>2. CASE dirCache.known /\ act'[a].pos = 1 /\ act'[a].good = 0
      BY <2>2, FrameFacts DEF MembersOK
    <2>3. QED
      BY <1>4, <2>1, <2>2
  <1>5. ASSUME NEW a \in Activities, NEW b \in Activities, act'[b].pc = "readDir", CountsMembers(a)'
        PROVE  act'[a].pos = 1
    BY <1>5, <1>a DEF MembersOK
  <1>6. (Claimed => \A f \in Files : AllUploaded(f))'
    BY <1>a, UploadedStays
  <1>7. QED
    BY <1>1, <1>2, <1>3, <1>4, <1>5, <1>6

\* The same for one activity that moves outside of the directory.
LEMMA OneActivityMoves ==
  ASSUME TypeOK, DirInv, [Next]_vars, NEW a \in Activities,
         UNCHANGED <<dirMap, partial, dirCache, dul>>,
         \A f \in Files : fileCache[f].known => fileCache'[f].known,
         \A b \in Activities \ {a} : act'[b] = act[b],
         act'[a].pc # "saveDir",
         Filling(a)' <=> Filling(a),
         Filling(a) => /\ act'[a].entries = act[a].entries /\ act'[a].file = act[a].file
                       /\ act'[a].pc = "fillFile" => act[a].pc = "fillFile"
                       /\ act[a].pc = "fillFile" /\ act'[a].pc # "fillFile" => fileCache'[act[a].file].known,
         CountsMembers(a)' => \/ CountsMembers(a) /\ act'[a].pos = act[a].pos /\ act'[a].good = act[a].good
                              \/ dirCache.known /\ act'[a].pos = 1 /\ act'[a].good = 0,
         act'[a].pc = "readDir" => act[a].pc = "readDir" \/ ~dirCache.known
  PROVE  DirInv'
  <1>1. ASSUME NEW b \in Activities, b # a
        PROVE  act'[b] = act[b] /\ (Filling(b)' <=> Filling(b)) /\ (CountsMembers(b)' <=> CountsMembers(b))
    BY <1>1 DEF Filling, CountsMembers
  <1>2. Claimed' => Claimed
    BY <1>1 DEF Claimed
  <1>3. \A b \in Activities :
           /\ Filling(b)' <=> Filling(b)
           /\ Filling(b) => /\ act'[b].entries = act[b].entries /\ act'[b].file = act[b].file
                            /\ act'[b].pc = "fillFile" => act[b].pc = "fillFile"
                            /\ act[b].pc = "fillFile" /\ act'[b].pc # "fillFile" => fileCache'[act[b].file].known
           /\ CountsMembers(b)' => \/ CountsMembers(b) /\ act'[b].pos = act[b].pos /\ act'[b].good = act[b].good
                                   \/ dirCache.known /\ act'[b].pos = 1 /\ act'[b].good = 0
           /\ act'[b].pc = "readDir" => act[b].pc = "readDir" \/ ~dirCache.known
    BY <1>1
  <1>4. QED
    BY <1>2, <1>3, DirKept

LEMMA DirUpload ==
  ASSUME TypeOK, DirInv, [Next]_vars,
         \/ \E f \in Files : UploadStep(f)
         \/ \E c \in Chunks : CompleteChunk(c) \/ FailChunk(c) \/ CompleteByDownload(c)
         \/ UNCHANGED vars
  PROVE  DirInv'
  <1>a. "queue" \in Activities
    BY DEF Activities
  <1>1. CASE UNCHANGED <<act, dirMap, partial, dirCache, dul, fileCache>>
    <2>1. \A b \in Activities : (Filling(b)' <=> Filling(b)) /\ (CountsMembers(b)' <=> CountsMembers(b))
      BY <1>1 DEF Filling, CountsMembers
    <2>2. Claimed' => Claimed
      BY <1>1 DEF Claimed
    <2>3. QED
      BY <1>1, <2>1, <2>2, DirKept
  <1>2. CASE \E f \in Files : EnterFile(f)
    <2>1. PICK f \in Files : EnterFile(f)
      BY <1>2
    <2>2. UNCHANGED <<act, partial, dirCache, dul, fileCache>> /\ f \notin Entered
      BY <2>1 DEF EnterFile, rowVars, history
    <2> SUFFICES ASSUME ~partial PROVE DirInv'
      BY <2>2 DEF DirInv
    <2>3. /\ ~dirCache.known
          /\ \A a \in Activities : ~Filling(a) /\ ~CountsMembers(a)
          /\ Claimed => \A g \in Files : AllUploaded(g)
      BY <2>2 DEF DirInv, FillOK, MembersOK
    <2>4. ~dirCache'.known
      BY <2>2, <2>3
    <2>5. \A a \in Activities : ~Filling(a)' /\ ~CountsMembers(a)'
      BY <2>2, <2>3 DEF Filling, CountsMembers
    <2>6. Claimed' => \A g \in Files : AllUploaded(g)'
      BY <2>2, <2>3, UploadedStays DEF Claimed
    <2>7. QED
      BY <2>4, <2>5, <2>6 DEF DirInv
  <1>3. CASE \E f \in Files : EnqueueRows(f) \/ MapChunks(f) \/ MarkFileAsBeingUploaded(f)
    BY <1>1, <1>3 DEF EnqueueRows, MapChunks, MarkFileAsBeingUploaded, rowVars, cacheVars, history
  <1>4. CASE \E c \in Chunks : CompleteChunk(c) \/ FailChunk(c) \/ CompleteByDownload(c)
    BY <1>1, <1>4 DEF CompleteChunk, FailChunk, CompleteByDownload, rowVars, cacheVars, history
  <1>5. CASE UNCHANGED vars
    BY <1>1, <1>5 DEF vars, uploadVars, rowVars, cacheVars, history
  <1>6. QED
    BY <1>2, <1>3, <1>4, <1>5 DEF UploadStep

LEMMA DirQueue ==
  ASSUME TypeOK, DirInv, [Next]_vars, QueueStep \/ Poll
  PROVE  DirInv'
  <1>a. "queue" \in Activities /\ "poll" \in Activities /\ act["queue"] \in Frame /\ act["poll"] \in Frame
        /\ act \in [Activities -> Frame]
    BY DEF Activities, TypeOK
  <1>1. CASE QueueStep
    <2>1. UNCHANGED <<dirMap, partial, dirCache, dul, fileCache>>
      BY <1>1 DEF QueueStep, NextChunk, LoadParents, NextFile, uploadVars, rowVars, cacheVars, history
    <2>2. act["queue"].pc \in {"idle", "parents", "file"}
      BY <1>1 DEF QueueStep, NextChunk, LoadParents, NextFile
    <2>3. \E fr \in Frame : /\ act' = [act EXCEPT !["queue"] = fr]
                            /\ \/ fr.pc \in {"idle", "parents", "file"}
                               \/ fr.pc \in {"fillFile", "count"} /\ fr.caller = "chunk"
      <3>1. CASE NextChunk
        <4>1. PICK pc \in {"parents", "file"} : act' = [act EXCEPT !["queue"] =
                 [Idle EXCEPT !.pc = pc, !.chunk = Head(queue), !.files = chunkParents[Head(queue)]]]
          BY <3>1 DEF NextChunk
        <4> DEFINE fr == [Idle EXCEPT !.pc = pc, !.chunk = Head(queue), !.files = chunkParents[Head(queue)]]
        <4>2. Head(queue) \in Chunks
          BY <3>1 DEF NextChunk, TypeOK
        <4>3. chunkParents[Head(queue)] \in SUBSET Files
          BY <4>2 DEF TypeOK
        <4>4. fr \in Frame /\ fr.pc = pc
          BY <4>2, <4>3, IdleTyped DEF Frame
        <4> HIDE DEF fr
        <4>5. QED
          BY <4>1, <4>4 DEF fr
      <3>2. CASE LoadParents
        <4> DEFINE files == chunkParents[act["queue"].chunk] \cup {f \in mapped : act["queue"].chunk \in ChunkSet(f)}
                   fr == [act["queue"] EXCEPT !.pc = "file", !.files = files]
        <4>1. act["queue"].chunk \in Chunks
          BY <1>a DEF Frame
        <4>2. files \in SUBSET Files
          BY <4>1 DEF TypeOK
        <4>3. act' = [act EXCEPT !["queue"] = Idle] \/ act' = [act EXCEPT !["queue"] = fr]
          BY <3>2, <1>a DEF LoadParents
        <4> HIDE DEF files
        <4>4. fr \in Frame /\ fr.pc = "file"
          BY <1>a, <4>2 DEF Frame
        <4>5. Idle.pc = "idle"
          BY DEF Idle
        <4> HIDE DEF fr
        <4>6. QED
          BY <4>3, <4>4, <4>5, IdleTyped
      <3>3. CASE NextFile
        <4>1. CASE act' = [act EXCEPT !["queue"] = Idle]
          <5>1. Idle.pc = "idle"
            BY DEF Idle
          <5>2. QED
            BY <4>1, <5>1, IdleTyped
        <4>2. ASSUME NEW f \in act["queue"].files, NEW pc \in {"fillFile", "file", "count"},
                     act' = [act EXCEPT !["queue"] =
                              [@ EXCEPT !.files = act["queue"].files \ {f}, !.caller = "chunk", !.file = f,
                                        !.rest = ChunksOf[f], !.done = 0, !.failed = FALSE, !.pc = pc]]
              PROVE  \E fr \in Frame : /\ act' = [act EXCEPT !["queue"] = fr]
                            /\ \/ fr.pc \in {"idle", "parents", "file"}
                               \/ fr.pc \in {"fillFile", "count"} /\ fr.caller = "chunk"
          <5> DEFINE fr == [act["queue"] EXCEPT !.files = act["queue"].files \ {f}, !.caller = "chunk", !.file = f,
                                        !.rest = ChunksOf[f], !.done = 0, !.failed = FALSE, !.pc = pc]
          <5>1. f \in Files
            BY <1>a DEF Frame
          <5>2. fr \in Frame /\ fr.pc = pc /\ fr.caller = "chunk"
            BY <1>a, <5>1, ChunksTyped DEF Frame
          <5>3. act' = [act EXCEPT !["queue"] = fr]
            BY <4>2
          <5> HIDE DEF fr
          <5>4. QED
            BY <5>2, <5>3
        <4>3. QED
          BY <3>3, <4>1, <4>2 DEF NextFile
      <3>4. QED
        BY <1>1, <3>1, <3>2, <3>3 DEF QueueStep
    <2>4. /\ \A b \in Activities \ {"queue"} : act'[b] = act[b]
          /\ \/ act'["queue"].pc \in {"idle", "parents", "file"}
             \/ act'["queue"].pc \in {"fillFile", "count"} /\ act'["queue"].caller = "chunk"
      BY <2>3, <1>a
    <2>5. ~Filling("queue") /\ ~Filling("queue")' /\ ~CountsMembers("queue")'
      BY <2>2, <2>4 DEF Filling, CountsMembers
    <2>6. act'["queue"].pc # "saveDir" /\ act'["queue"].pc # "readDir"
      BY <2>4
    <2>7. QED
      BY <1>a, <2>1, <2>4, <2>5, <2>6, OneActivityMoves
  <1>2. CASE Poll
    <2>1. UNCHANGED <<dirMap, partial, dirCache, dul, fileCache>>
      BY <1>2 DEF Poll, uploadVars, rowVars, cacheVars, history
    <2>2. act["poll"].pc = "idle" /\ ~dirCache.known
      BY <1>2 DEF Poll
    <2>3. act'["poll"].pc = "readDir" /\ \A b \in Activities \ {"poll"} : act'[b] = act[b]
      BY <1>2, <1>a DEF Poll, To, Frame
    <2>4. ~Filling("poll") /\ ~Filling("poll")' /\ ~CountsMembers("poll")'
      BY <2>2, <2>3 DEF Filling, CountsMembers
    <2>5. QED
      BY <1>a, <2>1, <2>2, <2>3, <2>4, OneActivityMoves
  <1>3. QED
    BY <1>1, <1>2

LEMMA DirFile ==
  ASSUME TypeOK, DirInv, [Next]_vars, NEW a \in Activities,
         FillFile(a) \/ CountChunk(a) \/ JudgeFile(a) \/ SaveFile(a)
  PROVE  DirInv'
  <1>a. act[a] \in Frame /\ act[a].file \in Files /\ act \in [Activities -> Frame]
    BY DEF TypeOK, Frame
  <1>b. /\ Return(a) \in {"file", "fill", "members"}
        /\ Return(a) = "fill" <=> act[a].caller = "fill"
        /\ Return(a) = "members" <=> act[a].caller = "members"
        /\ ReturnUpdated(a) \in {Return(a), "dir"}
        /\ ReturnUpdated(a) = "dir" => act[a].caller = "chunk"
    BY ReturnTyped
  <1>1. UNCHANGED <<dirMap, partial, dirCache, dul>>
    BY DEF FillFile, CountChunk, JudgeFile, SaveFile, uploadVars, rowVars, cacheVars, history
  <1>2. \A f \in Files : fileCache[f].known => fileCache'[f].known
    <2>1. CASE FillFile(a)
      BY <2>1, <1>a DEF FillFile, Fresh, Unknown, TypeOK
    <2>2. CASE JudgeFile(a)
      <3>1. \/ fileCache' = [fileCache EXCEPT ![act[a].file].uploaded = ~act[a].failed,
                               ![act[a].file].failed = act[a].failed,
                               ![act[a].file].progress = IF act[a].failed THEN @ ELSE act[a].done]
            \/ fileCache' = [fileCache EXCEPT ![act[a].file].progress = act[a].done]
        BY <2>2 DEF JudgeFile
      <3>2. CASE fileCache' = [fileCache EXCEPT ![act[a].file].progress = act[a].done]
        BY <3>2, <1>a DEF TypeOK
      <3>3. CASE fileCache' = [fileCache EXCEPT ![act[a].file].uploaded = ~act[a].failed,
                               ![act[a].file].failed = act[a].failed,
                               ![act[a].file].progress = IF act[a].failed THEN @ ELSE act[a].done]
        BY <3>3, <1>a DEF TypeOK
      <3>4. QED
        BY <3>1, <3>2, <3>3
    <2>3. CASE CountChunk(a) \/ SaveFile(a)
      BY <2>3 DEF CountChunk, SaveFile, cacheVars
    <2>4. QED
      BY <2>1, <2>2, <2>3
  <1>3. /\ \A b \in Activities \ {a} : act'[b] = act[b]
        /\ act'[a].caller = act[a].caller /\ act'[a].entries = act[a].entries /\ act'[a].file = act[a].file
        /\ act'[a].pos = act[a].pos /\ act'[a].good = act[a].good
        /\ act[a].pc \in {"fillFile", "count", "saveFile"}
        /\ act'[a].pc \in {"count", "saveFile", Return(a), ReturnUpdated(a)}
        /\ act'[a].pc # "fillFile"
        /\ act[a].pc = "fillFile" => fileCache'[act[a].file].known
    <2>1. \A pc \in {"count", "saveFile", "file", "fill", "members", "dir"} : act' = To(a, pc) =>
             /\ \A b \in Activities \ {a} : act'[b] = act[b]
             /\ act'[a].caller = act[a].caller /\ act'[a].entries = act[a].entries /\ act'[a].file = act[a].file
             /\ act'[a].pos = act[a].pos /\ act'[a].good = act[a].good /\ act'[a].pc = pc
      BY <1>a DEF To, Frame
    <2>2. CASE FillFile(a)
      <3>1. act' = To(a, "count") /\ act[a].pc = "fillFile"
        BY <2>2 DEF FillFile
      <3>2. fileCache'[act[a].file].known
        BY <2>2, <1>a DEF FillFile, Fresh, Unknown, TypeOK
      <3>3. QED
        BY <2>1, <3>1, <3>2
    <2>3. CASE CountChunk(a)
      BY <2>3, <1>a DEF CountChunk, Frame
    <2>4. CASE JudgeFile(a)
      <3>1. act[a].pc = "count"
            /\ (act' = To(a, "saveFile") \/ act' = To(a, Return(a)) \/ act' = To(a, ReturnUpdated(a)))
        BY <2>4 DEF JudgeFile
      <3>2. QED
        BY <2>1, <3>1, <1>b
    <2>5. CASE SaveFile(a)
      <3>1. act[a].pc = "saveFile" /\ act' = To(a, ReturnUpdated(a))
        BY <2>5 DEF SaveFile
      <3>2. QED
        BY <2>1, <3>1, <1>b
    <2>6. QED
      BY <2>2, <2>3, <2>4, <2>5
  <1>4. (Filling(a)' <=> Filling(a)) /\ (CountsMembers(a)' <=> CountsMembers(a))
    BY <1>b, <1>3 DEF Filling, CountsMembers
  <1>5. act'[a].pc # "saveDir" /\ act'[a].pc # "readDir"
    BY <1>b, <1>3
  <1>6. QED
    BY <1>1, <1>2, <1>3, <1>4, <1>5, OneActivityMoves

LEMMA DirBegin ==
  ASSUME TypeOK, DirInv, [Next]_vars, NEW a \in Activities, BeginDir(a)
  PROVE  DirInv'
  <1>a. act[a] \in Frame /\ act \in [Activities -> Frame]
    BY DEF TypeOK
  <1>1. UNCHANGED <<dirMap, partial, dirCache, dul, fileCache>>
    BY DEF BeginDir, uploadVars, rowVars, cacheVars, history
  <1>2. \A b \in Activities \ {a} : act'[b] = act[b]
    BY <1>a DEF BeginDir
  <1>3. \/ act'[a].pc = "readDir" /\ ~dirCache.known
        \/ act'[a].pc \in {"idle", "file"}
        \/ act'[a].pc = "members" /\ act'[a].pos = 1 /\ act'[a].good = 0 /\ dirCache.known
    <2>1. CASE ~dirCache.known
      BY <2>1, <1>a DEF BeginDir, Frame
    <2>2. CASE dirCache.known /\ dirCache.uploaded
      BY <2>2, <1>a, LeaveOutcome DEF BeginDir
    <2>3. CASE dirCache.known /\ ~dirCache.uploaded
      BY <2>3, <1>a DEF BeginDir, Frame
    <2>4. QED
      BY <2>1, <2>2, <2>3
  <1>4. ~Filling(a) /\ ~Filling(a)'
    BY <1>3 DEF BeginDir, Filling
  <1>5. CountsMembers(a)' => dirCache.known /\ act'[a].pos = 1 /\ act'[a].good = 0
    BY <1>3 DEF CountsMembers
  <1>6. QED
    BY <1>1, <1>2, <1>3, <1>4, <1>5, OneActivityMoves

LEMMA DirSave ==
  ASSUME TypeOK, DirInv, [Next]_vars, NEW a \in Activities, SaveDir(a)
  PROVE  DirInv'
  <1>a. act[a] \in Frame /\ act \in [Activities -> Frame]
    BY DEF TypeOK
  <1>1. UNCHANGED <<dirMap, partial, dirCache, fileCache>>
    BY DEF SaveDir, uploadVars, cacheVars, history
  <1>2. \A b \in Activities \ {a} : act'[b] = act[b]
    BY <1>a DEF SaveDir
  <1>3. act'[a].pc \in {"idle", "file"} /\ act[a].pc = "saveDir"
    BY <1>a, LeaveOutcome DEF SaveDir
  <1>4. Claimed' => Claimed
    BY <1>1, <1>2, <1>3 DEF Claimed, SaveDir
  <1>5. ~Filling(a) /\ ~Filling(a)' /\ ~CountsMembers(a)' /\ act'[a].pc # "readDir"
    BY <1>3 DEF Filling, CountsMembers
  <1>6. ASSUME NEW b \in Activities
        PROVE
           /\ Filling(b)' <=> Filling(b)
           /\ Filling(b) => /\ act'[b].entries = act[b].entries /\ act'[b].file = act[b].file
                            /\ act'[b].pc = "fillFile" => act[b].pc = "fillFile"
                            /\ act[b].pc = "fillFile" /\ act'[b].pc # "fillFile" => fileCache'[act[b].file].known
           /\ CountsMembers(b)' => \/ CountsMembers(b) /\ act'[b].pos = act[b].pos /\ act'[b].good = act[b].good
                                   \/ dirCache.known /\ act'[b].pos = 1 /\ act'[b].good = 0
           /\ act'[b].pc = "readDir" => act[b].pc = "readDir" \/ ~dirCache.known
    <2>1. CASE b = a
      BY <1>5, <2>1
    <2>2. CASE b # a
      <3>1. act'[b] = act[b]
        BY <1>2, <2>2
      <3>2. (Filling(b)' <=> Filling(b)) /\ (CountsMembers(b)' <=> CountsMembers(b))
        BY <3>1 DEF Filling, CountsMembers
      <3>3. QED
        BY <3>1, <3>2
    <2>3. QED
      BY <2>1, <2>2
  <1>7. QED
    BY <1>1, <1>4, <1>6, DirKept

\* What a count adds is at most the number of members it has passed, and that many only
\* if all of them are uploaded.
LEMMA GoodCounted ==
  ASSUME TypeOK, FileInv, NEW a \in Activities, NEW n \in Nat,
         act[a].pos <= n, n <= Len(dirCache.members) + 1
  PROVE  /\ Cardinality(Good(a, n)) \in Nat /\ Cardinality(Good(a, n)) <= n - act[a].pos
         /\ Cardinality(Good(a, n)) = n - act[a].pos =>
              \A i \in act[a].pos..(n - 1) : AllUploaded(dirCache.members[i])
  <1> DEFINE pos == act[a].pos
  <1>1. pos \in Nat \ {0} /\ dirCache.members \in Seq(Files) /\ Len(dirCache.members) \in Nat
    BY FrameFacts
  <1> DEFINE R == pos..(n - 1)
  <1>2. Good(a, n) \in SUBSET R
    BY <1>1 DEF Good, Ahead
  <1>a. pos \in Int /\ n - 1 \in Int
    BY <1>1
  <1>3. IsFiniteSet(R) /\ Cardinality(R) = n - pos
    <2>1. IsFiniteSet(R) /\ Cardinality(R) = IF pos > n - 1 THEN 0 ELSE (n - 1) - pos + 1
      BY <1>a, FS_Interval
    <2>2. QED
      BY <1>1, <2>1
  <1> HIDE DEF R, pos
  <1>b. /\ IsFiniteSet(Good(a, n)) /\ Cardinality(Good(a, n)) <= Cardinality(R)
        /\ Cardinality(R) = Cardinality(Good(a, n)) => R = Good(a, n)
    BY <1>2, <1>3, FS_Subset
  <1>4. /\ IsFiniteSet(Good(a, n)) /\ Cardinality(Good(a, n)) <= n - pos
        /\ Cardinality(R) = Cardinality(Good(a, n)) => R = Good(a, n)
    BY <1>b, <1>3
  <1>5. Cardinality(Good(a, n)) \in Nat
    BY <1>4, FS_CardinalityType
  <1>6. ASSUME R = Good(a, n), NEW i \in R
        PROVE  AllUploaded(dirCache.members[i])
    <2>1. i \in 1..Len(dirCache.members) /\ fileCache[dirCache.members[i]].uploaded
      BY <1>1, <1>6 DEF Good, Ahead, pos
    <2>2. dirCache.members[i] \in Files
      BY <1>1, <2>1
    <2>3. QED
      BY <2>1, <2>2 DEF FileInv, FileReportedTruly
  <1>7. QED
    BY <1>3, <1>4, <1>5, <1>6 DEF R, pos

LEMMA DirCount ==
  ASSUME TypeOK, FileInv, DirInv, [Next]_vars, NEW a \in Activities, CountMembers(a)
  PROVE  DirInv'
  <1> SUFFICES ASSUME ~partial' PROVE DirInv'
    BY DEF DirInv
  <1>a. act[a] \in Frame /\ act \in [Activities -> Frame] /\ dirCache \in DirStates
    BY DEF TypeOK, DirStates
  <1>b. UNCHANGED <<dirMap, dul, fileCache>>
    BY DEF CountMembers, uploadVars, rowVars
  <1>c. ~partial
    BY CountMembersOutcome
  <1>d. CountsMembers(a) /\ act[a].pc = "members" /\ ~Filling(a)
    BY DEF CountMembers, CountsMembers, Filling
  <1>e. MembersOK(a) /\ dirCache.known
    BY <1>c, <1>d DEF DirInv, MembersOK
  <1>f. /\ act[a].pos \in Nat \ {0} /\ act[a].good \in Nat
        /\ dirCache.members \in Seq(Files) /\ Len(dirCache.members) \in Nat
    BY FrameFacts
  <1> DEFINE n == Len(dirCache.members)
             pos == act[a].pos
             good == act[a].good
  <1>g. /\ pos <= n + 1 /\ good < pos
        /\ good = pos - 1 => \A i \in 1..(pos - 1) : AllUploaded(dirCache.members[i])
    BY <1>e, <1>f DEF MembersOK
  <1>1. CASE Strange(a) # {}
    <2> DEFINE k == FirstStrange(a)
    <2>1. /\ k \in Strange(a) /\ k \in 1..n /\ pos <= k /\ dirCache.members[k] \in Files
          /\ ~fileCache[dirCache.members[k]].known
      BY <1>1, FirstStrangeOne DEF Strange
    <2>2. /\ act' = [act EXCEPT ![a] =
                       [act[a] EXCEPT !.pc = "fillFile", !.caller = "members",
                            !.file = dirCache.members[k],
                            !.rest = ChunksOf[dirCache.members[k]], !.done = 0, !.failed = FALSE,
                            !.pos = k, !.good = GoodUpTo(a, k), !.bad = BadUpTo(a, k)]]
          /\ UNCHANGED <<dirCache, partial>>
      BY <1>1, CountMembersOutcome
    <2> HIDE DEF k
    <2>3. \A b \in Activities \ {a} : act'[b] = act[b]
      BY <2>2, <1>a
    <2>4. /\ act'[a].pc = "fillFile" /\ act'[a].caller = "members"
          /\ act'[a].pos = k /\ act'[a].good = GoodUpTo(a, k)
      BY <2>2, <1>a DEF Frame
    <2> DEFINE card == Cardinality(Good(a, k))
    <2>a. k \in Nat /\ k <= n + 1
      BY <2>1, <1>f
    <2>5. /\ card \in Nat /\ card <= k - pos
          /\ card = k - pos => \A i \in pos..(k - 1) : AllUploaded(dirCache.members[i])
      BY <2>1, <2>a, GoodCounted
    <2>6. act'[a].good = good + card
      BY <2>4 DEF GoodUpTo
    <2> HIDE DEF card
    <2>7. MembersOK(a)'
      <3>1. act'[a].good < k /\ (act'[a].good = k - 1 => good = pos - 1 /\ card = k - pos)
        BY <2>5, <2>6, <2>a, <1>f, <1>g, SMTT(30)
      <3>2. ASSUME act'[a].good = k - 1, NEW i \in 1..(k - 1)
            PROVE  AllUploaded(dirCache.members[i])'
        <4>1. i \in 1..(pos - 1) \/ i \in pos..(k - 1)
          BY <1>f, <2>a
        <4>2. AllUploaded(dirCache.members[i])
          BY <3>1, <3>2, <4>1, <2>5, <1>g
        <4>3. dirCache.members[i] \in Files
          BY <1>f, <2>1
        <4>4. QED
          BY <2>2, <4>2, <4>3, UploadedStays
      <3>3. QED
        BY <2>1, <2>2, <2>4, <3>1, <3>2, <1>e, <1>f DEF MembersOK
    <2>8. ~Filling(a)'
      BY <2>4 DEF Filling
    <2>9. \A b \in Activities : act[b].pc # "readDir"
      <3> SUFFICES ASSUME NEW b \in Activities, act[b].pc = "readDir" PROVE FALSE
        OBVIOUS
      <3>1. b # a /\ ~Filling(b)
        BY <1>d DEF Filling
      <3>2. \A c \in Activities : ~Filling(c)
        BY <3>1, <1>d DEF Activities
      <3>3. QED
        BY <3>2, <2>1, <1>c, <1>e DEF DirInv
    <2>10. \A b \in Activities : act'[b].pc # "readDir" /\ (Filling(b)' <=> Filling(b))
      <3>1. \A b \in Activities \ {a} : Filling(b)' <=> Filling(b)
        BY <2>3 DEF Filling
      <3>2. QED
        BY <3>1, <2>3, <2>4, <2>8, <2>9, <1>d
    <2>11. \A b \in Activities \ {a} : (Filling(b) => FillOK(b)) => (Filling(b) => FillOK(b))'
      BY <2>2, <2>3, <1>b DEF Filling, FillOK, At, Members
    <2>12. \A b \in Activities \ {a} : (CountsMembers(b) => MembersOK(b))'
      <3> SUFFICES ASSUME NEW b \in Activities \ {a}, CountsMembers(b)'
                   PROVE  MembersOK(b)'
        OBVIOUS
      <3>1. MembersOK(b)
        BY <2>3, <1>c DEF DirInv, CountsMembers
      <3>2. \A i \in 1..(act[b].pos - 1) : dirCache.members[i] \in Files
        BY <3>1, FrameFacts DEF MembersOK
      <3>3. QED
        BY <2>2, <2>3, <3>1, <3>2, UploadedStays DEF MembersOK
    <2>13. Claimed' => Claimed
      BY <2>2, <2>3, <2>4, <1>b DEF Claimed
    <2>14. (Claimed => \A f \in Files : AllUploaded(f))'
      BY <2>13, <1>c, UploadedStays DEF DirInv
    <2>15. (dirCache.known => Entered = Files)'
      BY <2>2, <1>b, <1>c DEF DirInv, Entered
    <2>16. (dirCache.known /\ (\A b \in Activities : ~Filling(b)) =>
              Files \subseteq Members /\ \A f \in Files : fileCache[f].known)'
      BY <2>2, <2>10, <1>b, <1>c DEF DirInv, Members
    <2>17. \A b \in Activities : (Filling(b) => FillOK(b))'
      BY <2>8, <2>11, <1>c DEF DirInv
    <2>18. QED
      BY <2>7, <2>10, <2>12, <2>14, <2>15, <2>16, <2>17 DEF DirInv
  <1>2. CASE Strange(a) = {}
    <2> DEFINE bad == BadUpTo(a, n + 1)
    <2>1. /\ dirCache' = [dirCache EXCEPT
                 !.uploaded = bad = 0 /\ (Whole(a) \/ dirCache.uploaded),
                 !.failed = bad > 0 \/ (dirCache.failed /\ ~Whole(a))]
          /\ act' = [act EXCEPT ![a] = IF bad > 0 \/ Whole(a)
                         THEN [act[a] EXCEPT !.pc = "saveDir", !.bad = bad] ELSE Leave(a)]
          /\ partial' = (partial \/ (Whole(a) /\ \E b \in Activities : Filling(b)))
      BY <1>2, CountMembersOutcome
    <2>a. n + 1 \in Nat
      BY <1>f
    <2>b. bad \in Nat
      BY <2>a, CountsTyped
    <2>c. Whole(a) => bad = 0 /\ GoodUpTo(a, n + 1) = n
      BY DEF Whole
    <2> HIDE DEF bad
    <2>2. /\ dirCache'.known = dirCache.known /\ dirCache'.members = dirCache.members
          /\ dirCache'.uploaded => Whole(a) \/ dirCache.uploaded
      BY <2>1, <1>a DEF DirStates
    <2>3. \A b \in Activities \ {a} : act'[b] = act[b]
      BY <2>1, <1>a
    <2>4. \/ act'[a].pc = "saveDir" /\ act'[a].bad = bad /\ (bad > 0 \/ Whole(a))
          \/ act'[a].pc \in {"idle", "file"}
      BY <2>1, <1>a, LeaveOutcome DEF Frame
    <2>5. Whole(a) => \A f \in Files : AllUploaded(f)
      <3> SUFFICES ASSUME Whole(a) PROVE \A f \in Files : AllUploaded(f)
        OBVIOUS
      <3>1. \A b \in Activities : ~Filling(b)
        BY <2>1
      <3>2. Files \subseteq Members
        BY <3>1, <1>c, <1>e DEF DirInv
      <3> DEFINE card == Cardinality(Good(a, n + 1))
      <3>3. /\ card \in Nat /\ card <= (n + 1) - pos
            /\ card = (n + 1) - pos => \A i \in pos..((n + 1) - 1) : AllUploaded(dirCache.members[i])
        BY <2>a, <1>f, <1>g, GoodCounted
      <3>4. good + card = n
        BY <2>c DEF GoodUpTo
      <3> HIDE DEF card
      <3>5. good = pos - 1 /\ card = (n + 1) - pos
        <4>1. \A N \in Nat, P \in Nat \ {0}, g \in Nat, c \in Nat :
                g < P /\ c <= (N + 1) - P /\ g + c = N => g = P - 1 /\ c = (N + 1) - P
          OBVIOUS
        <4>2. QED
          BY <4>1, <3>3, <3>4, <1>f, <1>g
      <3>6. \A i \in 1..n : i \in 1..(pos - 1) \/ i \in pos..((n + 1) - 1)
        BY <1>f
      <3>7. \A i \in 1..n : AllUploaded(dirCache.members[i])
        BY <3>3, <3>5, <3>6, <1>g
      <3>8. QED
        BY <3>2, <3>7 DEF Members
    <2>6. Claimed' => Claimed \/ \A f \in Files : AllUploaded(f)
      <3>1. act'[a].pc = "saveDir" /\ act'[a].bad = 0 => Whole(a)
        BY <2>4, <2>b
      <3>2. QED
        BY <2>2, <2>3, <2>5, <3>1, <1>b DEF Claimed
    <2>7. ~Filling(a)' /\ ~CountsMembers(a)' /\ act'[a].pc # "readDir"
      BY <2>4 DEF Filling, CountsMembers
    <2>8. \A b \in Activities \ {a} : (Filling(b)' <=> Filling(b)) /\ (CountsMembers(b)' <=> CountsMembers(b))
      BY <2>3 DEF Filling, CountsMembers
    <2>9. \A b \in Activities :
           /\ Filling(b)' <=> Filling(b)
           /\ Filling(b) => /\ act'[b].entries = act[b].entries /\ act'[b].file = act[b].file
                            /\ act'[b].pc = "fillFile" => act[b].pc = "fillFile"
                            /\ act[b].pc = "fillFile" /\ act'[b].pc # "fillFile" => fileCache'[act[b].file].known
           /\ CountsMembers(b)' => \/ CountsMembers(b) /\ act'[b].pos = act[b].pos /\ act'[b].good = act[b].good
                                   \/ dirCache.known /\ act'[b].pos = 1 /\ act'[b].good = 0
           /\ act'[b].pc = "readDir" => act[b].pc = "readDir" \/ ~dirCache.known
      BY <2>3, <2>7, <2>8, <1>d
    <2>10. partial' = partial
      BY <2>1, <1>c DEF TypeOK
    <2>11. QED
      BY <2>2, <2>6, <2>9, <2>10, <1>b, DirKept
  <1>3. QED
    BY <1>1, <1>2

\* What Fill has to leave behind.
LEMMA AfterFill ==
  ASSUME TypeOK, DirInv, [Next]_vars, ~partial, Entered = Files, NEW a \in Activities,
         UNCHANGED <<dirMap, partial, dul, fileCache>>,
         dirCache'.known, dirCache'.uploaded => dirCache.uploaded,
         \A b \in Activities \ {a} : act'[b] = act[b],
         \/ act'[a].pc = "dir" /\ (\A f \in Files : fileCache[f].known) /\ Files \subseteq Members'
         \/ act'[a].pc = "fillFile" /\ act'[a].caller = "fill" /\ FillOK(a)',
         \A b \in Activities \ {a} : Filling(b) => \A i \in 1..At(b) : dirMap[i] \in Members',
         \A b \in Activities \ {a} : CountsMembers(b) => MembersOK(b)'
  PROVE  DirInv'
  <1>a. /\ \A b \in Activities : Filling(b) => FillOK(b)
        /\ \A b, c \in Activities : act[c].pc = "readDir" /\ CountsMembers(b) => act[b].pos = 1
        /\ Claimed => \A f \in Files : AllUploaded(f)
    BY DEF DirInv
  <1>1. act'[a].pc \notin {"readDir", "members", "saveDir"} /\ ~CountsMembers(a)'
    BY DEF CountsMembers
  <1>2. (dirCache.known => Entered = Files)'
    BY DEF Entered
  <1>3. \A b \in Activities \ {a} : Filling(b)' => FillOK(b)'
    <2> SUFFICES ASSUME NEW b \in Activities \ {a}, Filling(b)' PROVE FillOK(b)'
      OBVIOUS
    <2>1. Filling(b)
      BY DEF Filling
    <2>2. FillOK(b)
      BY <2>1, <1>a
    <2>3. At(b)' = At(b)
      BY DEF At
    <2>4. QED
      BY <2>1, <2>2, <2>3 DEF FillOK
  <1>4. Filling(a)' => FillOK(a)'
    BY DEF Filling
  <1>5. (dirCache.known /\ (\A b \in Activities : ~Filling(b)) =>
              Files \subseteq Members /\ \A f \in Files : fileCache[f].known)'
    <2>1. CASE act'[a].pc = "dir" /\ (\A f \in Files : fileCache[f].known) /\ Files \subseteq Members'
      BY <2>1
    <2>2. CASE act'[a].pc = "fillFile" /\ act'[a].caller = "fill"
      BY <2>2 DEF Filling
    <2>3. QED
      BY <2>1, <2>2
  <1>6. \A b \in Activities : CountsMembers(b)' => MembersOK(b)'
    BY <1>1 DEF CountsMembers
  <1>7. \A b, c \in Activities : act'[c].pc = "readDir" /\ CountsMembers(b)' => act'[b].pos = 1
    <2> SUFFICES ASSUME NEW b \in Activities, NEW c \in Activities, act'[c].pc = "readDir", CountsMembers(b)'
                 PROVE  act'[b].pos = 1
      OBVIOUS
    <2>1. b # a /\ c # a
      BY <1>1
    <2>2. act'[b] = act[b] /\ act'[c] = act[c]
      BY <2>1
    <2>3. CountsMembers(b)
      BY <2>2 DEF CountsMembers
    <2>4. QED
      BY <2>2, <2>3, <1>a
  <1>8. (Claimed => \A f \in Files : AllUploaded(f))'
    <2>1. Claimed' => Claimed
      BY <1>1 DEF Claimed
    <2>2. QED
      BY <2>1, <1>a, UploadedStays
  <1>9. \A b \in Activities : (Filling(b) => FillOK(b))'
    BY <1>3, <1>4
  <1>10. QED
    BY <1>2, <1>5, <1>6, <1>7, <1>8, <1>9 DEF DirInv

LEMMA DirRead ==
  ASSUME TypeOK, DirInv, [Next]_vars, NEW a \in Activities, ReadDir(a)
  PROVE  DirInv'
  <1> SUFFICES ASSUME ~partial' PROVE DirInv'
    BY DEF DirInv
  <1> DEFINE n == Len(dirMap)
             cache == [NoDir EXCEPT !.known = TRUE]
  <1>a. ~partial /\ Entered = Files /\ UNCHANGED <<dirMap, partial, dul, fileCache>> /\ act[a].pc = "readDir"
    BY DEF ReadDir, uploadVars, rowVars, TypeOK
  <1>b. dirMap \in Seq(Files) /\ n \in Nat /\ \A i \in 1..n : dirMap[i] \in Files
    BY FrameFacts
  <1>c. /\ cache.members = <<>> /\ cache.known /\ ~cache.uploaded /\ cache \in DirStates
        /\ \A s \in Seq(Files) : [cache EXCEPT !.members = s].known
                                 /\ ~[cache EXCEPT !.members = s].uploaded
                                 /\ [cache EXCEPT !.members = s].members = s
    <2>1. <<>> \in Seq(Files)
      OBVIOUS
    <2>2. QED
      BY <2>1 DEF NoDir, DirStates
  <1>d. Fill(a, cache, dirMap)
    BY DEF ReadDir
  <1> HIDE DEF cache
  <1>e. <<>> \o dirMap = dirMap /\ \A k \in 1..n : <<>> \o SubSeq(dirMap, 1, k) = SubSeq(dirMap, 1, k)
    BY <1>b
  <1>1. \A b \in Activities \ {a} : act'[b] = act[b]
    BY <1>b, <1>c, <1>d, FillOutcome
  <1>2. \A b \in Activities \ {a} : CountsMembers(b) => act[b].pos = 1 /\ act[b].good = 0
    <2> SUFFICES ASSUME NEW b \in Activities \ {a}, CountsMembers(b)
                 PROVE  act[b].pos = 1 /\ act[b].good = 0
      OBVIOUS
    <2>1. act[b].pos = 1 /\ MembersOK(b)
      BY <1>a DEF DirInv
    <2>2. QED
      BY <2>1, FrameFacts DEF MembersOK
  <1>3. CASE /\ \A i \in 1..n : fileCache[dirMap[i]].known
             /\ dirCache' = [cache EXCEPT !.members = cache.members \o dirMap]
             /\ act'[a].pc = "dir"
    <2>1. dirCache'.members = dirMap /\ dirCache'.known /\ ~dirCache'.uploaded
      BY <1>3, <1>b, <1>c, <1>e
    <2>2. Members' = Files
      BY <2>1, <1>a DEF Members, Entered
    <2>3. \A f \in Files : fileCache[f].known
      BY <1>3, <1>a DEF Entered
    <2>4. \A b \in Activities \ {a} : Filling(b) => \A i \in 1..At(b) : dirMap[i] \in Members'
      <3> SUFFICES ASSUME NEW b \in Activities, Filling(b), NEW i \in 1..At(b)
                   PROVE  dirMap[i] \in Files
        BY <2>2
      <3>1. At(b) \in 1..n
        BY <1>a DEF DirInv, FillOK
      <3>2. QED
        BY <3>1, <1>b
    <2>5. \A b \in Activities \ {a} : CountsMembers(b) => MembersOK(b)'
      BY <1>1, <1>2, <2>1, <1>b DEF MembersOK
    <2>6. QED
      BY <1>a, <1>1, <1>3, <2>1, <2>2, <2>3, <2>4, <2>5, AfterFill
  <1>4. ASSUME NEW k \in 1..n,
               \A i \in 1..(k - 1) : fileCache[dirMap[i]].known,
               ~fileCache[dirMap[k]].known,
               dirCache' = [cache EXCEPT !.members = cache.members \o SubSeq(dirMap, 1, k)],
               act'[a].pc = "fillFile", act'[a].caller = "fill", act'[a].file = dirMap[k],
               act'[a].entries = SubSeq(dirMap, k + 1, n)
        PROVE  DirInv'
    <2> DEFINE s == SubSeq(dirMap, 1, k)
               t == SubSeq(dirMap, k + 1, n)
    <2>a. /\ s \in Seq(Files) /\ Len(s) = k /\ \A i \in 1..k : s[i] = dirMap[i]
          /\ t \in Seq(Files) /\ Len(t) = n - k /\ \A i \in 1..(n - k) : t[i] = dirMap[k + i]
      BY <1>b, <1>4
    <2>1. dirCache'.members = s /\ dirCache'.known /\ ~dirCache'.uploaded
      BY <1>4, <1>c, <1>e, <2>a
    <2> HIDE DEF s
    <2>2. Members' = {dirMap[i] : i \in 1..k}
      BY <2>1, <2>a DEF Members
    <2>3. At(a)' = k
      <3>1. At(a)' = n - Len(t)
        BY <1>4, <1>a DEF At
      <3>2. QED
        BY <3>1, <2>a, <1>b
    <2>4. FillOK(a)'
      <3>1. act'[a].entries = t /\ Len(t) = n - k
        BY <1>4, <2>a
      <3> HIDE DEF t
      <3>2. \A i \in 1..Len(act'[a].entries) : act'[a].entries[i] = dirMap[k + i]
        BY <2>a, <3>1
      <3>3. QED
        BY <1>4, <1>a, <2>1, <2>2, <2>3, <3>2 DEF FillOK
    <2>5. \A b \in Activities \ {a} : Filling(b) => \A i \in 1..At(b) : dirMap[i] \in Members'
      <3> SUFFICES ASSUME NEW b \in Activities, Filling(b)
                   PROVE  \A i \in 1..At(b) : dirMap[i] \in Members'
        OBVIOUS
      <3>1. At(b) \in 1..n /\ \A i \in 1..(At(b) - 1) : fileCache[dirMap[i]].known
        BY <1>a DEF DirInv, FillOK
      <3>2. At(b) <= k
        BY <3>1, <1>4, <1>b
      <3>3. \A i \in 1..At(b) : i \in 1..k
        BY <3>1, <3>2, <1>b
      <3>4. QED
        BY <3>3, <2>2
    <2>6. \A b \in Activities \ {a} : CountsMembers(b) => MembersOK(b)'
      BY <1>1, <1>2, <2>1, <2>a, <1>b DEF MembersOK
    <2>7. QED
      BY <1>a, <1>1, <1>4, <2>1, <2>4, <2>5, <2>6, AfterFill
  <1>5. QED
    <2>1. \/ /\ \A i \in 1..Len(dirMap) : fileCache[dirMap[i]].known
             /\ dirCache' = [cache EXCEPT !.members = cache.members \o dirMap]
             /\ act'[a].pc = "dir" /\ act'[a].caller = act[a].caller
          \/ \E k \in 1..Len(dirMap) :
                 /\ \A i \in 1..(k - 1) : fileCache[dirMap[i]].known
                 /\ ~fileCache[dirMap[k]].known
                 /\ dirCache' = [cache EXCEPT !.members = cache.members \o SubSeq(dirMap, 1, k)]
                 /\ act'[a].pc = "fillFile" /\ act'[a].caller = "fill" /\ act'[a].file = dirMap[k]
                 /\ act'[a].rest = ChunksOf[dirMap[k]] /\ act'[a].done = 0
                 /\ act'[a].entries = SubSeq(dirMap, k + 1, Len(dirMap))
      BY <1>b, <1>c, <1>d, FillOutcome
    <2>2. QED
      BY <2>1, <1>3, <1>4

LEMMA SplitAt ==
  ASSUME NEW entries \in Seq(Files), NEW k \in 1..Len(entries)
  PROVE  /\ SubSeq(entries, 1, k) \in Seq(Files) /\ Len(SubSeq(entries, 1, k)) = k
         /\ \A i \in 1..k : SubSeq(entries, 1, k)[i] = entries[i]
         /\ SubSeq(entries, k + 1, Len(entries)) \in Seq(Files)
         /\ Len(SubSeq(entries, k + 1, Len(entries))) = Len(entries) - k
         /\ \A i \in 1..(Len(entries) - k) : SubSeq(entries, k + 1, Len(entries))[i] = entries[k + i]
  OBVIOUS

LEMMA DirFillOn ==
  ASSUME TypeOK, DirInv, [Next]_vars, NEW a \in Activities, FillDir(a)
  PROVE  DirInv'
  <1> SUFFICES ASSUME ~partial' PROVE DirInv'
    BY DEF DirInv
  <1> DEFINE n == Len(dirMap)
             entries == act[a].entries
             m == Len(entries)
             members == dirCache.members
             at == At(a)
  <1>a. UNCHANGED <<dirMap, partial, dul, fileCache>> /\ act[a].pc = "fill" /\ Filling(a) /\ ~partial
    BY DEF FillDir, Filling, uploadVars, rowVars, history
  <1>b. /\ dirMap \in Seq(Files) /\ n \in Nat /\ entries \in Seq(Files) /\ m \in Nat
        /\ members \in Seq(Files) /\ Len(members) \in Nat /\ dirCache \in DirStates
        /\ \A i \in 1..n : dirMap[i] \in Files
    BY FrameFacts DEF TypeOK, DirStates
  <1>c. FillOK(a) /\ Entered = Files
    BY <1>a DEF DirInv, FillOK
  <1>d. /\ at \in 1..n /\ at + m = n
        /\ \A i \in 1..m : entries[i] = dirMap[at + i]
        /\ \A i \in 1..at : dirMap[i] \in Members /\ fileCache[dirMap[i]].known
    <2>1. at \in 1..n /\ \A i \in 1..m : entries[i] = dirMap[at + i]
      BY <1>c DEF FillOK
    <2>2. at = n - m
      BY DEF At
    <2>3. at + m = n
      BY <2>2, <1>b
    <2>4. \A i \in 1..at : i \in 1..(at - 1) \/ i = at
      BY <2>1, <1>b
    <2>5. QED
      BY <2>1, <2>3, <2>4, <1>a, <1>c DEF FillOK
  <1>e. Fill(a, dirCache, entries)
    BY DEF FillDir
  <1>1. \A b \in Activities \ {a} : act'[b] = act[b]
    BY <1>b, <1>e, FillOutcome
  <1>2. ASSUME NEW x \in Seq(Files), dirCache' = [dirCache EXCEPT !.members = members \o x]
        PROVE  /\ dirCache'.known /\ dirCache'.uploaded = dirCache.uploaded
               /\ Members \subseteq Members'
               /\ \A i \in 1..Len(x) : x[i] \in Members'
               /\ \A b \in Activities \ {a} : Filling(b) => \A i \in 1..At(b) : dirMap[i] \in Members'
               /\ \A b \in Activities \ {a} : CountsMembers(b) => MembersOK(b)'
    <2>1. /\ dirCache'.known /\ dirCache'.uploaded = dirCache.uploaded
          /\ dirCache'.members = members \o x
      BY <1>2, <1>b, <1>c DEF DirStates, FillOK
    <2>2. /\ Len(members \o x) = Len(members) + Len(x) /\ Len(x) \in Nat
          /\ \A i \in 1..Len(members) : (members \o x)[i] = members[i]
          /\ \A i \in 1..Len(x) : (members \o x)[Len(members) + i] = x[i]
                                  /\ Len(members) + i \in 1..(Len(members) + Len(x))
          /\ \A i \in 1..Len(members) : i \in 1..(Len(members) + Len(x))
      BY <1>b, <1>2
    <2>3. Members \subseteq Members' /\ \A i \in 1..Len(x) : x[i] \in Members'
      BY <2>1, <2>2, ZenonT(60) DEF Members
    <2>4. \A b \in Activities \ {a} : Filling(b) => \A i \in 1..At(b) : dirMap[i] \in Members'
      BY <2>3, <1>a DEF DirInv, FillOK
    <2>5. ASSUME NEW b \in Activities \ {a}, CountsMembers(b)
          PROVE  MembersOK(b)'
      <3>1. MembersOK(b) /\ act[b].pos \in Nat \ {0}
        BY <2>5, <1>a, FrameFacts DEF DirInv
      <3>2. act[b].pos \in 1..(Len(members) + Len(x) + 1)
        BY <3>1, <2>2, <1>b DEF MembersOK
      <3>3. \A i \in 1..(act[b].pos - 1) : i \in 1..Len(members) /\ members[i] \in Files
        BY <3>1, <1>b DEF MembersOK
      <3>4. ASSUME act[b].good = act[b].pos - 1, NEW i \in 1..(act[b].pos - 1)
            PROVE  AllUploaded(dirCache.members[i])'
        <4>1. PICK f \in Files : f = members[i]
          BY <3>3
        <4>2. AllUploaded(f)'
          BY <3>1, <3>4, <4>1, UploadedStays DEF MembersOK
        <4>3. dirCache'.members[i] = f
          BY <3>3, <4>1, <2>1, <2>2
        <4>4. QED
          BY <4>2, <4>3
      <3>5. QED
        BY <3>1, <3>2, <3>4, <2>1, <2>2, <1>1 DEF MembersOK
    <2>6. QED
      BY <2>1, <2>3, <2>4, <2>5
  <1>3. CASE /\ \A i \in 1..m : fileCache[entries[i]].known
             /\ dirCache' = [dirCache EXCEPT !.members = members \o entries]
             /\ act'[a].pc = "dir"
    <2>1. \A j \in 1..n : j \in 1..at \/ (j - at \in 1..m /\ at + (j - at) = j)
      BY <1>b, <1>d
    <2>2. \A j \in 1..n : fileCache[dirMap[j]].known /\ dirMap[j] \in Members'
      <3> SUFFICES ASSUME NEW j \in 1..n
                   PROVE  fileCache[dirMap[j]].known /\ dirMap[j] \in Members'
        OBVIOUS
      <3>1. CASE j \in 1..at
        BY <3>1, <1>2, <1>3, <1>b, <1>d
      <3>2. CASE j - at \in 1..m /\ at + (j - at) = j
        <4>1. dirMap[j] = entries[j - at]
          BY <3>2, <1>d
        <4>2. QED
          BY <3>2, <4>1, <1>2, <1>3, <1>b
      <3>3. QED
        BY <2>1, <3>1, <3>2
    <2>3. (\A f \in Files : fileCache[f].known) /\ Files \subseteq Members'
      BY <2>2, <1>c DEF Entered
    <2>4. QED
      BY <1>a, <1>b, <1>c, <1>1, <1>2, <1>3, <2>3, AfterFill
  <1>4. ASSUME NEW k \in 1..m,
               \A i \in 1..(k - 1) : fileCache[entries[i]].known,
               dirCache' = [dirCache EXCEPT !.members = members \o SubSeq(entries, 1, k)],
               act'[a].pc = "fillFile", act'[a].caller = "fill", act'[a].file = entries[k],
               act'[a].entries = SubSeq(entries, k + 1, m)
        PROVE  DirInv'
    <2> DEFINE s == SubSeq(entries, 1, k)
               t == SubSeq(entries, k + 1, m)
    <2>a. /\ s \in Seq(Files) /\ Len(s) = k /\ \A i \in 1..k : s[i] = entries[i]
          /\ t \in Seq(Files) /\ Len(t) = m - k /\ \A i \in 1..(m - k) : t[i] = entries[k + i]
      BY <1>b, SplitAt
    <2>b. dirCache' = [dirCache EXCEPT !.members = members \o s] /\ act'[a].entries = t
      BY <1>4
    <2> HIDE DEF s, t
    <2>1. /\ dirCache'.known /\ dirCache'.uploaded = dirCache.uploaded
          /\ Members \subseteq Members' /\ \A i \in 1..k : entries[i] \in Members'
          /\ \A b \in Activities \ {a} : Filling(b) => \A i \in 1..At(b) : dirMap[i] \in Members'
          /\ \A b \in Activities \ {a} : CountsMembers(b) => MembersOK(b)'
      BY <2>a, <2>b, <1>2
    <2>2. At(a)' = at + k
      <3>1. At(a)' = n - (m - k)
        BY <2>a, <2>b, <1>a DEF At
      <3>2. QED
        <4>1. \A N, M, A, K \in Nat : A + M = N => N - (M - K) = A + K
          OBVIOUS
        <4>2. at \in Nat
          BY <1>b, <1>d
        <4>3. n \in Nat /\ m \in Nat /\ k \in Nat /\ at + m = n
          BY <1>b, <1>d
        <4> HIDE DEF n, m, at
        <4>4. QED
          BY <3>1, <4>1, <4>2, <4>3
    <2>c. /\ at \in Nat \ {0} /\ m \in Nat /\ n \in Nat /\ at + m = n /\ k \in 1..m
      BY <1>b, <1>d
    <2>3. /\ at + k \in 1..n
          /\ \A j \in 1..(at + k) : j \in 1..at \/ (j - at \in 1..k /\ j - at \in 1..m /\ at + (j - at) = j)
          /\ \A j \in 1..((at + k) - 1) : j \in 1..at \/ (j - at \in 1..(k - 1) /\ j - at \in 1..m /\ at + (j - at) = j)
      <3> HIDE DEF at, m, n
      <3>1. QED
        BY <2>c
    <2>4. \A i \in 1..(m - k) : t[i] = dirMap[(at + k) + i]
      <3> SUFFICES ASSUME NEW i \in 1..(m - k) PROVE t[i] = dirMap[(at + k) + i]
        OBVIOUS
      <3>1. t[i] = entries[k + i] /\ k + i \in 1..m /\ at + (k + i) = (at + k) + i
        BY <2>a, <1>b, <1>d
      <3>2. QED
        BY <3>1, <1>d
    <2>5. \A j \in 1..(at + k) : dirMap[j] \in Members'
      <3> SUFFICES ASSUME NEW j \in 1..(at + k) PROVE dirMap[j] \in Members'
        OBVIOUS
      <3>1. CASE j \in 1..at
        BY <3>1, <1>d, <2>1
      <3>2. CASE j - at \in 1..k /\ j - at \in 1..m /\ at + (j - at) = j
        <4>1. dirMap[j] = entries[j - at]
          BY <3>2, <1>d
        <4>2. QED
          BY <4>1, <3>2, <2>1
      <3>3. QED
        BY <2>3, <3>1, <3>2
    <2>6. \A j \in 1..((at + k) - 1) : fileCache[dirMap[j]].known
      <3> SUFFICES ASSUME NEW j \in 1..((at + k) - 1) PROVE fileCache[dirMap[j]].known
        OBVIOUS
      <3>1. CASE j \in 1..at
        BY <3>1, <1>d
      <3>2. CASE j - at \in 1..(k - 1) /\ j - at \in 1..m /\ at + (j - at) = j
        <4>1. dirMap[j] = entries[j - at]
          BY <3>2, <1>d
        <4>2. QED
          BY <4>1, <3>2, <1>4
      <3>3. QED
        BY <2>3, <3>1, <3>2
    <2>7. FillOK(a)'
      <3>1. act'[a].file = dirMap[at + k]
        BY <1>4, <1>d
      <3>2. Len(t) = m - k
        BY <2>a
      <3>3. At(a)' \in 1..Len(dirMap')
        BY <1>a, <2>2, <2>3
      <3>4. \A i \in 1..Len(act'[a].entries) : act'[a].entries[i] = dirMap'[At(a)' + i]
        BY <1>a, <2>b, <2>2, <2>4, <3>2
      <3>5. \A i \in 1..At(a)' : dirMap'[i] \in Members'
        BY <1>a, <2>2, <2>5
      <3>6. \A i \in 1..(At(a)' - 1) : fileCache'[dirMap'[i]].known
        BY <1>a, <2>2, <2>6
      <3>7. act'[a].pc = "fillFile" /\ act'[a].file = dirMap'[At(a)']
        BY <1>4, <1>a, <2>2, <3>1
      <3>8. QED
        BY <2>1, <3>3, <3>4, <3>5, <3>6, <3>7 DEF FillOK
    <2>8. QED
      BY <1>a, <1>c, <1>1, <1>4, <2>1, <2>7, AfterFill
  <1>5. QED
    <2>1. \/ /\ \A i \in 1..Len(entries) : fileCache[entries[i]].known
             /\ dirCache' = [dirCache EXCEPT !.members = dirCache.members \o entries]
             /\ act'[a].pc = "dir" /\ act'[a].caller = act[a].caller
          \/ \E k \in 1..Len(entries) :
                 /\ \A i \in 1..(k - 1) : fileCache[entries[i]].known
                 /\ ~fileCache[entries[k]].known
                 /\ dirCache' = [dirCache EXCEPT !.members = dirCache.members \o SubSeq(entries, 1, k)]
                 /\ act'[a].pc = "fillFile" /\ act'[a].caller = "fill" /\ act'[a].file = entries[k]
                 /\ act'[a].rest = ChunksOf[entries[k]] /\ act'[a].done = 0
                 /\ act'[a].entries = SubSeq(entries, k + 1, Len(entries))
      BY <1>b, <1>e, FillOutcome
    <2>2. QED
      BY <2>1, <1>3, <1>4

LEMMA DirInit == Init => DirInv
  <1> SUFFICES ASSUME Init PROVE DirInv
    OBVIOUS
  <1>1. \A a \in Activities : act[a].pc = "idle"
    BY DEF Init, Idle
  <1>2. \A a \in Activities : ~Filling(a) /\ ~CountsMembers(a)
    BY <1>1 DEF Filling, CountsMembers
  <1>3. ~dirCache.known /\ ~dirCache.uploaded /\ dul # "COMPLETED"
    BY DEF Init, NoDir
  <1>4. QED
    BY <1>1, <1>2, <1>3 DEF DirInv, Claimed

LEMMA DirStep == TypeOK /\ FileInv /\ DirInv /\ [Next]_vars => DirInv'
  <1> SUFFICES ASSUME TypeOK, FileInv, DirInv, [Next]_vars PROVE DirInv'
    OBVIOUS
  <1>1. CASE \E a \in Activities : ProgressStep(a)
    BY <1>1, DirFile, DirBegin, DirRead, DirFillOn, DirCount, DirSave DEF ProgressStep
  <1>2. CASE QueueStep \/ Poll
    BY <1>2, DirQueue
  <1>3. CASE \/ \E f \in Files : UploadStep(f)
             \/ \E c \in Chunks : CompleteChunk(c) \/ FailChunk(c) \/ CompleteByDownload(c)
             \/ UNCHANGED vars
    BY <1>3, DirUpload
  <1>4. QED
    BY <1>1, <1>2, <1>3 DEF Next

\* The inductive invariant: what every activity has still to count or to enter, and what
\* the members in memory cover while one or both of them fill in the directory.
THEOREM ProgressInvariant == Spec => []ProgressInv
  <1>1. Init => ProgressInv
    BY TypeInit, FileInit, DirInit DEF ProgressInv
  <1>2. ProgressInv /\ [Next]_vars => ProgressInv'
    BY TypeStep, FileStep, DirStep DEF ProgressInv
  <1>3. QED
    BY <1>1, <1>2, PTL DEF Spec

\* waitForDirToUpload tells the truth, although a client's poll may start the directory
\* again while the queue fills it in: unless the directory was counted before it was
\* complete in DirMap or in memory, dir_ul_status is COMPLETED only when every chunk of
\* every file of the directory is uploaded.
THEOREM DirectoriesAreReportedTruly == Spec => []DirReportedTruly
  <1>1. ProgressInv => DirReportedTruly
    BY DEF ProgressInv, DirInv, Claimed, DirReportedTruly
  <1>2. QED
    BY <1>1, ProgressInvariant, PTL
=============================================================================
