---------------------------- MODULE RangeStream -----------------------------
(***************************************************************************)
(* getFileAsReadStream of client/storage: a file of several chunks, or a   *)
(* range of it, is sent while its chunks are downloaded one after another. *)
(* A byte stands for its offset in the file.                               *)
(***************************************************************************)
EXTENDS Integers, Sequences, FiniteSets

CONSTANTS
    ChunkSize,
    RangeLimit,       \* a range ends this many bytes after its start: 1024 * 1024
    FileSizes,        \* bound: the sizes of files
    NoRange           \* in place of the start of a range

ASSUME RangeStreamAssumption ==
    /\ ChunkSize \in Nat \ {0} /\ RangeLimit \in Nat
    /\ FileSizes \subseteq Nat \ {0}
    /\ NoRange \notin Nat

VARIABLES
    streamSize,       \* the size of the file, 0 before a request
    streamStart,      \* the start of the range asked for, or NoRange
    sent,             \* the bytes pushed into the stream, in order
    fetching,         \* the chunks being downloaded
    downloading,      \* the locals of createReadableStream
    lastChunkIdx,
    streamClosed,
    streamFull,       \* the last push returned false
    streamState       \* "idle", "open", "ended" or "error"

streamVars == <<streamSize, streamStart, sent, fetching, downloading, lastChunkIdx,
                streamClosed, streamFull, streamState>>

-----------------------------------------------------------------------------
MinOf(a, b) == IF a < b THEN a ELSE b
MaxOf(a, b) == IF a < b THEN b ELSE a

ChunkCount == (streamSize + ChunkSize - 1) \div ChunkSize
ChunkLength(i) == MinOf(ChunkSize, streamSize - i * ChunkSize)
Ranged == streamStart # NoRange

\* The headers: a range runs to RangeLimit bytes further or the end of the file, whatever end
\* the client asked for.
First == IF Ranged THEN streamStart ELSE 0
Final == IF Ranged
         THEN MaxOf(streamStart, MinOf(streamStart + RangeLimit, streamSize - 1))
         ELSE streamSize - 1
Announced == First..Final
StartChunkIdx == First \div ChunkSize
EndChunkIdx == IF Ranged THEN Final \div ChunkSize ELSE ChunkCount - 1

\* The bytes a..b-1 in order.
Bytes(a, b) == [k \in 1..MaxOf(b - a, 0) |-> a + k - 1]

\* buffer.slice(a, b) of n bytes: a negative index counts from the end.
SliceIndex(k, n) == IF k < 0 THEN MaxOf(n + k, 0) ELSE MinOf(k, n)

\* pushChunk: the part of a chunk that is sent.
Slice(i) ==
    LET base == i * ChunkSize
        n == ChunkLength(i)
    IN  IF Ranged
        THEN Bytes(base + SliceIndex(First - base, n), base + SliceIndex(Final - base + 1, n))
        ELSE Bytes(base, base + n)

-----------------------------------------------------------------------------
StreamInit ==
    /\ streamSize = 0 /\ streamStart = NoRange
    /\ sent = <<>> /\ fetching = {}
    /\ downloading = FALSE /\ lastChunkIdx = -1
    /\ streamClosed = FALSE /\ streamFull = FALSE
    /\ streamState = "idle"

\* A file of one chunk is sent at once, the others chunk by chunk.
GetFileAsReadStream(size, start) ==
    /\ streamState = "idle"
    /\ streamSize' = size /\ streamStart' = start
    /\ IF size <= ChunkSize
       THEN /\ sent' = (IF start = NoRange THEN Bytes(0, size)
                        ELSE Bytes(MinOf(start, size), MinOf(Final' + 1, size)))
            /\ streamState' = "ended"
            /\ UNCHANGED <<fetching, downloading>>
       ELSE /\ fetching' = {StartChunkIdx'}
            /\ downloading' = TRUE
            /\ streamState' = "open"
            /\ UNCHANGED sent
    /\ UNCHANGED <<lastChunkIdx, streamClosed, streamFull>>

\* downloadChunk: beyond the last chunk of the range the stream ends.
Proceed(i) == IF i > EndChunkIdx
              THEN streamState' = "ended" /\ fetching' = {}
              ELSE fetching' = {i} /\ UNCHANGED streamState

\* Mutant: a push that found room pauses without a note of where it was.
PauseUnnoted(i, room) ==
    IF room
    THEN downloading' = FALSE /\ UNCHANGED <<lastChunkIdx, streamState>> /\ fetching' = {}
    ELSE /\ UNCHANGED <<downloading, lastChunkIdx>>
         /\ IF downloading THEN Proceed(i + 1) ELSE fetching' = {} /\ UNCHANGED streamState

\* readable.push: when it returns true, there is room and the code pauses; when it returns
\* false, the buffer is full and the next chunk is downloaded.
Pause(i, room) ==
    IF room
    THEN downloading' = FALSE /\ lastChunkIdx' = i /\ UNCHANGED streamState /\ fetching' = {}
    ELSE /\ UNCHANGED <<downloading, lastChunkIdx>>
         /\ IF downloading THEN Proceed(i + 1) ELSE fetching' = {} /\ UNCHANGED streamState

\* A chunk has been downloaded.  (What is pushed to a closed stream is dropped.)
ChunkArrives(i) ==
    /\ streamState = "open" /\ i \in fetching /\ i < ChunkCount
    /\ sent' = IF streamClosed THEN sent ELSE sent \o Slice(i)
    /\ \E room \in BOOLEAN : Pause(i, room) /\ streamFull' = ~room
    /\ UNCHANGED <<streamSize, streamStart, streamClosed>>

\* The download fails; there is no chunk for a range that begins at the end of the file.
ChunkFails(i) ==
    /\ streamState = "open" /\ i \in fetching
    /\ fetching' = {}
    /\ streamState' = "error"
    /\ UNCHANGED <<streamSize, streamStart, sent, downloading, lastChunkIdx, streamClosed, streamFull>>

\* read() of the stream: its buffer has room and the reader wants more.
Read ==
    /\ streamState = "open" /\ ~downloading /\ ~streamClosed
    /\ downloading' = TRUE
    /\ streamFull' = FALSE
    /\ Proceed(lastChunkIdx + 1)
    /\ UNCHANGED <<streamSize, streamStart, sent, lastChunkIdx, streamClosed>>

\* The client disconnects.
Close ==
    /\ streamState = "open" /\ ~streamClosed
    /\ streamClosed' = TRUE /\ downloading' = FALSE
    /\ UNCHANGED <<streamSize, streamStart, sent, fetching, lastChunkIdx, streamFull, streamState>>

StreamNext ==
    \/ \E size \in FileSizes : \E start \in 0..size \cup {NoRange} : GetFileAsReadStream(size, start)
    \/ \E i \in fetching : ChunkArrives(i) \/ ChunkFails(i)
    \/ Read
    \/ Close

StreamSpec == StreamInit /\ [][StreamNext]_streamVars

-----------------------------------------------------------------------------
(* Properties. *)

SentBytes == {sent[k] : k \in DOMAIN sent}
\* The bytes of the second chunk of a range that the negative index of its slice leaves out.
LostBytes ==
    LET second == (StartChunkIdx + 1) * ChunkSize
        n == MinOf(ChunkSize, streamSize - second)
    IN  IF Ranged /\ n > 0 THEN second..(second + MaxOf(n - (second - First), 0) - 1) ELSE {}

\* However pushes and reads alternate, the bytes of a stream come in their order and none comes
\* twice or from outside the range announced; a stream that ends has sent all of the range but
\* for the bytes lost at the front of its second chunk and what is beyond the end of the file.
RangeIsSent ==
    /\ \A k, m \in DOMAIN sent : k < m => sent[k] < sent[m]
    /\ SentBytes \subseteq Announced
    /\ Cardinality(fetching) <= 1
    /\ streamState = "ended" /\ ~streamClosed
          => SentBytes = {b \in Announced : b < streamSize /\ b \notin LostBytes}
=============================================================================
