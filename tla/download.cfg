SPECIFICATION FairSpec
CONSTANTS
    r1 = r1
    r2 = r2
    infoChunk = infoChunk
    partChunk = partChunk
    Readers = {r1, r2}
    Chunks = {infoChunk, partChunk}
    InfoChunk = infoChunk
    Calls <- MCCalls
    ChunkOf <- MCChunkOf
    MaxDisturbances = 2
INVARIANTS
    NoOrphanWaiter
    TornOnlyAfterRace
PROPERTIES
    OnlyLostRowsStrandReaders
CHECK_DEADLOCK FALSE
