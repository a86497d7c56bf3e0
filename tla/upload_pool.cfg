SPECIFICATION FairSpec
CONSTANTS
    c1 = c1
    c2 = c2
    u1 = u1
    u2 = u2
    NoChunk = NoChunk
    Loops = {1}
    CONCURRENT_UPLOAD_LIMIT = 2
    UPLOAD_RETRY_LIMIT = 0
    Chunks = {c1, c2}
    Uploads = {u1}
    ChunksOf <- OneFile
    MaxExpiries = 0
    MaxFaults = 0
    MaxCrashes = 0
INVARIANTS
    NoLeakedSlot
PROPERTIES
    OnlyLostWakeupStrands
CHECK_DEADLOCK FALSE
