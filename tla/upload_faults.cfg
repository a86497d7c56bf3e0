SPECIFICATION Spec
CONSTANTS
    c1 = c1
    c2 = c2
    u1 = u1
    u2 = u2
    NoChunk = NoChunk
    Loops = {1, 2}
    CONCURRENT_UPLOAD_LIMIT = 2
    UPLOAD_RETRY_LIMIT = 1
    Chunks = {c1}
    Uploads = {u1, u2}
    ChunksOf <- SameFileTwice
    MaxExpiries = 2
    MaxFaults = 1
    MaxCrashes = 1
INVARIANTS
    SingleLoop
    ExclusiveUpload
    FailedOnlyAfterRetries
PROPERTIES
    ImplementsLifecycle
CHECK_DEADLOCK FALSE
