SPECIFICATION FairSpec
CONSTANTS
    dirFile = dirFile
    memberFile = memberFile
    c1 = c1
    c2 = c2
    c3 = c3
    Files = {dirFile, memberFile}
    Dir = dirFile
    Chunks = {c1, c2, c3}
    ChunksOf <- MCChunksOf
INVARIANTS
    FileReportedTruly
    DirReportedTruly

    
CHECK_DEADLOCK FALSE
