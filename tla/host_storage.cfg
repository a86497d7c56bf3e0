SPECIFICATION FairSpec
CONSTANTS
    site = site
    first = first
    second = second
    a = a
    b = b
    MaxCalls = 3
    Hosts = {site}
    Keys = {first, second}
    Zero = first
    Whole = Whole
    Values = {a, b}
    Undefined = Undefined
    EmptyList = EmptyList
    NoRoot = NoRoot
    SomeRequests <- Calls
    SomeRoots <- Published
    MaxDisturbances = 2
INVARIANTS
    OneCallAtATime
    WrittenTreeIsWhole
PROPERTIES
    NoLostUpdate
    CallsSettle
    RemoteFollows
CHECK_DEADLOCK FALSE
