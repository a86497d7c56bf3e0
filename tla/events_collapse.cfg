SPECIFICATION Spec
CONSTANTS
    identity = identity
    other = other
    request = request
    job = job
    latest = latest
    Contracts = {identity, other}
    Identity = identity
    Requests = {request}
    Job = job
    PageSize = 2
    Queries <- AllEvents
    Latest = latest
    MaxBlock = 4
    MaxRequests = 2
    MaxDisturbances = 1
INVARIANTS
    CollapsedRangesAreScanned
CHECK_DEADLOCK FALSE
