SPECIFICATION FairSpec
CONSTANTS
    identity = identity
    other = other
    request = request
    job = job
    latest = latest
    Contracts = {identity, other}
    Identity = identity
    Requests = {request}
    Job = job
    PageSize = 2
    Queries <- SomeQueries
    Latest = latest
    MaxBlock = 2
    MaxRequests = 1
    MaxDisturbances = 2
INVARIANTS
    RowsAreScanned
    AnswersAreComplete
PROPERTIES
    IdentityEventsArrive
CHECK_DEADLOCK FALSE
