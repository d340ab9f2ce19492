SPECIFICATION FairSpec
CONSTANTS
    Callers = {c1}
    Keys = {"a"}
    Statuses = {200}
    Timeouts <- MCTimeouts
    MaxRedirs = 5
    Chunks = 2
    MaxRequests = 2
    MaxSets = 2
INVARIANTS
    TypeOK
    ResponseComplete
    VerificationAsSet
PROPERTIES
    RequestsReturn
CHECK_DEADLOCK FALSE
