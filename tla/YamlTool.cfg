SPECIFICATION FairSpec
CONSTANTS
    Threads = {"t1", "t2"}
    MaxItems = 1
    MaxCrashes = 1
INVARIANTS
    TypeOK
    RegistrySettled
PROPERTIES
    
    CallReturns
CHECK_DEADLOCK FALSE
