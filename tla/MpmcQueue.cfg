SPECIFICATION FairSpec
CONSTANTS
    Producers = {p1, p2}
    Consumers = {c1, c2}
    Sizes <- MCSizes
    Word = 8
    MaxItems = 3
INVARIANTS
    TypeOK
    NoLostWakeup
PROPERTIES
    ImplementsBoundedQueue
    EnqueueReturns
    ItemsTaken
CHECK_DEADLOCK FALSE
