\* Rotation with a fixed number of backups: what is kept is always a window.
SPECIFICATION FairSpec
CONSTANTS
    MaxSlot = 3
    Configs <- UniformConfigs
    LineCounts = {1}
    FailingOps = {"open", "write", "remove"}
    MaxMsgs = 5
    MaxRestarts = 1
    MaxCrashes = 1
INVARIANTS TypeOK DiscardsOldestFirst
PROPERTIES RefinesRetainedLog LogReturns
