\* Every file operation may fail and the parameters may change.
SPECIFICATION Spec
CONSTANTS
    MaxSlot = 2
    Configs <- MixedConfigs
    LineCounts = {1}
    FailingOps = {"open", "write", "close", "exists", "read", "remove", "rename"}
    MaxMsgs = 4
    MaxRestarts = 1
    MaxCrashes = 1
INVARIANTS ChainOrdered
