\* A fixed limit, counted again whenever a file is opened.
SPECIFICATION Spec
CONSTANTS
    MaxSlot = 2
    Configs <- StrictConfigs
    LineCounts = {1}
    FailingOps = {"open", "remove", "close"}
    MaxMsgs = 7
    MaxRestarts = 2
    MaxCrashes = 2
INVARIANTS StrictLineBound RetentionFloor
