\* Change of day, size limit, restart, crash and a clock that is set back.
SPECIFICATION Spec
CONSTANTS
    DayLen = 3
    RotTick = 1
    Shifts <- AnyShift
    ShiftAt = 2
    MaxDay = 1
    MaxSlot = 2
    Configs <- SizeConfigs
    Sizes = {1, 2}
    FailingOps = {"open", "size", "write", "close", "exists", "remove", "rename"}
    MaxMsgs = 3
    MaxFaults = 1
    MaxRestarts = 1
    MaxSetBacks = 1
INVARIANTS TypeOK DaysOrdered DayGroups SizeBound
