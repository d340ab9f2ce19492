SPECIFICATION Spec
CONSTANTS
    MaxCount = 2
    MaxFiles = 2
    Platforms = {"posix", "windows"}
    OpenModes = {TRUE, FALSE}
    StrictModes = {TRUE, FALSE}
    MaxOld = 3
    MaxNew = 5
INVARIANTS
    TypeOK
    SinkOrder
    OverlapBound
    RecoversAfterOverlap
CHECK_DEADLOCK FALSE
