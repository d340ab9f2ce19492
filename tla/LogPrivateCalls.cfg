\* Sequences of calls over every kind of configuration file.
SPECIFICATION Spec
CONSTANTS
    Paths = {"default", "user"}
    DefaultPath = "default"
    Ids = {id1, id2}
    IdsCollide = TRUE
    MaxSinks = 2
    MaxEdits = 1
    MaxRestarts = 1
SYMMETRY Symmetry
INVARIANTS TypeOK DefaultsRescue RemovedNotCalled CallbacksRemovable
PROPERTY WorkingConfigKept
CHECK_DEADLOCK FALSE
