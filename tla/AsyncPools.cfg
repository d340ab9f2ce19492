\* Reloads and a shutdown while two threads log; two workers share a queue.
SPECIFICATION Spec
CONSTANTS
    Threads = {t1, t2}
    Main = main
    Workers = {w1, w2}
    QueueSize = 1
    Modes = {"async", "sync"}
    MaxMsgs = 2
    MaxPools = 2
    MaxShutdowns = 1
SYMMETRY Symmetry
INVARIANTS TypeOK DrainedWhenJoined DestroyedOnce QuietShutdownDrains
CHECK_DEADLOCK FALSE
