\* A shutdown while another thread is inside a log call.
SPECIFICATION Spec
CONSTANTS
    Threads = {t1, t2}
    Main = main
    Workers = {w1}
    QueueSize = 1
    Modes = {}
    MaxMsgs = 1
    MaxPools = 1
    MaxShutdowns = 1
INVARIANT ShutdownDrains
CHECK_DEADLOCK FALSE
