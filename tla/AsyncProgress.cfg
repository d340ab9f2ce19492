\* Progress and order, with one worker per pool.
SPECIFICATION FairSpec
CONSTANTS
    Threads = {t1, t2}
    Main = main
    Workers = {w1}
    QueueSize = 2
    Modes = {"async"}
    MaxMsgs = 2
    MaxPools = 2
    MaxShutdowns = 1
INVARIANT ThreadOrder
PROPERTIES CallsReturn PostedIsWritten
CHECK_DEADLOCK FALSE
