SPECIFICATION FairSpec
CONSTANTS
    a = a
    b = b
    m = m
    x = x
    d = d
    e = e
    t1 = t1
    t2 = t2
    NoTask = NoTask
    Io <- ABM
    Multi <- M
    Cancel <- None
    Timer <- None
    TimerStop <- None
    Target <- NoTarget
    Queues <- NoThread
    Initial <- ThenAB
    SqEntries = 2
    CqEntries = 2
    MaxMore = 2
PROPERTIES LocalTasksResumed LoopEnds
CHECK_DEADLOCK FALSE
