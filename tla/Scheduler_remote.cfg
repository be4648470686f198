SPECIFICATION Spec
CONSTANTS
    a = a
    b = b
    m = m
    x = x
    d = d
    e = e
    t1 = t1
    t2 = t2
    NoTask = NoTask
    Io <- ABM
    Multi <- M
    Cancel <- None
    Timer <- None
    TimerStop <- None
    Target <- NoTarget
    Queues <- TwoThreads
    Initial <- ThenM
    SqEntries = 2
    CqEntries = 2
    MaxMore = 1
INVARIANTS TotalIsOutstanding NewlyIsUntaken RingBounds GateExact NoneStranded NoLostWakeup
PROPERTY NotifySticks
