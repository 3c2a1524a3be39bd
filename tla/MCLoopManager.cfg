SPECIFICATION FairSpec
CONSTANTS
    t1 = t1
    t2 = t2
    Threads = {t1, t2}
    NoThread = NoThread
    DeadlocksPerThreadThreshold = 1
    TotalDeadlocksThreshold = 2
    MaxSuspendCount = 2
    MaxPeriods = 2
    MaxStatistics = 1
INVARIANTS SafetyIsPerPeriod AbortIsForThisCollection NoThreadLeftSuspended
PROPERTY DeadlockIsBroken
CHECK_DEADLOCK FALSE
