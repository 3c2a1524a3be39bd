SPECIFICATION FairTimerSpec
CONSTANTS
    Threads = {t1, t2}
    MaxStarts = 2
    MaxFires = 2
CHECK_DEADLOCK FALSE
INVARIANTS
    CounterIsExact
    NoStrayTimer
    LiveThreadHasTimer
PROPERTIES
    HandlerReturns
