SPECIFICATION Spec
CONSTANTS
    t1 = t1
    Procs <- MCProcs
    Mutexes <- MCMutexes
    NoMutex <- MCNoMutex
    Threads = {t1}
    Sampled = {t1}
    PageSize = 2
    Code <- MCCode
    Module <- MCModule
    Precompiled = "r"
    Frames = {2, 3}
    Unnamed = {2, 3}
    MaxCalls = 2
INVARIANTS
    MutexInv
    
    HandlerWaitsForOthers
PROPERTIES
    ImplementsLock
    EveryCallReturns
