SPECIFICATION FairSpec
CONSTANTS
    t1 = t1
    Threads = {t1}
    Sampler = Sampler
    NoThread = NoThread
    MaxAppSignals = 2
    SpuriousWakeups = TRUE
    SigactionMayFail = TRUE
INVARIANTS IInv NotDestroyedWhileSampled
PROPERTIES ThreadDestroyedReturns
CHECK_DEADLOCK FALSE
