SPECIFICATION ShieldSpec
CONSTANTS
    t1 = t1
    t2 = t2
    Threads = {t1, t2}
    Sampler = Sampler
    NoThread = NoThread
    MaxAppSignals = 0
    SpuriousWakeups = FALSE
    SigactionMayFail = TRUE
SYMMETRY Symmetry
INVARIANTS EintrOnlyAfterTimeout SampleIsOfTarget
CHECK_DEADLOCK FALSE
