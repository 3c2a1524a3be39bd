SPECIFICATION FairListSpec
CONSTANTS
    t1 = t1
    t2 = t2
    t3 = t3
    o1 = o1
    o2 = o2
    o3 = o3
    native = native
    ClrThreads = {t1, t2, t3}
    OsThreads = {o1, o2, o3, native}
    NativeThreads = {native}
    None = None
    MaxIterators = 1
INVARIANTS IndexesAgree NobodyOvertaken
PROPERTY SampledAgainAndAgain
