SPECIFICATION FairSpec
CONSTANTS
    MaxSamples = 2
    MaxQueue = 1
INVARIANTS
    
    OneCollectorAtATime
    
PROPERTIES
    ShutdownReturns
    SampleGetsThrough
