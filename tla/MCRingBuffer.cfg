SPECIFICATION FairSpec
CONSTANTS
    Writers = {w1, w2}
    NoWriter = NoWriter
    DataWords = 8
    SampleWords = 2
    MaxPos = 15
INVARIANTS
    SampleIntact
    IInv
PROPERTIES
    ImplementsQueue
    CommittedIsRead
