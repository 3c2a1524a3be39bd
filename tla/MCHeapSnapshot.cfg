SPECIFICATION Spec
CONSTANTS
    MaxPauses = 2
    Interval = 2
    DelayFirstSnapshot = FALSE
    Batches = {"nodes"}
    MaxTime = 4
    MaxSessions = 2
INVARIANTS
    SnapshotIsOfOneDump
PROPERTIES
    EndsAreExact
    SnapshotsAreSpaced
    DumpSessionCloses
CHECK_DEADLOCK FALSE
