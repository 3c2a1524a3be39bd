SPECIFICATION Spec
CONSTANTS
    Callers = {c1, c2}
    MaxCalls = 2
INVARIANT AlreadyStartedIsNoFailure
