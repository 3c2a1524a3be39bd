SPECIFICATION Spec
CONSTANTS
    Callers = {c1, c2}
    MaxCalls = 2
SYMMETRY CallerSymmetry
INVARIANTS
    GuardProtects
    
    TogglesAgree

    
