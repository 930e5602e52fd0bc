SPECIFICATION Spec
CONSTANTS
    Calls = {k1, k2}
    Approvals = {a1}
    Actions = {write, read, masked}
    Mutates = {write}
    Writes = {write, masked}
    NULL = NULL
    MaxOps = 1
    MaxFaults = 1
SYMMETRY CallSymmetry
INVARIANTS
    RefusedIsUndone
    SuccessIsEvidenced
    BarredIsInert
PROPERTIES
    ImplementsGrants
CHECK_DEADLOCK FALSE
