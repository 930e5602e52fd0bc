SPECIFICATION Spec
CONSTANTS
    Calls = {k1}
    Approvals = {a1}
    Actions = {write, read}
    Mutates = {write}
    Writes = {write}
    NULL = NULL
    MaxOps = 0
    MaxFaults = 1
INVARIANT EvidenceSurvivesCrash
CHECK_DEADLOCK FALSE
