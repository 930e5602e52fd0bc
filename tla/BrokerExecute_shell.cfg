SPECIFICATION Spec
CONSTANTS
    Calls = {k1}
    Approvals = {a1}
    Actions = {write, masked}
    Mutates = {write}
    Writes = {write, masked}
    NULL = NULL
    MaxOps = 0
    MaxFaults = 0
INVARIANT EveryWriteIsPaid
CHECK_DEADLOCK FALSE
