\* Two gateways, two of the three source tables.  A lease of two election
\* intervals, and a batch limit a backlog exceeds.
CONSTANTS
    Instances = {g1, g2}
    Streams = {decisions, alerts}
    Lease = 2
    Interval = 1
    Batch = 1
    MaxTime = 4
    MaxRows = 2
    MaxFaults = 1
    MaxCrashes = 1
    NULL = NULL
SPECIFICATION Spec
INVARIANTS
    LeaseIsExclusive
    TransferInTime
    CursorIsDelivered
PROPERTY StableLeaderDelivers
CHECK_DEADLOCK FALSE
