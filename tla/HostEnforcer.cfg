\* Two runs and a host that uses one pid again and again, so that a run's
\* registration can go stale under it; two commands of any action and target.
CONSTANTS
    Runs = {r1, r2}
    NumPids = 1
    PageLimit = 2
    MaxProcs = 2
    MaxCommands = 2
    MaxFaults = 1
    NULL = NULL
SPECIFICATION EnforcerSpec
PROPERTIES
    AckIsHonest
    CommandIsAnswered
CHECK_DEADLOCK FALSE
