\* A run's registration outlives its process, another run's process has the pid,
\* and a resume of the first undoes a pause of the second.
CONSTANTS
    Runs = {r1, r2}
    NumPids = 1
    PageLimit = 2
    MaxProcs = 2
    MaxCommands = 3
    MaxFaults = 0
    NULL = NULL
SPECIFICATION EnforcerSpec
PROPERTY PauseIsHonest
CHECK_DEADLOCK FALSE
