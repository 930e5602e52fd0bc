CHECK_DEADLOCK FALSE
SPECIFICATION Spec
CONSTANTS
  None = None
  Runs = {r1, r2}
  Runners = {p1}
  PageLimit = 2
  ListLimit = 1
  Requests = {"ban", "hold", "pause_run", "resume_run", "kill_run", "quarantine_run"}
  MaxCommands = 3
  MaxRequests = 1
  MaxFaults = 1
INVARIANT BanReachesRuns
