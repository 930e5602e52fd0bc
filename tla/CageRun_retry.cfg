CHECK_DEADLOCK FALSE
SPECIFICATION Spec
CONSTANTS
  None = None
  Runs = {r1}
  Runners = {p1}
  PageLimit = 1
  ListLimit = 1
  Requests = {"ban", "hold", "pause_run", "resume_run", "kill_run", "quarantine_run"}
  MaxCommands = 1
  MaxRequests = 0
  MaxFaults = 1
INVARIANT FailedClaimIsRetried
