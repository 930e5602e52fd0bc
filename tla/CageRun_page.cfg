CHECK_DEADLOCK FALSE
SPECIFICATION FairSpec
CONSTANTS
  None = None
  Runs = {r1}
  Runners = {p1}
  PageLimit = 2
  ListLimit = 1
  Requests = {"resume_run", "kill_run"}
  MaxCommands = 4
  MaxRequests = 3
  MaxFaults = 1
PROPERTY KillIsNeverBuried
