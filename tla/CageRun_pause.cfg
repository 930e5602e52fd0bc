CHECK_DEADLOCK FALSE
SPECIFICATION Spec
CONSTANTS
  None = None
  Runs = {r1}
  Runners = {p1}
  PageLimit = 2
  ListLimit = 1
  Requests = {"ban", "hold", "pause_run", "resume_run", "kill_run", "quarantine_run"}
  MaxCommands = 2
  MaxRequests = 1
  MaxFaults = 0
PROPERTY PausedSurvives
