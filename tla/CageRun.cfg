CHECK_DEADLOCK FALSE
SPECIFICATION Spec
CONSTANTS
  None = None
  Runs = {r1}
  Runners = {p1, p2}
  PageLimit = 2
  ListLimit = 1
  Requests = {"ban", "hold", "pause_run", "resume_run", "kill_run", "quarantine_run"}
  MaxCommands = 3
  MaxRequests = 2
  MaxFaults = 1
SYMMETRY RunnerSymmetry
INVARIANTS
  ExecutedOnce
  AliveIsSupervised
  BanReachesRuns
  AckedKillIsDead
