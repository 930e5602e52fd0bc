SPECIFICATION SpoolSpec
CONSTANTS
  Sizes = {1}
  Budget = 3
  Threshold = 1
  ScanLimit = 3
  MaxRecords = 2
  MaxCrashes = 1
INVARIANT RestartReplays
