SPECIFICATION SpoolFairSpec
CONSTANTS
  Sizes = {1, 2}
  Budget = 3
  Threshold = 2
  ScanLimit = 3
  MaxRecords = 3
  MaxCrashes = 2
INVARIANTS
  CriticalNeverLost
  NormalLostOnlyByEviction
  CriticalInOrder
PROPERTIES
  CriticalDelivered
