SPECIFICATION Spec
CONSTANTS
  Attempts = {a1, a2}
  NoAttempt = NoAttempt
  Params = {p1}
  NoHash = NoHash
  Nonces = {n1}
  NoNonce = NoNonce
  p1 = p1
  p2 = p2
  n1 = n1
  Requests <- RetriesAndNonces
  Risks = {"low", "medium"}
  Verdicts = {"allow", "require_approval", "quarantine"}
  DurableNonces = TRUE
  NoTime = NoTime
  Window = 1
  MaxTime = 1
  MaxCrashes = 1
SYMMETRY Symmetry
INVARIANTS OneOriginal EvidenceBeforeAnswer HighRiskIsRecorded
PROPERTY NonceOnce
