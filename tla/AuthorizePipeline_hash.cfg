SPECIFICATION Spec
CONSTANTS
  Attempts = {a1, a2}
  NoAttempt = NoAttempt
  Params = {p1, p2}
  NoHash = NoHash
  Nonces = {n1}
  NoNonce = NoNonce
  p1 = p1
  p2 = p2
  n1 = n1
  Requests <- OneMutation
  Risks = {"low"}
  Verdicts = {"allow"}
  DurableNonces = TRUE
  NoTime = NoTime
  Window = 1
  MaxTime = 0
  MaxCrashes = 0
SYMMETRY Symmetry
INVARIANTS HashIsOfFinalCall
