\* A run ends when the writer has stopped and no request is left.
CHECK_DEADLOCK FALSE
SPECIFICATION Spec
CONSTANTS
  a1 = a1
  a2 = a2
  a3 = a3
  b1 = b1
  A = A
  B = B
  Receipts = {a1, a2, a3, b1}
  Deferred = {a1, a2, b1}
  TenantOf <- OfTenant
  Genesis = Genesis
  Writer = Writer
  Nobody = Nobody
  Locking = FALSE
  Capacity = 2
  BatchSize = 2
  MaxCrashes = 1
INVARIANT NoFork
