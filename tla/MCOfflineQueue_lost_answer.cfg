SPECIFICATION Spec
CONSTANTS
  WorkOrder = {w1}
  Kinds = {"transition"}
  MAX_ADDITIVE_RETRIES = 3
  MaxOps = 1
  MaxFailures = 1
  MaxAges = 0
  MaxTouches = 0
  MaxRetries = 0
  MaxPulls = 0
  MaxDisturbances = 1
INVARIANTS
  AppliedIsNotFailed
