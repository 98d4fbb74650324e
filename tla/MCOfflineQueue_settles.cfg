SPECIFICATION FairSpec
CONSTANTS
  WorkOrder = {w1}
  Kinds = {"transition", "attachment"}
  MAX_ADDITIVE_RETRIES = 3
  MaxOps = 2
  MaxFailures = 1
  MaxAges = 1
  MaxTouches = 1
  MaxRetries = 1
  MaxPulls = 0
  MaxDisturbances = 4
PROPERTIES
  QueueSettles
