SPECIFICATION Spec
CONSTANTS
  WorkOrder = {w1}
  Kinds = {"transition", "part_remove", "part_add", "signature"}
  MAX_ADDITIVE_RETRIES = 2
  MaxOps = 2
  MaxFailures = 1
  MaxAges = 1
  MaxTouches = 2
  MaxRetries = 1
  MaxPulls = 1
  MaxDisturbances = 3
ACTION_CONSTRAINT FewDisturbances
INVARIANTS
  AppliedAtMostOnce
  NothingLost
  InOrder
  NoSelfConflict
  AdditiveIsRetried
  ConsentBeforeReplay
