SPECIFICATION FairSpec
CONSTANTS
  Request = {r1, r2, r3}
  Key = {k1, k2}
  Hash = {h1, h2}
  None = None
  Faults = {}
INVARIANTS
  TypeOK
  ExclusiveClaim
  AtMostOnce
  FaithfulReplay
  AcknowledgedIsRecorded
PROPERTIES
  ImplementsReplaySafety
  EveryRequestAnswered
CHECK_DEADLOCK FALSE
