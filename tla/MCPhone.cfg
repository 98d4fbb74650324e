SPECIFICATION PhoneSpec
CONSTANTS
  WorkOrder = {1, 2, 3}
  Puller = {"foreground", "background"}
  Background = {"background"}
  Untouched = {3}
  Limit = 1
  MaxPages = 3
  MaxChanges = 2
  MaxAging = 1
  MaxFailures = 1
  MaxDisturbances = 2
  LOCATION_BATCH_MAX = 1
  MaxFixes = 2
  MaxCalls = 2
  MaxSwitches = 4
  MaxTroubles = 1
INVARIANTS
  NothingBehindCursor
  FixesAreKept
  TrackingFollowsDecision
PROPERTIES
  ListCatchesUp
