--------------------------- MODULE MCOfflineQueue ---------------------------
(* Small instances of OfflineQueue for TLC. *)
EXTENDS OfflineQueue

CONSTANT MaxDisturbances  \* bound: uses of the other bounds, together

(* A background pull, which interleaves with every other step, counts twice. *)
Disturbances ==
  (MaxFailures - budget.failures) + (MaxAges - budget.ages) + (MaxTouches - budget.touches)
    + (MaxRetries - budget.retries) + 2 * (MaxPulls - budget.pulls)

FewDisturbances == Disturbances' <= MaxDisturbances
=============================================================================
