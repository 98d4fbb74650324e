SPECIFICATION Spec
CONSTANTS
  Request = {r1, r2, r3}
  Key = {k1, k2}
  Hash = {h1, h2}
  None = None
  Faults = {"crash", "complete", "release", "slow", "ttl"}
SYMMETRY RequestSymmetry
INVARIANTS
  NoPhantomSuccess
CHECK_DEADLOCK FALSE
