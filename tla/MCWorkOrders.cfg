SPECIFICATION Spec
CONSTANTS
  WorkOrder = {w1}
  Technician = {t1, t2}
  Field = {}
  None = None
  LegacyRows = TRUE
  MaxCalls = 2
SYMMETRY TechnicianSymmetry
INVARIANTS
  StatusMatchesStep
  ExecutionIsRecorded
  OfferedIsAccepted
PROPERTIES
  TechniciansActOnOpenWork
