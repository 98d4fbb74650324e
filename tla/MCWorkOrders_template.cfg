SPECIFICATION Spec
CONSTANTS
  WorkOrder = {w1}
  Technician = {t1}
  Field = {f1, f2}
  None = None
  LegacyRows = FALSE
  MaxCalls = 1
PROPERTIES
  TemplateFieldsAreMerged
