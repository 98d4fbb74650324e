SPECIFICATION FairSpec
CONSTANTS
  Technician = {t1}
  Staff = {s1, s2}
  Line = {l1}
  None = None
  minStock = 2
  Amount = {1}
  MaxQuantity = 2
  MaxOpen = 2
INVARIANTS
  TypeOK
  QuantityIsJournal
  UsageIsOnWorkOrders
PROPERTIES
  OneAlertPerCrossing
  TransactionsEnd
