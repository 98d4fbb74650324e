SPECIFICATION FairSpec
CONSTANTS
  tab1 = tab1
  tab2 = tab2
  Tab <- MCTab
  Scenario <- MCScenario
  None = None
INVARIANTS
  OneLiveToken
  DeactivationEndsSessions
PROPERTIES
  PhoneStaysSignedIn
  DeadTokenIsDropped
CHECK_DEADLOCK FALSE
