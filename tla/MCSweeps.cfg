SPECIFICATION Spec
CONSTANTS
  Active = {"recurring", "webhooks", "reminders", "sla"}
  NoDate = NoDate
  Safety = 40
  Replica = {r1}
  Interval = {1, 2}
  DaysOfWeek = {{0, 3}}
  DaysOfMonth = {{}, {1, 15}}
  Start = {26}
  End = {NoDate, 58}
  FirstDay = 55
  LastDay = 59
  MaxEdits = 1
  MaxMisses = 1
  MaxDeliveries = 1
  MaxAttempts = 2
  CONSECUTIVE_FAILURE_LIMIT = 2
  MaxAdmin = 2
  MaxOrphans = 1
  Reminder = {m1, m2}
  ReminderReplica = {r1, r2}
  Channel = {"inApp", "email"}
  MaxFaults = 1
  SlaWorkOrder = {w1, w2, w3}
  SlaScan = {p1, p2}
  BATCH_LIMIT = 2
  MaxMoves = 2
  MaxDeaths = 1
PROPERTIES
  OneWorkOrderPerOccurrence
  NextRunIsNextOccurrence
  DueIsSpawned
  DeliveriesEnd
  RemindersEnd
INVARIANTS
  SuccessIsFinal
  SentOnce
  BreachIsAnnouncedOnce
CHECK_DEADLOCK FALSE
