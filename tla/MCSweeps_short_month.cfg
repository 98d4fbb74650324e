SPECIFICATION Spec
CONSTANTS
  Active = {"recurring"}
  NoDate = NoDate
  Safety = 100
  Replica = {r1}
  Interval = {1}
  DaysOfWeek = {{0, 3}}
  DaysOfMonth = {{31}}
  Start = {50}
  End = {NoDate}
  FirstDay = 44
  LastDay = 62
  MaxEdits = 0
  MaxMisses = 0
  MaxDeliveries = 2
  MaxAttempts = 2
  CONSECUTIVE_FAILURE_LIMIT = 2
  MaxAdmin = 1
  MaxOrphans = 1
  Reminder = {m1, m2}
  ReminderReplica = {r1, r2}
  Channel = {"inApp", "email"}
  MaxFaults = 1
  SlaWorkOrder = {w1, w2, w3}
  SlaScan = {p1, p2}
  BATCH_LIMIT = 2
  MaxMoves = 3
  MaxDeaths = 1
INVARIANTS
  ScheduleAdvances
CHECK_DEADLOCK FALSE
