CONSTANTS
  Proc = {p, q}
  Nobody = nobody
  Reservation = {r, s}
  Message = {m, n}
  None = none
  LastStep = 0
  StaleAfter = 1
  ReminderAfter = 0
  LeaseSeconds = {1}
  MaxIds = 1
  MaxNow = 2
  MaxCrashes = 1
SPECIFICATION DeliverySpec
INVARIANT ReportedIsAuditable
CHECK_DEADLOCK FALSE
