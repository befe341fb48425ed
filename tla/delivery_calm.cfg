CONSTANTS
  Proc = {p, q}
  Nobody = nobody
  Reservation = {r}
  Message = {m, n}
  None = none
  LastStep = 0
  StaleAfter = 1
  ReminderAfter = 0
  LeaseSeconds = {1}
  MaxIds = 1
  MaxNow = 0
  MaxCrashes = 0
SPECIFICATION FairDeliverySpec
INVARIANTS
  ReportedIsAuditable
PROPERTIES
  EventuallyReported
CHECK_DEADLOCK FALSE
