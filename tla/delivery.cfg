CONSTANTS
  Proc = {p, q}
  Nobody = nobody
  Reservation = {r, s}
  Message = {m, n}
  None = none
  LastStep = 0
  StaleAfter = 1
  ReminderAfter = 0
  LeaseSeconds = {1}
  MaxIds = 1
  MaxNow = 2
  MaxCrashes = 2
SPECIFICATION DeliverySpec
SYMMETRY DeliverySymmetry
INVARIANTS
  DeliveryTypeOK
  AtMostOneSend
  ReportIsProved
PROPERTIES
  ProofIsFinal
  ReportsOnce
CHECK_DEADLOCK FALSE
