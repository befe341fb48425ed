CONSTANTS
  Proc = {p, q}
  Nobody = nobody
  Reservation = {r}
  Message = {m, n}
  None = none
  LastStep = 1
  StaleAfter = 0
  ReminderAfter = 0
  LeaseSeconds = {1}
  MaxIds = 3
  MaxNow = 2
  MaxCrashes = 1
  Asked = {"running", "waiting_user", "completed_unreported"}
  Notes = {"progress"}
SPECIFICATION Spec
SYMMETRY WorkflowSymmetry
INVARIANTS
  ReservedOnlyWhenFinished
  ReportingAgrees
PROPERTIES
  TornMeansFrozen
  FinishedIsFrozen
  WorkflowReportsOnce
CHECK_DEADLOCK FALSE
