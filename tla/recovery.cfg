CONSTANTS
  Proc = {p, q}
  Nobody = nobody
  Reservation = {}
  Message = {}
  None = none
  LastStep = 1
  StaleAfter = 0
  ReminderAfter = 0
  LeaseSeconds = {1, 2}
  MaxIds = 4
  MaxNow = 2
  MaxCrashes = 1
  Asked = {"running", "blocked", "completed_unreported"}
  Notes = {"owner_decision"}
SPECIFICATION RecoverySpec
SYMMETRY ProcSymmetry
INVARIANTS
  TypeOK
  TornWritesAreMarked
  IndexIsBacked
  LeaseBooksBalance
  OneMarker
  IndexIsAChain
  BlockedNeedsDecision
  LeaseIsSpentOnce
  TerminalIsReleased
  ScanSeesTornWrites
PROPERTIES
  LeaseIsExclusive
  LeaseFencesCommits
  TornMeansFrozen
CHECK_DEADLOCK FALSE
