CONSTANTS
  Proc = {p, q}
  Nobody = nobody
  Roles <- MCRoles
  Ends <- AllComplete
  Approvals = {"owner_decision"}
  MaxCrashes = 0
SPECIFICATION GoalSpec
PROPERTY FinishedStaysFinished
CHECK_DEADLOCK FALSE
