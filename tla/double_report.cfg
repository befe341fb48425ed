CONSTANTS
  Proc = {p}
  Nobody = nobody
  Roles <- MCRoles
  Ends <- AllComplete
  Approvals = {"owner_decision"}
  MaxCrashes = 0
SPECIFICATION GoalSpec
INVARIANT ParentReportsAlone
CHECK_DEADLOCK FALSE
