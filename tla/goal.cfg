CONSTANTS
  Proc = {p}
  Nobody = nobody
  Roles <- MCRoles
  Ends <- MCEnds
  Approvals = {"owner_decision"}
  MaxCrashes = 1
SPECIFICATION FairGoalSpec
INVARIANTS
  GoalTypeOK
  ParentIsDeliverable
  CreatedMeansLinked
  AcceptanceIsBacked
PROPERTIES
  ReportedBesideSilentChildren
  GoalFinishes
CHECK_DEADLOCK FALSE
