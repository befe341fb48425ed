\* Two processes, three calls, one run of the fix runner, one crash, one outside edit.
CONSTANTS
  p1 = p1  p2 = p2  f1 = f1  f2 = f2  e1 = e1  e2 = e2  m1 = m1  m2 = m2
  PanelSize = 3
  File = {f1, f2}
  OtherFile = {}
  Mode = {m1, m2}
  Process = {p1, p2}
  Requests = {"files"}
  Edit = {e1, e2}
  FileOf <- FilesOf
  Whole = {e1, e2}
  Extending = {e2}
  Packets <- SomePackets
  Collected <- PanelFindings
  MaxStarts = 3
  MaxRuns = 1
  MaxCrashes = 1
  MaxEdits = 1
SPECIFICATION Spec
SYMMETRY Callers
INVARIANTS TypeOK SuccessIsInPlace FinishedIsDeliverable
PROPERTIES RunnerLeavesNoPart
CHECK_DEADLOCK FALSE
