\* One call that leaves a fix pending, two runs of the fix runner, one crash.
CONSTANTS
  p1 = p1  p2 = p2  f1 = f1  f2 = f2  e1 = e1  e2 = e2  m1 = m1  m2 = m2
  PanelSize = 3
  File = {f1, f2}
  OtherFile = {}
  Mode = {m1, m2}
  Process = {p1, p2}
  Requests = {"files"}
  Edit = {e1, e2}
  FileOf <- FilesOf
  Whole = {e1, e2}
  Extending = {e2}
  Packets <- PacketThatExtends
  Collected <- PanelFindings
  MaxStarts = 3
  MaxRuns = 2
  MaxCrashes = 1
  MaxEdits = 1
SPECIFICATION Spec
SYMMETRY Callers
INVARIANTS FixesAreNotReplayed
CHECK_DEADLOCK FALSE
