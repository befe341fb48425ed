\* One finalizer that is never killed: a panel is blocked, the owner decides, it is run again.
CONSTANTS
  p1 = p1  p2 = p2  f1 = f1  g1 = g1  m1 = m1  m2 = m2
  PanelSize = 3
  File = {f1}
  OtherFile = {g1}
  Mode = {m1, m2}
  Process = {p1}
  Requests = {"words"}
  Answers <- AnswersOfThree
  Packet <- Packets
  MaxStarts = 2
  MaxCrashes = 0
  MaxLeases = 0
  MaxEdits = 0
SPECIFICATION Spec
INVARIANT RetryCanEnd
CHECK_DEADLOCK FALSE
