\* Two finalizers, two calls, one crash, one lease and one edit of the file.
CONSTANTS
  p1 = p1  p2 = p2  f1 = f1  g1 = g1  m1 = m1  m2 = m2
  PanelSize = 3
  File = {f1}
  OtherFile = {g1}
  Mode = {m1, m2}
  Process = {p1, p2}
  Requests = {"plan_only", "files", "words"}
  Answers <- AnswersOfThree
  Packet <- Packets
  MaxStarts = 2
  MaxCrashes = 1
  MaxLeases = 1
  MaxEdits = 1
SPECIFICATION Spec
SYMMETRY Finalizers
INVARIANTS TypeOK VerdictIsBacked FinishedIsDeliverable
PROPERTIES DeliverableIsKept StalledPanelIsFenced
CHECK_DEADLOCK FALSE
