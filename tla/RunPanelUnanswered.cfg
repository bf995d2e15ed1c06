\* What the readiness guard of a batch promises, against a draft nobody has looked at.
CONSTANTS
  a = a
  Jobs = {a}
  Dispatch = "runner"
  MaxRunning = 1
  MaxInflight = 2
  MaxAttempts = 1
  BatchSizes = {1}
  MaxRuns = 2
  MaxRows = 2
  OwnerEdits = {}
  DraftGaps = {"older", "agent"}
SPECIFICATION Spec
INVARIANTS
  ReadyMeansAnswered
CHECK_DEADLOCK FALSE
