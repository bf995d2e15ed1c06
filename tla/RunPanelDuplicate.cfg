\* The reason given for the run lock, against what it guards.
CONSTANTS
  a = a
  Jobs = {a}
  Dispatch = "runner"
  MaxRunning = 1
  MaxInflight = 2
  MaxAttempts = 1
  BatchSizes = {1}
  MaxRuns = 2
  MaxRows = 2
  OwnerEdits = {}
  DraftGaps = {"older"}
SPECIFICATION Spec
INVARIANTS
  OneLiveAgent
CHECK_DEADLOCK FALSE
