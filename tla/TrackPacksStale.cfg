\* Facts, packs and the agents that build them.
CONSTANTS
  r1 = r1
  r2 = r2
  Absent = Absent
  Kinds = {resume}
  resume = resume
  Docs = {"d", "e"}
  Tracks = {"t"}
  Rows = {r1, r2}
  MaxSignals = 1
  MaxPuts = 1
  MaxAttempts = 2
  MaxLookups = 3
  MaxRestarts = 1
SPECIFICATION Spec
INVARIANT PackMatchesFacts
CHECK_DEADLOCK FALSE
