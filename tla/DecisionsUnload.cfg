\* A tab whose page survives an unload the owner called off.
CONSTANTS
  Tabs = {b1}
  Tasks = {t1, t2}
  NoTask = NoTask
  SnoozeDays = 1
  UnloadSurvived = TRUE
  MaxResolves = 2
  MaxEdits = 1
  MaxLoads = 5
  MaxFails = 1
  MaxDays = 2
SPECIFICATION DeskSpec
INVARIANT ResolvedOnce
CHECK_DEADLOCK FALSE
