\* The screens, one at a time.
CONSTANTS
  None = None
  MaxFails = 1
  \* Decisions: one tab, and a page that closes when it is told to
  Tabs = {b1}
  Tasks = {t1, t2}
  SnoozeDays = 1
  UnloadSurvived = FALSE
  MaxResolves = 2
  MaxEdits = 1
  MaxLoads = 5
  MaxDays = 2
  \* ChatCapture: two images, and room for one
  Images = {i1, i2}
  MaxAttachments = 1
  Idle = Idle
  MaxTexts = 2
  MaxTickets = 2
  \* JobBoard
  Jobs = {a}
  MaxMoves = 1
  MaxTypes = 1
  MaxEvents = 1
  MaxCalls = 2
  \* TriageInbox
  Finds = {f1, f2}
  MaxClicks = 2
  \* JobChat
  c1 = c1
  c2 = c2
  ChatJobs = {c1, c2}
  CanSpawn = TRUE
  MaxSends = 3
  MaxFailures = 1
  MaxOpens = 3
  \* RunDock: a run and a batch of one, on every leg
  d1 = d1
  d2 = d2
  DockRuns = {d1, d2}
  DockBatch = {d2}
  Vias = {"local", "runner", "source"}
  NotFoundStreak = 2
  MaxBoots = 1
  MaxRequeues = 1
  \* TelemetryBeacon
  Surfaces = {"board"}
  FlushAt = 2
  MaxBatch = 3
  Window = 1
  InFiles = TRUE
  MaxMade = 3
  MaxTicks = 1
  MaxLost = 1
  MaxKills = 1
  MaxReloads = 1
  \* FindsCache
  BookFinds = {find}
  Calls = {c1, c2, c3}
  MaxBookWrites = 2
  MaxJobs = 1
  MaxHolds = 1
  \* SourceRegistry: one lane, of which two runs are kept
  SourceNames = {name}
  RunCap = 2
  MaxRunning = 1
  Endings = {"succeeded", "failed"}
  MaxAgents = 3
  MaxSourceEdits = 2
  MaxReports = 1
  MaxRunDays = 2
SPECIFICATION ClientSpec
INVARIANTS
  ClientTypeOK
  DoneOnce
  ReportsAreTrue
  
  
CHECK_DEADLOCK FALSE
