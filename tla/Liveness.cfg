\* The parts that owe progress, one at a time.
CONSTANTS
  \* VaultSync: the task and a run by hand, a kill or a lost call, an edit
  Task = task
  Runs = {task, hand}
  Jobs = {j1}
  Names = {cv}
  Bytes = {x}
  UnsafeNames = {}
  Absent = Absent
  RowText = RowText
  MaxCopies = 1
  MaxVaultEdits = 1
  MaxFaults = 1
  MaxByHand = 1
  \* AuthFailures
  Addresses = {ip1, ip2}
  Quiet = Quiet
  MaxFailures = 2
  Threshold = 2
  DurableCap = 3
  TailLines = 3
  WindowTicks = 2
  MaxBad = 4
  MaxWindows = 2
  MaxOther = 0
  MaxBoots = 1
  \* SignIn
  Tabs = {b1, b2}
  MinCredentials = 2
  MaxCredentials = 3
  MaxEnrolments = 1
  \* Decisions
  DeskTabs = {b1}
  DeskTasks = {t1}
  NoTask = NoTask
  SnoozeDays = 1
  UnloadSurvived = FALSE
  MaxResolves = 2
  MaxEdits = 1
  MaxLoads = 4
  MaxFails = 1
  MaxDays = 2
  \* LiveView
  MaxWrites = 2
  MaxDrops = 1
  MaxHides = 1
  MaxErrors = 1
  \* RunPanel: the laptop runner, whose queue has room for one
  PanelJobs = {a}
  Dispatch = "runner"
  MaxRunning = 1
  PanelInflight = 1
  MaxAttempts = 2
  BatchSizes = {1}
  MaxRuns = 2
  MaxRows = 2
  OwnerEdits = {"submitted"}
  DraftGaps = {"older"}
  \* SourceRuns
  Sources = {s1, s2}
  Links = {l1}
  Dispatches = {"local", "runner"}
  SourceInflight = 2
  MaxScrapes = 2
  \* RunDock: one run
  DockRuns = {d1}
  DockBatch = {}
  Vias = {"local", "runner", "source"}
  NotFoundStreak = 2
  MaxRequeues = 1
SPECIFICATION LivenessSpec
PROPERTIES
  SyncAccounts
  ServedAgain
  EveryTabGetsIn
  ParkedIsShown
  TabCatchesUp
  EveryRunEnds
CHECK_DEADLOCK FALSE
