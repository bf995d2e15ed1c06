\* The parts of the server that share no state, one at a time.
CONSTANTS
  \* VaultSync
  Task = task
  Runs = {task, hand}
  Jobs = {j1}
  Names = {cv}
  Bytes = {x, y}
  UnsafeNames = {}
  Absent = Absent
  RowText = RowText
  MaxCopies = 2
  MaxEdits = 1
  MaxFaults = 1
  MaxByHand = 1
  \* ExportSnapshot
  SnapRows = {row}
  SnapFiles = {file}
  Domains = {tasks, requests}
  Tasks = tasks
  Blobs = {blob}
  Keep = 1
  MaxSnapEdits = 2
  MaxSnapshots = 2
  \* TrackPacks
  r1 = r1
  r2 = r2
  Kinds = {resume}
  Docs = {"d", "e"}
  Tracks = {"t"}
  PackRows = {r1, r2}
  MaxSignals = 1
  MaxPuts = 1
  MaxAttempts = 2
  MaxLookups = 2
  MaxRestarts = 1
  \* AuthFailures
  Addresses = {ip1, ip2}
  Quiet = Quiet
  MaxFailures = 2
  Threshold = 2
  DurableCap = 3
  TailLines = 5
  WindowTicks = 2
  MaxBad = 5
  MaxWindows = 2
  MaxOther = 1
  MaxBoots = 1
  \* SourceDesk
  Proposals = {p1, p2}
  Scouts = {scout1, scout2}
  None = None
  MaxClicks = 3
  MaxDesk = 2
  \* ApifyRuns
  Feeds = {f1, f2}
  MonthlyCap = 2
  SweepCap = 1
  MaxSlots = 2
  MaxHistory = 2
  MaxPaid = 4
  MaxRemoved = 1
  \* RunProgress: PgStore, which keeps every line
  LastLine = 5
  LongLines = {}
  Capped = FALSE
  Cap = 1
  \* RunPanel: the laptop runner, whose queue has room for one
  a = a
  PanelJobs = {a}
  Dispatch = "runner"
  PanelSlots = 1
  RowAttempts = 2
  PanelInflight = 1
  BatchSizes = {1}
  MaxRuns = 2
  MaxRows = 2
  OwnerEdits = {"submitted"}
  DraftGaps = {"older", "agent"}
  \* SourceRuns: two scrapes that may find the same postings
  s1 = s1
  s2 = s2
  l1 = l1
  l2 = l2
  Sources = {s1, s2}
  Links = {l1, l2}
  Dispatches = {"local", "runner"}
  SourceInflight = 2
  MaxScrapes = 2
  \* ActivityFeed: a single run and one in a batch
  ra = ra
  rb = rb
  FeedRuns = {ra, rb}
  BatchRuns = {rb}
  Tickets = {ticket}
  HasLogFile = TRUE
  MaxRunning = 1
  Tolerance = 1
  MaxTicks = 1
  MaxLost = 1
  MaxChanges = 2
  MaxReconciles = 1
  MaxReads = 1
  \* MigrateData: the owner runs it twice
  m1 = m1
  m2 = m2
  Migrations = {m1, m2}
  Streams = {"activity"}
  Order <- MigrateOrder
  Inventoried = {"tasks"}
  Unwritten = Unwritten
  Broken = Broken
  MaxMoves = 1
  MaxBreaks = 1
  \* DemoMode
  DemoDrafted = {"far"}
  DemoFinds = {find}
  DemoRuns = {d1, d2}
  Lines = 1
  WriteCap = 2
  MaxResets = 1
  MaxKills = 1
  \* PgBridge: two transactions and a single statement
  h1 = h1
  h2 = h2
  h3 = h3
  Handlers = {h1, h2, h3}
  Transactions = {h1, h2}
  Nobody = Nobody
  MaxTimeouts = 1
  MaxDeaths = 1
  MaxRefused = 1
  \* TaskBoard: over the files and over Postgres
  i1 = i1
  i2 = i2
  Stores = {"file", "pg"}
  Images = {i1, i2}
  ImageCap = 1
  Spawned = {link}
  MaxPosts = 2
  MaxWrites = 2
  MaxMishaps = 1
  MaxTime = 2
  \* JobFiles
  LocalRoutines = {"first-draft-job", "interview-prep"}
  DemoCap = 2
  MaxStored = 3
  MaxLaunches = 2
  MaxDays = 2
  \* NightlyDraft: from the evening before the clocks change to the second night
  NightJobs = {j1}
  Deadlines = {1, 2}
  DraftCap = 1
  WindowDays = 1
  ServerOffset = 0
  Changes = {"spring", "fall"}
  ChangeDay = 1
  FirstHour = 27
  LastHour = 55
  MaxFires = 1
  MaxUps = 1
  MaxFailed = 1
SPECIFICATION ServerSpec
INVARIANTS
  ServerTypeOK
  SyncTellsTruth
  TranscriptIsWhole
  SnapshotsAreMoments
  ReuseIsTold
  BellTellsTruth
  NothingDangles
  ProvenanceIsTrue
  SpendWithinCap
  
  FiledOnce
  TicketsAreWhole
PROPERTIES
  NothingTakenBack
  AdvancesOnEvidence
  
CHECK_DEADLOCK FALSE
