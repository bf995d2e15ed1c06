\* The panel with local processes, and clicks, fan-outs and closes of two sources.
CONSTANTS
  PanelSlots = 1
  \* RunPanel
  a = a
  b = b
  PanelJobs = {a, b}
  Dispatch = "local"
  PanelInflight = 1
  RowAttempts = 1
  BatchSizes = {1, 2}
  MaxRuns = 3
  MaxRows = 4
  OwnerEdits = {}
  DraftGaps = {"older"}
  \* SourceRuns
  Sources = {a, b}
  Links = {}
  Dispatches = {"local", "runner"}
  SourceInflight = 2
  MaxScrapes = 3
SPECIFICATION RunsSpec
SYMMETRY RunsSymmetry
INVARIANTS
  OneAtATime
  
CHECK_DEADLOCK FALSE
