CONSTANTS
  r1 = r1
  app = app
  NoRunner = NoRunner
  NoFile = NoFile
  Earlier = Earlier
  AgentJobs = {a1, a2}
  Runners = {r1}
  Laptops = {mac}
  StaleLaptops = {mac}
  Jobs = {app}
  Kinds = {"cv"}
  TokenOf <- OneToken
  JobOf <- OneTarget
  MaxAttempts = 2
  ByCreatedAt = TRUE
  MaxStamp = 2
  MaxFailures = 0
  MaxCrashes = 1
SPECIFICATION FairSpec
INVARIANTS
  DoneHasEveryKind
PROPERTIES
  EveryJobSettles
CHECK_DEADLOCK FALSE
