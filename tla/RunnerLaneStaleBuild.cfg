\* A stale runner build, which reports its agent's exit code alone.
CONSTANTS
  r1 = r1
  app = app
  NoRunner = NoRunner
  NoFile = NoFile
  Earlier = Earlier
  AgentJobs = {a1}
  Runners = {r1}
  Laptops = {mac}
  StaleLaptops = {mac}
  Jobs = {app}
  Kinds = {"cv"}
  TokenOf <- OneToken
  JobOf <- OneTarget
  MaxAttempts = 2
  ByCreatedAt = TRUE
  MaxStamp = 1
  MaxFailures = 0
  MaxCrashes = 0
SPECIFICATION Spec
SYMMETRY LaneSymmetry
INVARIANTS
  DoneMeansDelivered
CHECK_DEADLOCK FALSE
