\* One agent job, two laptops sharing a token: every way a claim can change hands.
CONSTANTS
  r1 = r1
  app = app
  NoRunner = NoRunner
  NoFile = NoFile
  Earlier = Earlier
  AgentJobs = {aj}
  Runners = {r1}
  Laptops = {mac, pc}
  StaleLaptops = {}
  Jobs = {app}
  Kinds = {"cv", "cover"}
  TokenOf <- OneToken
  JobOf <- OneTarget
  MaxAttempts = 2
  ByCreatedAt = TRUE
  MaxStamp = 1
  MaxFailures = 1
  MaxCrashes = 0
SPECIFICATION Spec
SYMMETRY LaneSymmetry
INVARIANTS
  LaneTypeOK
  DoneMeansDelivered
PROPERTIES
  ArtifactOnlyUnderNewestClaim
  DrivesQueue
CHECK_DEADLOCK FALSE
