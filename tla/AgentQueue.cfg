\* Three rows, two runners, claims in created_at order (PgStore).
CONSTANTS
  j1 = j1
  j2 = j2
  j3 = j3
  r1 = r1
  r2 = r2
  NoRunner = NoRunner
  AgentJobs = {j1, j2, j3}
  Runners = {r1, r2}
  MaxAttempts = 2
  ByCreatedAt = TRUE
  MaxStamp = 4
SPECIFICATION QueueSpec
SYMMETRY QueueSymmetry
INVARIANTS
  QueueTypeOK
  NonceIsNewestGrant
  QueuedRowIsClaimable
  ResultAppliedOnce
PROPERTIES
  SettledIsFinal
  ImplementsContract
CHECK_DEADLOCK FALSE
