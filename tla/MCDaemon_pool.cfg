SPECIFICATION FairSpec
CONSTANTS
  t1 = t1 t2 = t2 t3 = t3 p1 = p1 p2 = p2 q1 = q1 q2 = q2 q3 = q3 m1 = m1
  NoTask = NoTask NoPid = NoPid NoAdapter = NoAdapter
  Project = {p1, p2}
  Model = {m1}
  ProjectOf <- ProjectMap
  ModelOf <- OneModel
  AdapterOf <- Adapters
  Task = {t1, t2, t3}
  Pid = {q1, q2}
  Worktree = {}
  ShortTimeout = {t1}
  SpawnFails = {t3}
  SubmitLane = {"p1"}
  Pressure = {"normal"}
  StagingRenames = TRUE
  MaxSlots = 2
  MaxAttempts = 2
  FailureThreshold = 3
  MaxCrashes = 0
  MaxCancels = 0
  MaxRetries = 1
  DependsOn <- Chain
INVARIANTS
  SlotsAccounted
  WorkersExclusive
  OneProcessPerTask
  OneVerdict
PROPERTIES
  Implements
  Settles
