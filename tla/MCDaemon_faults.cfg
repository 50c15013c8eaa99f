SPECIFICATION Spec
CONSTANTS
  t1 = t1 t2 = t2 t3 = t3 p1 = p1 p2 = p2 q1 = q1 q2 = q2 q3 = q3 m1 = m1
  NoTask = NoTask NoPid = NoPid NoAdapter = NoAdapter
  Project = {p1, p2}
  Model = {m1}
  ProjectOf <- ProjectMap
  ModelOf <- OneModel
  AdapterOf <- Adapters
  Task = {t1, t2, t3}
  Pid = {q1, q2}
  Worktree = {}
  ShortTimeout = {}
  SpawnFails = {t3}
  SubmitLane = {"p0", "p1"}
  Pressure = {"normal", "stop"}
  StagingRenames = TRUE
  MaxSlots = 2
  MaxAttempts = 2
  FailureThreshold = 3
  MaxCrashes = 1
  MaxCancels = 1
  MaxRetries = 0
  DependsOn <- NoDeps
SYMMETRY PidSymmetry
INVARIANTS
  TypeOK
  SlotsOwned
  ActiveExclusive
  NothingLost
  SpawnsBounded
PROPERTIES
  Implements
