SPECIFICATION Spec
CONSTANTS
  t1 = t1 t2 = t2 t3 = t3 p1 = p1 p2 = p2 q1 = q1 q2 = q2 q3 = q3 m1 = m1
  NoTask = NoTask NoPid = NoPid NoAdapter = NoAdapter
  Project = {p1}
  Model = {m1}
  ProjectOf <- OneProject
  ModelOf <- OneModel
  AdapterOf <- Adapters
  Task = {t1, t2, t3}
  Pid = {q1, q2, q3}
  Worktree = {t1}
  ShortTimeout = {}
  SpawnFails = {}
  SubmitLane = {"p1"}
  Pressure = {"normal"}
  StagingRenames = TRUE
  MaxSlots = 3
  MaxAttempts = 2
  FailureThreshold = 3
  MaxCrashes = 0
  MaxCancels = 0
  MaxRetries = 0
  DependsOn <- NoDeps
SYMMETRY PidSymmetry
INVARIANTS
  WorkersExclusive
