SPECIFICATION FairSpec
CONSTANTS
  Goal = {g1}
  Step = {1, 2}
  Deps <- Chain
  MaxSlots = 1
  Commands = {"approve", "pause", "resume", "cancel", "replan"}
  MaxCommands = 3
  MaxCrashes = 1
  MaxTaskCancels = 1
INVARIANTS
  TypeOK
  DoneIsEarned
  StepsInOrder
  SpentOnce
  DeadEndIsIdle
  QueuedOnce
PROPERTIES
  TerminalStays
  GoalSettles
CHECK_DEADLOCK FALSE
