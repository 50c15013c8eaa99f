SPECIFICATION FairSpec
CONSTANTS
  File = {"lib", "main", "util"}
  EntryPoint = {"lib", "main"}
  Fresh = {"main"}
  Tailed = {"lib", "util"}
  Version = {"v1"}
  MaxPasses = 3
  MaxRuns = 2
  MaxKills = 1
  MaxDamage = 1
INVARIANTS
  TypeOK
  TailKept
  
  DamageRepaired
  SuccessChecked
PROPERTIES
  RunEnds
CHECK_DEADLOCK FALSE
