SPECIFICATION Spec
CONSTANTS
  c1 = c1 r1 = r1
  Contract = {c1}
  ContractOf <- CutsOfOne
  Run = {r1}
  MaxTexts = 2
  MaxGates = 2
  MaxKills = 0
INVARIANTS
  ArchivedIsOver
CHECK_DEADLOCK FALSE
