SPECIFICATION Spec
CONSTANTS
  c1 = c1 r1 = r1
  Contract = {c1}
  ContractOf <- CutsOfOne
  Run = {r1}
  MaxTexts = 3
  MaxGates = 2
  MaxKills = 0
INVARIANTS
  JudgesExecutedText
CHECK_DEADLOCK FALSE
