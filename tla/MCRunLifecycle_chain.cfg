SPECIFICATION FairSpec
CONSTANTS
  c1 = c1 r1 = r1
  Contract = {c1}
  ContractOf <- CutsOfOne
  Run = {r1}
  MaxTexts = 3
  MaxGates = 2
  MaxKills = 1
INVARIANTS
  TypeOK
  ReceiptAgrees
  AcceptEarned
  
  OnlyUnheardTaken
  ChainResolves
PROPERTIES
  RunSettles
CHECK_DEADLOCK FALSE
