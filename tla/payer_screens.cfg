SPECIFICATION FairSpec
CONSTANTS
  Losses = {"record"}
  MaxIdentities = 1
  MaxAccounts = 3
  MaxFaults = 2
INVARIANTS TypeOK
PROPERTIES NeverSignsAfterLoss DepositComesBack PaysAgain
CHECK_DEADLOCK FALSE
