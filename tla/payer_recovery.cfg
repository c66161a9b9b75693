SPECIFICATION FairSpec
CONSTANTS
  Losses = {"siteData"}
  MaxIdentities = 2
  MaxAccounts = 3
  MaxFaults = 1
PROPERTIES RecoveryIsLeft
CHECK_DEADLOCK FALSE
