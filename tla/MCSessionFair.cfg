CONSTANTS
  BanksOf <- MCBanksOf
  MaxDevices = 2
  NumParts = 1
  StartDelay = 0
  TxMax = 4
  Images <- MCImages
  Chain <- MCChain
  InBootloader = {}
  IdentOrder <- MCIdentOrder
  Budgets <- MCOnce
SPECIFICATION FairSpec
PROPERTIES ConnectEnds ReadEnds WriteEnds
CHECK_DEADLOCK FALSE
