CONSTANTS
  BanksOf <- MCBanksOf
  MaxDevices = 2
  NumParts = 1
  StartDelay = 0
  TxMax = 4
  Images <- MCImages
  Chain <- MCChain
  InBootloader <- MCLastBank
  IdentOrder <- MCIdentOrder
  Budgets <- MCOnce
SPECIFICATION FairSpec
PROPERTY ReadEnds
CHECK_DEADLOCK FALSE
