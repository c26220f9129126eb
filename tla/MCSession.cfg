CONSTANTS
  BanksOf <- MCBanksOf
  MaxDevices = 2
  NumParts = 1
  StartDelay = 0
  TxMax = 4
  Images <- MCImages
  Chain <- MCChain
  InBootloader = {}
  IdentOrder <- MCIdentOrder
  Budgets <- MCBudgets
SPECIFICATION Spec
INVARIANTS TypeOK ChainKnown NeverInVain OneAtATime ValidIsTrue NeverTorn
PROPERTIES ImplementsSettings ReadComplete WriteComplete
CHECK_DEADLOCK FALSE
