CONSTANTS
  Types <- MCTypes
  BanksOf <- MCBanksOf
  DioInputs = 1
  Configs <- MCConfigs
  MaxRate = 2
SPECIFICATION FairSpec
INVARIANTS TypeOK MarkIsTrue SilenceNoticed
PROPERTIES NoFalseAlarm AskedAgain
