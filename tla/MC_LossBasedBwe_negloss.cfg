CONSTANTS
  TimeStep = 1000
  MaxTime = 1000
  InitConfig <- MC_InitConfig
  ConfigInputs <- MC_ConfigInputs
  DelayInputs <- MC_DelayInputs
  LossReports <- MC_LossReportsNegative
  RttInputs <- MC_RttInputs
SPECIFICATION Spec
PROPERTIES
  DecreaseOnlyOnHighLoss
