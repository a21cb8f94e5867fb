CONSTANTS
  TimeStep = 1000
  MaxTime = 3000
  InitConfig <- MC_InitConfig
  ConfigInputs <- MC_ConfigInputs
  DelayInputs <- MC_DelayInputs
  LossReports <- MC_LossReports
  RttInputs <- MC_RttInputs
SPECIFICATION Spec
PROPERTIES
  IncreaseBoundedByWindowMin
