CONSTANTS
  TimeStep = 150
  MaxTime = 600
  BatchInputs <- MC_BatchInputs
  MaxFeedback = 6
  AckedInputs <- MC_AckedInputs
  ProbeInputs <- MC_ProbeInputs
  StartInputs <- MC_StartInputs
  MinInputs <- MC_MinInputs
  RttInputs <- MC_RttInputs
SPECIFICATION Spec
CHECK_DEADLOCK FALSE
INVARIANTS
  NoAbort
