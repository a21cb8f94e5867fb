CONSTANTS
  StartTime = 5000
  TimeStep = 250
  MaxTime = 6750
  MaxClusters = 3
  ConfigInputs <- MC_ConfigInputs
  EstimateInputs <- MC_EstimateInputs
  AlrInputs <- MC_AlrInputs
SPECIFICATION Spec
INVARIANTS
  TypeOK
  WaitingBounded
  DropRecoveryNeverProbes
  FurtherProbingNeverArmed
