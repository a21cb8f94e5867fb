CONSTANTS
  TimeStep = 150
  MaxTime = 600
  BatchInputs <- MC_BatchInputs
  MaxFeedback = 6
  AckedInputs <- MC_AckedInputs
  ProbeInputs <- MC_ProbeInputs
  StartInputs <- MC_StartInputs
  MinInputs <- MC_MinInputs
  RttInputs <- MC_RttInputs
SPECIFICATION Spec
\* A batch on which Update reads the empty link capacity aborts the
\* process; the aborted state has no successor.
CHECK_DEADLOCK FALSE
INVARIANTS
  TypeOK
  EstimateAboveMin
  NoDeltaReachesTrendline
PROPERTIES
  RisesOnlyByProbe
