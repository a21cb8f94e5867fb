CONSTANTS
  StartTime = 5000
  TimeStep = 250
  MaxTime = 6000
  MaxClusters = 2
  MaxNetworkChanges = 1
  MaxPackets = 2
  Constraints <- MC_Constraints
  LossReports <- MC_NoLossReports
  RttInputs <- MC_NoRttInputs
  DelayResults <- MC_DelayResults
  PacketSizes <- MC_PacketSizes
SPECIFICATION Spec
INVARIANTS
  AlrStartPropagated
