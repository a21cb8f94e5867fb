CONSTANTS
  StartTime = 5000
  TimeStep = 250
  MaxTime = 5750
  MaxClusters = 2
  MaxNetworkChanges = 2
  Constraints <- MC_Constraints
  LossReports <- MC_LossReports
  RttInputs <- MC_RttInputs
  DelayResults <- MC_DelayResults
  MaxPackets = 1
  PacketSizes <- MC_PacketSizes
SPECIFICATION Spec
INVARIANTS
  ReportedFresh
  TargetPinnedAtMax
