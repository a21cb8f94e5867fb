CONSTANTS
  PacketInputs <- MC_PacketInputs
  RateInputs <- MC_RateInputs
  ProbeRateInputs <- MC_ProbeRateInputs
  Lateness <- MC_Lateness
  QueueTimeLimit = 20
  MaxQueue = 2
  MaxClusters = 1
SPECIFICATION FairSpec
INVARIANTS
  TypeOK
  QueueDelayBounded
PROPERTIES
  MarkedPacketSent
