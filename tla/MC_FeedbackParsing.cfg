CONSTANTS
  StartSeq <- MC_StartSeq
  StartTicks <- MC_StartTicks
  TickSteps <- MC_TickSteps
  MaxStatuses = 3
  SmallDelta = 255
  LargeDelta <- MC_LargeDelta
  Cuts <- MC_Cuts
  FeedbackTimeMs = 50
  MaxFeedbacks = 2
SPECIFICATION Spec
CHECK_DEADLOCK FALSE
INVARIANTS
  TypeOK
  ReceivedPacketsMatchReport
  ParseStaysInBuffer
  BaseDeltaUnwraps
