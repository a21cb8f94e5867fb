CONSTANTS
  Packets <- MC_Packets
  NotAProbe <- MC_NotAProbe
SPECIFICATION Spec
CHECK_DEADLOCK FALSE
INVARIANTS
  TypeOK
  ProbeResultSound
  FirstSampleAfterInitialWindow
