SPECIFICATION Spec
CONSTANTS
  None = None
  Spots <- MCSpots
  Pauses = {0, 70, 122}
  MaxGenerate = 2
  MaxIngest = 2
  MaxFaults = 1
INVARIANTS
  TypeOK
  DeliveredIsAPrefix
  RefusalsAreOfUnknownLoads
  ProjectionsFollowLifecycle
CHECK_DEADLOCK FALSE
