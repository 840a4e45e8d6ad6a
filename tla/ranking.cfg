SPECIFICATION Spec
CONSTANTS
  None = None
  Carriers = {1, 2, 3}
  Lanes <- MCLanes
  Closeness <- MCCloseness
  Nearness <- MCNearness
  Proximity <- MCProximity
  Decay <- MCDecay
  Horizon = 8
  UnknownEquipment = {"UNKNOWN"}
  Loads = {"t", "a", "b", "c"}
  Stories <- MCStories
  MaxHeld = 1
INVARIANTS
  TypeOK
  ReplaysMatchLive
  EveryHistoryIsRanked
  EvidenceCountsOnce
  EveryCaseIsAccountedFor
  FitGroupsAreNarrow
