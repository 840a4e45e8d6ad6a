SPECIFICATION Spec
CONSTANTS
  None = None
  UnknownEquipment = {"UNKNOWN", "ABSENT"}
  Loads <- MCLoads
  HaulDesk = {"e"}
  Versions <- MCVersions
  RateRows <- MCRateRows
  Targets <- MCTargets
INVARIANTS
  QuantilesAreLeast
  EstimateIsWithinEvidence
  DisplayedEvidenceSuffices
  RaisesNeverLower
