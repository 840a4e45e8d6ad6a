SPECIFICATION Spec
CONSTANTS
  None = None
  h1 = h1
  h2 = h2
  Files <- MCFiles
  SyncAt <- MCSyncAt
  BodiesIn <- MCBodiesIn
  RatesIn <- MCRatesIn
  Bodies = {"A", "B", "C"}
  LoadOf <- MCLoadOf
  ModifiedAt <- MCModifiedAt
  StatusOf <- MCStatusOf
  Loads = {h1, h2}
  RateIds = {1, 2, 3, 4, 5}
  Amounts <- MCAmounts
INVARIANTS
  TypeOK
  MoneyIsAccountedFor
PROPERTIES
  VersionsStateTheirLedger
  RebuildKeepsProjections
  VersionsShowThePast
