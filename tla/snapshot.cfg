SPECIFICATION Spec
CONSTANTS
  None = None
  l1 = l1
  l2 = l2
  cust = cust
  carr = carr
  Files <- MCFiles
  Malformed = {"bad"}
  SyncAt <- MCSyncAt
  Lines <- MCLines
  Snapshots <- MCSnapshots
  LoadOf <- MCLoadOf
  ModifiedAt <- MCModifiedAt
  StatusOf <- MCStatusOf
  PartyFacts <- MCPartyFacts
  Loads = {l1, l2}
  Parties = {cust, carr}
  Names = {"n1", "n2"}
  Contacts = {"c1", "c2"}
INVARIANTS
  TypeOK
  CurrentIsLatest
  ProjectionShowsCurrent
  FilesAllOrNothing
  CountersMatchFacts
  SupersessionIsATree
  DeliveryOrderIrrelevant
PROPERTIES
  FactsAreImmutable
  VerdictsAreFinal
  RegressionsAreRecorded
  RebuildKeepsLoads
  ImplementsCurrentView
