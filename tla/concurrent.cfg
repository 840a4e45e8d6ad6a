SPECIFICATION FairSpec
CONSTANTS
  None = None
  Unread = Unread
  Deleted = Deleted
  l1 = l1
  l2 = l2
  c1 = c1
  c2 = c2
  Sessions = {"p1", "p2"}
  Files = {"f1", "f2", "f3", "f4"}
  Snapshots <- MCSnapshots
  Loads = {l1, l2}
  Parties = {c1, c2}
  SyncAt <- MCSyncAt
  Lines <- MCLines
  LoadOf <- MCLoadOf
  ModifiedAt <- MCModifiedAt
  StatusOf <- MCStatusOf
  PartiesOf <- MixedParties
  Rebuilders = {"p2"}
  Beside = {"f3"}
INVARIANTS
  TypeOK
  ProjectionsAreWhole
PROPERTIES
  RebuildRepairs
  ImplementsCurrentView
  EveryCallEnds
