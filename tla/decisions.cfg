SPECIFICATION Spec
CONSTANTS
  None = None
  t1 = t1
  t2 = t2
  Commands = {"c1"}
  Tenants <- MCTenants
  Versions = {"a1", "a2", "a3", "b1", "b2", "x1", "x2"}
  Loads <- MCLoads
  TenantOf <- MCTenantOf
  LoadOf <- MCLoadOf
  SyncAt <- MCSyncAt
  ModifiedAt <- MCModifiedAt
  StatusOf <- MCStatusOf
  IdOf <- MCIdOf
INVARIANTS
  TypeOK
  DecisionsReproduce
  EveryActiveLoadIsDecided
  NothingFromTheFuture
