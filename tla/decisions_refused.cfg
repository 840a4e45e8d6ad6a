SPECIFICATION Spec
CONSTANTS
  None = None
  t1 = t1
  t2 = t2
  Commands = {"c1"}
  Tenants <- MCTenants
  Versions = {"a1", "b1", "x1", "x2"}
  Loads <- MCLoads
  TenantOf <- MCTenantOf
  LoadOf <- MCLoadOf
  SyncAt <- MCSyncAt
  ModifiedAt <- MCModifiedAt
  StatusOf <- MCStatusOf
  IdOf <- MCIdOf
INVARIANTS
  NoActiveLoadIsRefused
