SPECIFICATION Spec
CONSTANTS
  None = None
  t1 = t1
  t2 = t2
  Commands = {"c1", "c2"}
  Tenants <- MCTenants
  Versions = {"a1", "b1", "x1"}
  Loads <- MCLoads
  TenantOf <- MCTenantOf
  LoadOf <- MCLoadOf
  SyncAt <- MCSyncAt
  ModifiedAt <- MCModifiedAt
  StatusOf <- MCStatusOf
  IdOf <- MCIdOf
INVARIANTS
  SameIdentityIsReused
