CONSTANTS
  Workers = {w1, w2}
  strict = strict
  deny = deny
  empty = empty
  t1 = t1
  t2 = t2
  Params = {empty, strict}
  NilParams = NilParams
  EmptyParams = empty
  Tenants = {t1, t2}
  TenantCfgs = {deny}
  NilCfg = NilCfg
  Absent = Absent
  Infos <- TwoTenants
  NoTenant = NoTenant
  Keys = {"users", "bogus"}
  KeyOfShape <- MCKeyOfShape
  SchemaRejects <- MCRejects
  Policy <- MCPolicy
  Confs <- Enforcing
  NoEntry = NoEntry
  MaxTime = 0
  MaxUpdates = 1
SPECIFICATION Spec
INVARIANTS
  OwnRulesDecide
