CONSTANTS
  Workers = {w1, w2}
  strict = strict
  deny = deny
  empty = empty
  t1 = t1
  t2 = t2
  Params = {empty, strict}
  NilParams = NilParams
  EmptyParams = empty
  Tenants = {t1}
  TenantCfgs = {deny}
  NilCfg = NilCfg
  Absent = Absent
  Infos <- MCInfos
  NoTenant = NoTenant
  Keys = {"users", "bogus"}
  KeyOfShape <- MCKeyOfShape
  SchemaRejects <- MCRejects
  Policy <- MCPolicy
  Confs <- MCConfs
  NoEntry = NoEntry
  MaxTime = 1
  MaxUpdates = 1
SPECIFICATION FairSpec
INVARIANTS
  TypeOK
  DecisionJustified
  StaleForLessThanTTL
  AuditOnlyObserves
PROPERTIES
  EveryEvaluationDecides
  ImplementsPolicyGate
