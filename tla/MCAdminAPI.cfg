CONSTANTS
  Handlers = {h1, h2}
  empty = empty
  strict = strict
  cfg = cfg
  t1 = t1
  t2 = t2
  Params = {empty, strict}
  NilParams = NilParams
  EmptyParams = empty
  Tenants = {t1, t2}
  TenantCfgs = {cfg}
  NilCfg = NilCfg
  Absent = Absent
  Requests <- MCRequests
  TokenSet = TRUE
  Embedded = TRUE
  NoTenant = NoTenant
  NoRequest = NoRequest
  MaxClock = 5
SPECIFICATION Spec
INVARIANTS
  TypeOK
  NoUpdateIsLost
  RejectedLeavesNoTrace
  LoneUpdateRepairsGauge
CHECK_DEADLOCK FALSE
