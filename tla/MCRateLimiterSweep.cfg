CONSTANTS
  Requests <- MCRequests
  None = None
  Rate = 1
  Cost = 2
  BurstFlag = 0
  DefaultBurst = 3
  MaxIdle = 3
  Period = 1
  NoBucket = NoBucket
  MaxTime = 5
SPECIFICATION Spec
INVARIANTS
  NominalRateBound
