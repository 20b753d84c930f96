CONSTANTS
  Requests <- MCRequests
  EmptyQuery = ""
  Parses <- MCParses
  UpstreamStatuses <- MCStatuses
SPECIFICATION Spec
INVARIANTS
  EvaluatedForTenant
CHECK_DEADLOCK FALSE
