CONSTANTS
  Requests <- MCRequests
  EmptyQuery = ""
  Parses <- MCParses
  UpstreamStatuses <- MCStatuses
SPECIFICATION FairSpec
INVARIANTS
  TypeOK
  ForwardedOnlyIfAllAllowed
  AnswerMatchesRecord
PROPERTIES
  NoParserLeaks
  EveryRequestLeavesTheHandler
CHECK_DEADLOCK FALSE
