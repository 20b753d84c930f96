CONSTANTS
  Docs <- MCDocs
  Plural <- MCPlural
  ValueChildren <- MCValueChildren
  Hash = "hash"
  Types <- MCTypes
  Roots <- MCRoots
  Undef = Undef
  IntrospectionFields = {"__schema", "__typename"}
  NamePrefixes <- MCNamePrefixes
  NonBoolean = NonBoolean
  Settings <- MCSettings
  Endpoint = "http://opa"
  NoDecision = NoDecision
SPECIFICATION Spec
INVARIANTS
  TypeOK
  LinearWork
  EverySelectionCountedOnce
  WeightsAreCounted
  PathsAreRequested
  PathsHaveParents
  ValidateAgrees
  AllowedIsWithinCounts
  
CHECK_DEADLOCK FALSE
