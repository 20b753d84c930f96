CONSTANTS
  Docs <- SmallDocs
  Plural <- MCPlural
  ValueChildren <- MCValueChildren
  Hash = "hash"
  Types <- MCTypes
  Roots <- MCRoots
  Undef = Undef
  IntrospectionFields = {"__schema", "__typename"}
  NamePrefixes <- MCNamePrefixes
  NonBoolean = NonBoolean
  Settings <- Remote
  Endpoint = "http://opa"
  NoDecision = NoDecision
SPECIFICATION Spec
INVARIANTS
  EvaluatorsAgree
CHECK_DEADLOCK FALSE
