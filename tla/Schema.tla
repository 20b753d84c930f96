------------------------------- MODULE Schema -------------------------------
(***************************************************************************)
(* SchemaInfo.Validate (internal/parser/parser.go): the recorded field     *)
(* paths of a query are looked up in the schema, each from the root type   *)
(* of the query's first operation.                                         *)
(*                                                                         *)
(* A path is the sequence of its segments: names have no dots, so joining  *)
(* them with dots and splitting them again loses nothing.  A type is a     *)
(* sequence, its list wrappers and then its name.                          *)
(***************************************************************************)
EXTENDS Naturals, Sequences

CONSTANTS
  Types,  \* Schema.Types: for each type name, its fields and their types
  Roots   \* Schema.Query, .Mutation and .Subscription, or NoType

NoType == "no type"

resolveNamedType(t) == IF t = <<>> THEN NoType ELSE t[Len(t)]

HasField(type, name) == type \in DOMAIN Types /\ name \in DOMAIN Types[type]

\* The type that a field of that name has on a type.
FieldType(type, name) ==
  IF HasField(type, name) THEN resolveNamedType(Types[type][name]) ELSE NoType

\* Mutant: every segment is looked up on the root type.
MutStepInto(type, name, root) == root

StepInto(type, name, root) == FieldType(type, name)

\* Every segment is a field of the type its predecessor leads to; where the last
\* one leads does not matter.
PathExists(root, path) ==
  LET typeAt[i \in 1..Len(path)] ==
        IF i = 1 THEN root ELSE StepInto(typeAt[i - 1], path[i - 1], root)
  IN \A i \in 1..Len(path) : HasField(typeAt[i], path[i])

\* Without a root type for the operation nothing is checked.
Validate(info) ==
  LET root == Roots[info.operationType] IN
  \/ root = NoType
  \/ \A i \in DOMAIN info.fieldPaths : PathExists(root, info.fieldPaths[i])

=============================================================================
