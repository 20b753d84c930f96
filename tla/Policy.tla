------------------------------- MODULE Policy -------------------------------
(***************************************************************************)
(* The shipped Rego policy (opa-policies/graphql.rego) as a set of denials *)
(* on an input document.                                                   *)
(*                                                                         *)
(* A field that is not in the input, or a key that is not in a map of it,  *)
(* is Undef.  In Rego an expression with an undefined part makes its rule  *)
(* not fire, and 0, "" and the empty array count as true; so a rule that   *)
(* compares asks for both sides to be defined, and nothing else.           *)
(*                                                                         *)
(* A field path is the sequence of its segments.  params and tenant_config *)
(* are partial functions of the keys; a list in them is a set.  Parameters *)
(* have the types the documentation gives them.                            *)
(***************************************************************************)
EXTENDS Integers, Sequences

CONSTANTS
  Undef,                \* undefined
  IntrospectionFields,  \* introspection_fields
  NamePrefixes          \* pairs <<p, n>>: the string p is a proper prefix of n

Get(map, key) == IF key \in DOMAIN map THEN map[key] ELSE Undef

Param(in, key) == Get(in.params, key)

Tenant(in, key) == Get(in.tenant_config, key)

Elements(list) == IF list = Undef THEN {} ELSE list

\* Mutant: a limit of zero counts as no limit.
MutExceeds(x, limit) == x # Undef /\ limit \notin {Undef, 0} /\ x > limit

Exceeds(x, limit) == x # Undef /\ limit # Undef /\ x > limit

LastSegment(path) == path[Len(path)]

\* startswith(path, prefix) on the dotted strings: the last segment of the
\* prefix may stop in the middle of one of the path's.
StartsWith(path, prefix) ==
  LET n == Len(prefix) IN
  /\ n <= Len(path)
  /\ \A i \in 1..(n - 1) : path[i] = prefix[i]
  /\ path[n] = prefix[n] \/ <<prefix[n], path[n]>> \in NamePrefixes

-----------------------------------------------------------------------------
(* The rules, in the order of the file.                                    *)

missing_field(in) ==
  {f \in {"depth", "field_count", "field_paths"} : in[f] = Undef}

introspection(in) ==
  \/ in.operation_name = "IntrospectionQuery"
  \/ \E p \in Elements(in.field_paths) : LastSegment(p) \in IntrospectionFields

depth_limit(in) == Exceeds(in.depth, Param(in, "depth_limit"))

max_field_count(in) == Exceeds(in.field_count, Param(in, "max_field_count"))

max_directives(in) == Exceeds(in.directives, Param(in, "max_directives"))

max_batch_size(in) == Exceeds(in.batch_size, Param(in, "max_batch_size"))

Blocked(in, list) == Elements(list) \cap Elements(in.field_paths) # {}

field_blocklist(in) == Blocked(in, Param(in, "field_blocklist"))

field_on_allowlist(path, list) == \E p \in list : StartsWith(path, p)

field_allowlist(in) ==
  LET list == Elements(Param(in, "field_allowlist")) IN
  list # {} /\ \E p \in Elements(in.field_paths) : ~field_on_allowlist(p, list)

blocked_operations(in) ==
  in.operation_type \in Elements(Param(in, "blocked_operations"))

allowed_operations(in) ==
  LET list == Elements(Param(in, "allowed_operations")) IN
  list # {} /\ in.operation_type \notin list

allowed_operation_names(in) ==
  LET list == Elements(Param(in, "allowed_operation_names")) IN
  /\ list # {}
  /\ in.operation_name # Undef
  /\ in.operation_name = "" \/ in.operation_name \notin list

max_argument_depth(in) ==
  Exceeds(in.argument_depth, Param(in, "max_argument_depth"))

max_lists_requested(in) ==
  Exceeds(in.lists_requested, Param(in, "max_lists_requested"))

max_fragment_spreads(in) ==
  Exceeds(in.fragment_spread_count, Param(in, "max_fragment_spreads"))

cost_budget(in) ==
  /\ in.depth # Undef /\ in.field_count # Undef
  /\ Exceeds(in.depth * in.field_count, Param(in, "cost_budget"))

require_persisted_queries(in) ==
  /\ Param(in, "require_persisted_queries") = TRUE
  /\ \/ in.query_hash = Undef
     \/ in.operation_name = "" /\ in.query_hash = ""

tenant_rules(in) ==
  \/ Exceeds(in.depth, Tenant(in, "depth_limit"))
  \/ Exceeds(in.field_count, Tenant(in, "max_field_count"))
  \/ Blocked(in, Tenant(in, "field_blocklist"))
  \/ in.operation_type \in Elements(Tenant(in, "blocked_operations"))

\* The names of the rules that fire: data.graphql.deny, but for the wording.
deny(in) ==
  LET fires == [missing |-> missing_field(in) # {},
                introspection |-> introspection(in),
                depth |-> depth_limit(in),
                fields |-> max_field_count(in),
                directives |-> max_directives(in),
                batch |-> max_batch_size(in),
                blocklist |-> field_blocklist(in),
                allowlist |-> field_allowlist(in),
                blocked_type |-> blocked_operations(in),
                unlisted_type |-> allowed_operations(in),
                unlisted_name |-> allowed_operation_names(in),
                arguments |-> max_argument_depth(in),
                lists |-> max_lists_requested(in),
                spreads |-> max_fragment_spreads(in),
                cost |-> cost_budget(in),
                persisted |-> require_persisted_queries(in),
                tenant |-> tenant_rules(in)]
  IN {rule \in DOMAIN fires : fires[rule]}

allow(in) == deny(in) = {}

=============================================================================
