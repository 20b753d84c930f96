----------------------------- MODULE Inspection -----------------------------
(***************************************************************************)
(* The inspection of one query end to end: parser.Parse (Parser), then, as *)
(* compositeEvaluator.Evaluate does but for its cache and its audit-only   *)
(* mode, which are in Evaluator, SchemaInfo.Validate (Schema),             *)
(* opa.BuildInput and the evaluator (OpaEvaluators) on the shipped policy  *)
(* (Policy).                                                               *)
(*                                                                         *)
(* The settings are a record: schema (one is loaded), params, config (the  *)
(* tenant's), mode ("embedded" or "sidecar"), reply (how the call of the   *)
(* sidecar ends) and failClosed (--opa-fail-closed).                       *)
(***************************************************************************)
EXTENDS Parser, Schema, OpaEvaluators

CONSTANTS
  Settings,   \* what the process was started with and the admin has set
  Endpoint,   \* --opa, not empty
  NoDecision

ASSUME InspectionAssumption == Endpoint # "" /\ Undef \notin BOOLEAN \cup Int

NumberLimits == {"max_batch_size", "max_field_count", "max_fragment_spreads",
                 "max_lists_requested", "max_directives", "max_argument_depth",
                 "depth_limit", "cost_budget"}

\* The limits on numbers are numbers, as the documentation says, and a list of
\* paths is one; a dotted string, even an empty one, has a first segment.
ASSUME SettingsAssumption ==
  \A s \in Settings : \A limits \in {s.params, s.config} :
    /\ \A key \in DOMAIN limits \cap NumberLimits : limits[key] \in Int
    /\ \A key \in DOMAIN limits \cap {"field_blocklist", "field_allowlist"} :
         /\ limits[key] # Undef
         /\ \A p \in limits[key] : p \in Seq({p[i] : i \in DOMAIN p}) /\ p # <<>>

VARIABLES
  with,     \* the settings the query met
  decision  \* the result, its field error saying that the evaluator failed

vars == <<parserVars, with, decision>>

OpaEvaluate(s, in) ==
  IF s.mode = "embedded"
  THEN EmbeddedEvaluate(ShippedDocument(in))
  ELSE SidecarEvaluate(Endpoint, s.reply, ShippedDocument(in))

\* When the evaluator fails, the query is let through unless the process fails
\* closed.
Settle(s, result) ==
  IF result.error THEN [result EXCEPT !.allowed = ~s.failClosed] ELSE result

Inspect(s) ==
  /\ pc = "parsed" /\ decision = NoDecision
  /\ with' = s
  /\ decision' = IF s.schema /\ ~Validate(info)
                 THEN Result(FALSE, "schema")
                 ELSE Settle(s, OpaEvaluate(s, BuildInput(info, s.params, s.config)))
  /\ UNCHANGED parserVars

Init == ParserInit /\ with = NoDecision /\ decision = NoDecision

Next ==
  \/ ParserNext /\ UNCHANGED <<with, decision>>
  \/ \E s \in Settings : Inspect(s)

Spec == Init /\ [][Next]_vars

-----------------------------------------------------------------------------

TypeOK ==
  /\ ParserTypeOK
  /\ with \in Settings \cup {NoDecision}
  /\ decision # NoDecision =>
       decision.allowed \in BOOLEAN /\ decision.error \in BOOLEAN

Ops == DOMAIN doc.ops

\* The policy was asked and allows the query.
Allowed == decision # NoDecision /\ decision.allowed /\ ~decision.error

\* The type below selection n, which is selected on a type: that of the field, or
\* the one a fragment's condition names.
TypeBelow(d, n, type) ==
  LET owner == IF d.sels[n].kind = "spread" THEN <<"frag", d.sels[n].name>>
                                            ELSE <<"sel", n>>
  IN IF d.sels[n].kind = "field" THEN FieldType(type, d.sels[n].name)
     ELSE IF owner \in DOMAIN d.conds THEN d.conds[owner] ELSE type

\* The selections that are k or fewer steps below the top of operation o, each with
\* a type it is selected on.
Typing(d, o, k) ==
  LET typed[j \in Nat] ==
        IF j = 0 THEN {<<n, Roots[d.ops[o].type]>> : n \in Top(d, o)}
        ELSE LET t == typed[j - 1] IN
             t \cup UNION {{<<m, TypeBelow(d, x[1], x[2])>> : m \in Below(d, x[1])} : x \in t}
  IN typed[k]

\* Operation o requests only fields that exist on the type they are selected on.
FieldsExist(d, o) ==
  \A x \in Typing(d, o, Len(d.sels)) :
    d.sels[x[1]].kind = "field" => HasField(x[2], d.sels[x[1]].name)

\* The fragments of operation o have no condition, or one that names the type they
\* are selected on.
SameConditions(d, o) ==
  \A x \in Typing(d, o, Len(d.sels)) :
    d.sels[x[1]].kind # "field" => TypeBelow(d, x[1], x[2]) = x[2]

\* For a query without aliases, whose type conditions change no type and whose
\* operations are of one type, which has a root: looking the recorded paths up
\* from the root passes it if and only if its fields exist, although of a fragment
\* spread twice only the first place is recorded, since its condition gives it
\* the same type in the second (Validate on what walkSelections records).  Each
\* hypothesis is needed: Validate takes response keys for field names, knows of
\* no type conditions and starts from the root of the first operation.
ValidateAgrees ==
  (/\ pc = "parsed"
   /\ Unaliased(doc)
   /\ \A o \in Ops : SameConditions(doc, o)
   /\ \A o \in Ops : doc.ops[o].type = doc.ops[1].type
   /\ Roots[doc.ops[1].type] # NoType) =>
     (Validate(info) <=> \A o \in Ops : FieldsExist(doc, o))

\* A limit that is set; a negative one binds as zero does.
Limit(limits, key, n) == key \in DOMAIN limits => n <= Larger(limits[key], 0)

\* The limits of a tenant's configuration that the policy reads: it has no rule
\* for the other keys.
TenantLimits(config) ==
  Restrict(config, DOMAIN config \cap {"depth_limit", "max_field_count", "field_blocklist"})

\* Operation o selects no more than the limits on its size.
WithinCounts(o, limits) ==
  /\ Limit(limits, "max_batch_size", Len(doc.ops))
  /\ Limit(limits, "max_field_count", Cardinality(OfKind(doc, o, {"field"})))
  /\ Limit(limits, "max_fragment_spreads",
           Cardinality(OfKind(doc, o, {"inline", "spread"})))
  /\ Limit(limits, "max_lists_requested", Cardinality(ListFields(doc, o)))

\* A query that the policy allows keeps, in each of its operations, to every limit
\* on numbers of operations, fields, fragments and lists that the parameters set,
\* and to the tenant's limit on fields, the one of its limits on numbers of these
\* that the policy reads; a limit of zero included: counting, aggregating over
\* the operations, leaving zero values out of the input, and the rules lose
\* nothing on the way (parseGraphQL, BuildInput, graphql.rego).
AllowedIsWithinCounts ==
  Allowed => \A o \in Ops : /\ WithinCounts(o, with.params)
                            /\ WithinCounts(o, TenantLimits(with.config))

\* What operation o asks for is within the other limits.
WithinLimits(o, limits) ==
  LET fields == OfKind(doc, o, {"field"})
      paths == FieldPaths(doc, o)
      depth == Max({0} \cup {Len(p) : p \in Requested(doc, o)})
  IN /\ Limit(limits, "max_directives", FragmentDirectives(doc)
                + MapThenSumSet(LAMBDA n : doc.sels[n].dirs, Reached(doc, o)))
     /\ \A k \in 1..Cardinality(Values) : ValuesAt(doc, fields, k) # {} =>
          Limit(limits, "max_argument_depth", k)
     /\ SpreadOnce(doc, o) =>
          /\ Limit(limits, "depth_limit", depth)
          /\ Limit(limits, "cost_budget", depth * Cardinality(fields))
     /\ SpreadOnce(doc, o) /\ Unaliased(doc) =>
          /\ "field_blocklist" \in DOMAIN limits =>
               \A b \in limits.field_blocklist, p \in paths :
                 ~(Len(b) <= Len(p) /\ SubSeq(p, 1, Len(b)) = b)
          /\ "field_allowlist" \in DOMAIN limits /\ limits.field_allowlist # {} =>
               \A p \in paths : \E a \in limits.field_allowlist : StartsWith(p, a)

\* An allowed query also keeps to the limits on directives and arguments; where no
\* fragment is spread twice, of which only the first place is measured, to those
\* on depth and cost; and where besides no field has an alias, it requests of
\* the upstream nothing at or below a blocked path and nothing off an allowlist
\* that has entries.  Of a field with an alias the policy sees the alias alone,
\* and the lists say nothing about it (parseGraphQL, BuildInput, graphql.rego).
AllowedIsWithinLimits ==
  Allowed => \A o \in Ops : /\ WithinLimits(o, with.params)
                            /\ WithinLimits(o, TenantLimits(with.config))

\* README.md:660, "Unnamed queries and unlisted names are blocked": with a list
\* of operation names set, an allowed query has only operations on the list.
OnlyListedOperations ==
  (Allowed /\ "allowed_operation_names" \in DOMAIN with.params) =>
    \A o \in Ops : doc.ops[o].name \in with.params.allowed_operation_names

\* docs/opa-samples/tutorial.md:36, "In both modes, ... the decision path MUST
\* be `data.graphql.allow`": a sidecar that answers decides as the embedded
\* policy does.
EvaluatorsAgree ==
  (decision # NoDecision /\ ~decision.error /\ decision.reason # "schema") =>
    decision.allowed = allow(BuildInput(info, with.params, with.config))

=============================================================================
