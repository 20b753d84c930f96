-------------------------- MODULE InspectionProofs --------------------------
(***************************************************************************)
(* The inspection of a query, for every document and all settings: what    *)
(* the policy allows is within the limits, and where neither aliases nor   *)
(* type conditions stand between the recorded paths and the schema, the    *)
(* schema check decides whether the fields exist.                          *)
(***************************************************************************)
EXTENDS ParserProofs

\* The rules other than the tenant's.
GlobalRules(in) ==
  \/ missing_field(in) # {} \/ introspection(in) \/ depth_limit(in) \/ max_field_count(in)
  \/ max_directives(in) \/ max_batch_size(in) \/ field_blocklist(in) \/ field_allowlist(in)
  \/ blocked_operations(in) \/ allowed_operations(in) \/ allowed_operation_names(in)
  \/ max_argument_depth(in) \/ max_lists_requested(in) \/ max_fragment_spreads(in)
  \/ cost_budget(in) \/ require_persisted_queries(in)

\* The policy allows what no rule denies.
LEMMA AllowMeans ==
  ASSUME NEW in
  PROVE  allow(in) <=> ~GlobalRules(in) /\ ~tenant_rules(in)
<1> DEFINE r == [missing |-> missing_field(in) # {},
                 introspection |-> introspection(in),
                 depth |-> depth_limit(in),
                 fields |-> max_field_count(in),
                 directives |-> max_directives(in),
                 batch |-> max_batch_size(in),
                 blocklist |-> field_blocklist(in),
                 allowlist |-> field_allowlist(in),
                 blocked_type |-> blocked_operations(in),
                 unlisted_type |-> allowed_operations(in),
                 unlisted_name |-> allowed_operation_names(in),
                 arguments |-> max_argument_depth(in),
                 lists |-> max_lists_requested(in),
                 spreads |-> max_fragment_spreads(in),
                 cost |-> cost_budget(in),
                 persisted |-> require_persisted_queries(in),
                 tenant |-> tenant_rules(in)]
<1>1. allow(in) <=> \A rule \in DOMAIN r : ~r[rule]
  BY DEF allow, deny
<1>2. DOMAIN r = {"missing", "introspection", "depth", "fields", "directives", "batch",
                  "blocklist", "allowlist", "blocked_type", "unlisted_type",
                  "unlisted_name", "arguments", "lists", "spreads", "cost", "persisted",
                  "tenant"}
  OBVIOUS
<1>3. /\ r.missing = (missing_field(in) # {})
      /\ r.introspection = introspection(in)
      /\ r.depth = depth_limit(in)
      /\ r.fields = max_field_count(in)
      /\ r.directives = max_directives(in)
      /\ r.batch = max_batch_size(in)
      /\ r.blocklist = field_blocklist(in)
      /\ r.allowlist = field_allowlist(in)
      /\ r.blocked_type = blocked_operations(in)
      /\ r.unlisted_type = allowed_operations(in)
      /\ r.unlisted_name = allowed_operation_names(in)
      /\ r.arguments = max_argument_depth(in)
      /\ r.lists = max_lists_requested(in)
      /\ r.spreads = max_fragment_spreads(in)
      /\ r.cost = cost_budget(in)
      /\ r.persisted = require_persisted_queries(in)
      /\ r.tenant = tenant_rules(in)
  OBVIOUS
<1> HIDE DEF r
<1>4. (\A rule \in DOMAIN r : ~r[rule]) => ~GlobalRules(in) /\ ~tenant_rules(in)
  BY <1>2, <1>3 DEF GlobalRules
<1>5. ~GlobalRules(in) /\ ~tenant_rules(in) => (\A rule \in DOMAIN r : ~r[rule])
  BY <1>2, <1>3 DEF GlobalRules
<1> QED BY <1>1, <1>4, <1>5

\* An evaluator allows only what the policy allows: the embedded one reads its
\* verdict, and the sidecar client, which reads a name the policy does not
\* define, allows nothing.
LEMMA EvaluatorsOnlyPass ==
  ASSUME NEW s, NEW in, OpaEvaluate(s, in).allowed
  PROVE  allow(in)
<1> DEFINE d == ShippedDocument(in)
<1>1. DOMAIN d = {"allow", "deny"} /\ d.allow = allow(in)
  BY DEF ShippedDocument
<1> HIDE DEF d
<1>2. Get(d, "allow") = allow(in) /\ Get(d, "allowed") = Undef
  BY <1>1 DEF Get
<1>3. CASE s.mode = "embedded"
  <2>1. EmbeddedEvaluate(d).allowed
    BY <1>3 DEF OpaEvaluate, d
  <2> QED BY <2>1, <1>2 DEF EmbeddedEvaluate, Result
<1>4. CASE s.mode # "embedded"
  <2>1. SidecarEvaluate(Endpoint, s.reply, d).allowed
    BY <1>4 DEF OpaEvaluate, d
  <2>2. SidecarEvaluate(Endpoint, s.reply, d).allowed = FALSE
    BY <1>2, InspectionAssumption DEF SidecarEvaluate, Result, Error
  <2> QED BY <2>1, <2>2
<1> QED BY <1>3, <1>4

\* An evaluator answers with two booleans.
LEMMA EvaluateTyped ==
  ASSUME NEW s, NEW in
  PROVE  LET r == OpaEvaluate(s, in) IN
         {"allowed", "error"} \subseteq DOMAIN r /\ r.allowed \in BOOLEAN /\ r.error \in BOOLEAN
<1> DEFINE d == ShippedDocument(in)
           Typed(r) == /\ {"allowed", "error"} \subseteq DOMAIN r
                       /\ r.allowed \in BOOLEAN /\ r.error \in BOOLEAN
<1> HIDE DEF d
<1>1. Typed(EmbeddedEvaluate(d))
  BY DEF EmbeddedEvaluate, Result
<1>2. Typed(SidecarEvaluate(Endpoint, s.reply, d))
  BY DEF SidecarEvaluate, Result, Error
<1> HIDE DEF Typed
<1>3. Typed(OpaEvaluate(s, in))
  BY <1>1, <1>2 DEF OpaEvaluate, d
<1> QED BY <1>3 DEF Typed

\* A decision was made on the result of the parser, which is final.
DecidedInv ==
  decision # NoDecision =>
    /\ pc = "parsed"
    /\ with \in Settings
    /\ decision.allowed /\ ~decision.error =>
         allow(BuildInput(info, with.params, with.config))

LEMMA DecidedStep ==
  ASSUME DecidedInv, [Next]_vars
  PROVE  DecidedInv'
<1>1. CASE ParserNext /\ UNCHANGED <<with, decision>>
  BY <1>1 DEF DecidedInv, ParserNext, Parse, BeginOperation, VisitField, VisitInline,
       VisitSpread, Visit, EndOperation
<1>2. ASSUME NEW s \in Settings, Inspect(s)
      PROVE  DecidedInv'
  <2> DEFINE in == BuildInput(info, s.params, s.config)
  <2>1. pc' = "parsed" /\ info' = info /\ with' = s
    BY <1>2 DEF Inspect, parserVars
  <2> DEFINE r == OpaEvaluate(s, in)
  <2>2. decision'.allowed /\ ~decision'.error => r.allowed
    <3>1. decision' = Result(FALSE, "schema") \/ decision' = Settle(s, r)
      BY <1>2 DEF Inspect
    <3>2. "error" \in DOMAIN r
      BY EvaluateTyped
    <3> HIDE DEF r
    <3>3. ASSUME decision' = Result(FALSE, "schema") PROVE decision'.allowed = FALSE
      BY <3>3 DEF Result
    <3>4. ASSUME decision' = Settle(s, r), ~decision'.error PROVE decision' = r
      BY <3>2, <3>4 DEF Settle
    <3> QED BY <3>1, <3>3, <3>4
  <2>3. decision'.allowed /\ ~decision'.error => allow(in)
    BY <2>2, EvaluatorsOnlyPass
  <2> QED BY <2>1, <2>3 DEF DecidedInv
<1>3. CASE UNCHANGED vars
  BY <1>3 DEF DecidedInv, vars, parserVars
<1> QED BY <1>1, <1>2, <1>3 DEF Next

-----------------------------------------------------------------------------
(* The limits on numbers.                                                  *)

\* The counters of a result r cover operation o.
Covers(d, o, r) ==
  /\ Cardinality(OfKind(d, o, {"field"})) <= r.fieldCount
  /\ Cardinality(OfKind(d, o, {"inline", "spread"})) <= r.fragmentSpreadCount
  /\ Cardinality(ListFields(d, o)) <= r.listsRequested

Counters(r) ==
  /\ {"fieldCount", "fragmentSpreadCount", "listsRequested", "batchSize"} \subseteq DOMAIN r
  /\ r.fieldCount \in Nat /\ r.fragmentSpreadCount \in Nat /\ r.listsRequested \in Nat

\* The result covers the operations that have been walked.
InfoInv ==
  /\ pc = "parse" => op = 1
  /\ pc \in {"operation", "walk", "parsed"} =>
       /\ op \in DOMAIN doc.ops
       /\ Counters(info)
       /\ info.batchSize = Len(doc.ops)
       /\ \A o \in DOMAIN doc.ops : o < op \/ pc = "parsed" => Covers(doc, o, info)

LEMMA OperationsTyped ==
  ASSUME NEW d \in Docs
  PROVE  Len(d.ops) \in Nat /\ DOMAIN d.ops = 1..Len(d.ops)
         /\ (d.ops # <<>> => 1 \in DOMAIN d.ops)
<1>1. d.ops \in Seq({d.ops[o] : o \in DOMAIN d.ops})
  BY DocAssumption
<1> QED BY <1>1

LEMMA SizesAreNatural ==
  ASSUME NEW d \in Docs, NEW o
  PROVE  /\ Cardinality(OfKind(d, o, {"field"})) \in Nat
         /\ Cardinality(OfKind(d, o, {"inline", "spread"})) \in Nat
         /\ Cardinality(ListFields(d, o)) \in Nat
<1>1. /\ OfKind(d, o, {"field"}) \in SUBSET Sels(d)
      /\ OfKind(d, o, {"inline", "spread"}) \in SUBSET Sels(d)
      /\ ListFields(d, o) \in SUBSET Sels(d)
  BY DEF OfKind, ListFields, Reached
<1> QED BY <1>1, FiniteSelections

\* The result of an operation that ends is put to the others'.
LEMMA EndInfo ==
  ASSUME ParserInv, InfoInv, EndOperation
  PROVE  InfoInv'
<1>1. /\ pc = "walk" /\ todo = <<>> /\ doc' = doc /\ info' = Aggregate(info, cur')
      /\ \/ op < Len(doc.ops) /\ op' = op + 1 /\ pc' = "operation"
         \/ ~(op < Len(doc.ops)) /\ op' = op /\ pc' = "parsed"
  BY DEF EndOperation, MoreOperations
<1>2. doc \in Docs /\ Len(doc.ops) \in Nat /\ DOMAIN doc.ops = 1..Len(doc.ops)
  BY OperationsTyped DEF ParserInv
<1>3. /\ op \in DOMAIN doc.ops /\ Counters(info) /\ info.batchSize = Len(doc.ops)
      /\ \A o \in DOMAIN doc.ops : o < op => Covers(doc, o, info)
  BY <1>1 DEF InfoInv
<1> DEFINE F(o) == Cardinality(OfKind(doc, o, {"field"}))
           P(o) == Cardinality(OfKind(doc, o, {"inline", "spread"}))
           L(o) == Cardinality(ListFields(doc, o))
<1>4. \A o : F(o) \in Nat /\ P(o) \in Nat /\ L(o) \in Nat
  BY <1>2, SizesAreNatural
<1>5. /\ {"fieldCount", "fragmentSpreadCount", "listsRequested"} \subseteq DOMAIN cur
      /\ cur.fieldCount = F(op) /\ cur.fragmentSpreadCount = P(op)
      /\ cur.listsRequested = L(op)
  BY <1>1, WalkedInFull
  DEF ParserInv, WalkInv, CountInv, EverySelectionCountedOnce, OperationWalked
<1>6. /\ cur'.fieldCount = F(op) /\ cur'.fragmentSpreadCount = P(op)
      /\ cur'.listsRequested = L(op)
  BY <1>5 DEF EndOperation
<1>7. /\ DOMAIN info' = DOMAIN info
      /\ info'.fieldCount = Larger(F(op), info.fieldCount)
      /\ info'.fragmentSpreadCount = Larger(P(op), info.fragmentSpreadCount)
      /\ info'.listsRequested = Larger(L(op), info.listsRequested)
      /\ info'.batchSize = info.batchSize
  BY <1>1, <1>3, <1>6 DEF Counters, Aggregate, Measures
<1> HIDE DEF F, P, L
<1>8. Counters(info')
  BY <1>3, <1>4, <1>7 DEF Counters, Larger
<1>9. \A o \in DOMAIN doc.ops : o <= op => Covers(doc, o, info')
  <2> SUFFICES ASSUME NEW o \in DOMAIN doc.ops, o <= op
               PROVE  /\ F(o) <= info'.fieldCount /\ P(o) <= info'.fragmentSpreadCount
                      /\ L(o) <= info'.listsRequested
    BY DEF Covers, F, P, L
  <2>1. CASE o = op
    BY <1>3, <1>4, <1>7, <2>1 DEF Counters, Larger
  <2>2. CASE o < op
    <3>1. /\ F(o) <= info.fieldCount /\ P(o) <= info.fragmentSpreadCount
          /\ L(o) <= info.listsRequested
      BY <1>3, <2>2 DEF Covers, F, P, L
    <3> QED BY <1>3, <1>4, <1>7, <3>1 DEF Counters, Larger
  <2> QED BY <1>2, <1>3, <2>1, <2>2
<1>10. CASE op < Len(doc.ops) /\ op' = op + 1 /\ pc' = "operation"
  BY <1>1, <1>2, <1>3, <1>7, <1>8, <1>9, <1>10 DEF InfoInv
<1>11. CASE ~(op < Len(doc.ops)) /\ op' = op /\ pc' = "parsed"
  <2>1. \A o \in DOMAIN doc.ops : o <= op
    BY <1>2, <1>3, <1>11
  <2> QED BY <1>1, <1>3, <1>7, <1>8, <1>9, <1>11, <2>1 DEF InfoInv
<1> QED BY <1>1, <1>10, <1>11

LEMMA InfoStep ==
  ASSUME ParserInv, InfoInv, [Next]_vars
  PROVE  InfoInv'
<1>1. CASE Parse
  <2>1. doc \in Docs /\ Len(doc.ops) \in Nat /\ DOMAIN doc.ops = 1..Len(doc.ops)
        /\ (doc.ops # <<>> => 1 \in DOMAIN doc.ops)
    BY OperationsTyped DEF ParserInv
  <2>2. op = 1 /\ op' = 1 /\ doc' = doc
    BY <1>1 DEF Parse, InfoInv
  <2>3. CASE pc' = "rejected"
    BY <2>3 DEF InfoInv
  <2>4. CASE pc' # "rejected"
    <3>1. pc' = "operation" /\ doc.ops # <<>>
      BY <1>1, <2>4 DEF Parse
    <3>2. /\ DOMAIN info' = DOMAIN NewInfo
          /\ info'.batchSize = Len(doc.ops) /\ info'.fieldCount = 0
          /\ info'.fragmentSpreadCount = 0 /\ info'.listsRequested = 0
      BY <1>1, <2>4 DEF Parse, NewInfo
    <3>3. Counters(info')
      BY <3>2 DEF Counters, NewInfo
    <3> QED BY <2>1, <2>2, <3>1, <3>2, <3>3 DEF InfoInv
  <2> QED BY <2>3, <2>4
<1>2. CASE BeginOperation
  <2>1. pc = "operation" /\ pc' = "walk" /\ doc' = doc /\ op' = op /\ info' = info
    BY <1>2 DEF BeginOperation
  <2> QED BY <2>1 DEF InfoInv
<1>3. CASE VisitField \/ VisitInline \/ VisitSpread
  <2>1. pc' = pc /\ doc' = doc /\ op' = op /\ info' = info
    BY <1>3 DEF VisitField, VisitInline, VisitSpread, Visit
  <2> QED BY <2>1 DEF InfoInv
<1>4. CASE EndOperation
  BY <1>4, EndInfo
<1>5. CASE UNCHANGED parserVars
  BY <1>5 DEF InfoInv, parserVars
<1> QED BY <1>1, <1>2, <1>3, <1>4, <1>5 DEF Next, ParserNext, Inspect, vars

\* A measure that is not over a limit keeps what it covers within it, also if it
\* is left out of the input because it is zero.
LEMMA NotExceeded ==
  ASSUME NEW limits, NEW key, key \in DOMAIN limits => limits[key] \in Int,
         NEW n \in Nat, NEW m \in Nat, m <= n,
         NEW x, x = n \/ x = OmitZero(n), ~Exceeds(x, Get(limits, key))
  PROVE  Limit(limits, key, m)
<1> SUFFICES ASSUME key \in DOMAIN limits PROVE m <= Larger(limits[key], 0)
  BY DEF Limit
<1>1. limits[key] \in Int /\ Get(limits, key) = limits[key] /\ limits[key] # Undef
  BY InspectionAssumption DEF Get
<1>2. CASE n = 0
  BY <1>1, <1>2 DEF Larger
<1>3. CASE n # 0
  <2>1. OmitZero(n) = n
    BY <1>3 DEF OmitZero
  <2>2. Undef \notin Int
    BY InspectionAssumption
  <2>3. x = n /\ n # Undef
    BY <2>1, <2>2
  <2> QED BY <1>1, <2>3 DEF Exceeds, Larger
<1> QED BY <1>2, <1>3

\* What the policy allows is within the limits on numbers.
LEMMA AllowedCounts ==
  ASSUME doc \in Docs, pc = "parsed", InfoInv, NEW s \in Settings, NEW o \in Ops,
         allow(BuildInput(info, s.params, s.config))
  PROVE  WithinCounts(o, s.params) /\ WithinCounts(o, TenantLimits(s.config))
<1> DEFINE in == BuildInput(info, s.params, s.config)
<1>1. /\ in.batch_size = OmitZero(info.batchSize)
      /\ in.field_count = info.fieldCount
      /\ in.fragment_spread_count = OmitZero(info.fragmentSpreadCount)
      /\ in.lists_requested = OmitZero(info.listsRequested)
      /\ in.params = s.params /\ in.tenant_config = s.config
  BY DEF BuildInput
<1>2. ~GlobalRules(in) /\ ~tenant_rules(in)
  BY AllowMeans
<1> HIDE DEF in
<1>3. /\ ~Exceeds(OmitZero(info.batchSize), Get(s.params, "max_batch_size"))
      /\ ~Exceeds(info.fieldCount, Get(s.params, "max_field_count"))
      /\ ~Exceeds(OmitZero(info.fragmentSpreadCount), Get(s.params, "max_fragment_spreads"))
      /\ ~Exceeds(OmitZero(info.listsRequested), Get(s.params, "max_lists_requested"))
      /\ ~Exceeds(info.fieldCount, Get(s.config, "max_field_count"))
  BY <1>1, <1>2 DEF GlobalRules, max_batch_size, max_field_count, max_fragment_spreads,
       max_lists_requested, tenant_rules, Param, Tenant
<1>4. \A key \in {"max_batch_size", "max_field_count", "max_fragment_spreads",
                  "max_lists_requested"} :
        /\ key \in DOMAIN s.params => s.params[key] \in Int
        /\ key \in DOMAIN s.config => s.config[key] \in Int
  BY SettingsAssumption DEF NumberLimits
<1>5. /\ Counters(info) /\ info.batchSize = Len(doc.ops) /\ Len(doc.ops) \in Nat
      /\ Covers(doc, o, info)
  BY OperationsTyped DEF InfoInv, Ops
<1> DEFINE f == Cardinality(OfKind(doc, o, {"field"}))
           p == Cardinality(OfKind(doc, o, {"inline", "spread"}))
           l == Cardinality(ListFields(doc, o))
<1>6. /\ f \in Nat /\ p \in Nat /\ l \in Nat
      /\ f <= info.fieldCount /\ p <= info.fragmentSpreadCount /\ l <= info.listsRequested
      /\ info.fieldCount \in Nat /\ info.fragmentSpreadCount \in Nat
      /\ info.listsRequested \in Nat
  BY <1>5, SizesAreNatural DEF Covers, Counters
<1> HIDE DEF f, p, l
<1>7. Limit(s.params, "max_batch_size", Len(doc.ops))
  BY <1>3, <1>4, <1>5, NotExceeded
<1>8. Limit(s.params, "max_field_count", f)
  BY <1>3, <1>4, <1>6, NotExceeded
<1>9. Limit(s.params, "max_fragment_spreads", p)
  BY <1>3, <1>4, <1>6, NotExceeded
<1>10. Limit(s.params, "max_lists_requested", l)
  BY <1>3, <1>4, <1>6, NotExceeded
<1>11. WithinCounts(o, s.params)
  BY <1>7, <1>8, <1>9, <1>10 DEF WithinCounts, f, p, l
<1>12. Limit(s.config, "max_field_count", f)
  BY <1>3, <1>4, <1>6, NotExceeded
<1> DEFINE t == TenantLimits(s.config)
<1>13. /\ "max_batch_size" \notin DOMAIN t /\ "max_fragment_spreads" \notin DOMAIN t
       /\ "max_lists_requested" \notin DOMAIN t
       /\ "max_field_count" \in DOMAIN t =>
            "max_field_count" \in DOMAIN s.config
            /\ t["max_field_count"] = s.config["max_field_count"]
  BY DEF TenantLimits, Restrict
<1> HIDE DEF t
<1>14. WithinCounts(o, t)
  BY <1>12, <1>13 DEF WithinCounts, Limit, f
<1> QED BY <1>11, <1>14 DEF t

\* For all documents and settings, a query that is allowed keeps to the limits on
\* the numbers of operations, fields, fragments and lists, in each of its
\* operations (parseGraphQL, BuildInput, graphql.rego).
THEOREM AllowedQueriesAreWithinCounts == Spec => []AllowedIsWithinCounts
<1>1. Init => DecidedInv /\ InfoInv
  BY DEF Init, ParserInit, DecidedInv, InfoInv
<1>2. ParserInv /\ InfoInv /\ DecidedInv => AllowedIsWithinCounts
  BY AllowedCounts DEF ParserInv, DecidedInv, AllowedIsWithinCounts, Allowed
<1> QED BY <1>1, <1>2, ParserInvariant, DecidedStep, InfoStep, PTL DEF Spec

-----------------------------------------------------------------------------
(* The types.                                                              *)

\* The measures of a result are numbers.
Measurable(r) == Measures \subseteq DOMAIN r /\ \A m \in Measures : r[m] \in Nat

TypeInv ==
  /\ pc \in {"parse", "rejected", "operation", "walk", "parsed"}
  /\ pc = "rejected" => op = 1
  /\ pc # "walk" => todo = <<>>
  /\ visited \subseteq {doc.sels[n].name : n \in Sels(doc)}
  /\ Measurable(cur) /\ Measurable(info)
  /\ with \in Settings \cup {NoDecision}
  /\ decision # NoDecision => decision.allowed \in BOOLEAN /\ decision.error \in BOOLEAN

LEMMA BeginTypes ==
  ASSUME ParserInv, InfoInv, TypeInv, BeginOperation
  PROVE  Measurable(cur')
<1> DEFINE o == doc.ops[op]
<1>1. o.dirs \in Nat /\ o.vars \in Nat
  BY WeightAssumption DEF ParserInv, InfoInv, BeginOperation
<1>2. /\ DOMAIN cur' = DOMAIN NewInfo
      /\ cur'.operationDirectives = o.dirs /\ cur'.variableCount = o.vars
      /\ \A m \in Measures \ {"operationDirectives", "variableCount"} : cur'[m] = NewInfo[m]
  BY DEF BeginOperation, NewInfo, Measures
<1>3. /\ Measures \subseteq DOMAIN NewInfo
      /\ \A m \in Measures : NewInfo[m] \in Nat
  BY DEF NewInfo, Measures
<1> HIDE DEF o
<1>4. ASSUME NEW m \in Measures PROVE cur'[m] \in Nat
  <2>1. CASE m = "operationDirectives"
    BY <1>1, <1>2, <2>1
  <2>2. CASE m = "variableCount"
    BY <1>1, <1>2, <2>2
  <2>3. CASE m \notin {"operationDirectives", "variableCount"}
    BY <1>2, <1>3, <2>3
  <2> QED BY <2>1, <2>2, <2>3
<1> QED BY <1>2, <1>3, <1>4 DEF Measurable

LEMMA VisitTypes ==
  ASSUME ParserInv, ParserInv', TypeInv, VisitField \/ VisitInline \/ VisitSpread
  PROVE  Measurable(cur') /\ visited' \subseteq {doc.sels[n].name : n \in Sels(doc)}
<1>1. /\ pc = "walk" /\ pc' = "walk" /\ todo # <<>> /\ doc' = doc /\ doc \in Docs
  BY DEF VisitField, VisitInline, VisitSpread, Visit, ParserInv
<1>2. PICK S \in SUBSET Sels(doc) : SearchInv(doc, op, todo, visited, S)
  BY <1>1 DEF ParserInv, WalkInv
<1>3. /\ Item.sel \in Sels(doc) /\ Item.depth \in Nat
      /\ Sel = doc.sels[Item.sel] /\ Sel.dirs \in Nat
  BY <1>1, <1>2, TopOfStack, WeightAssumption DEF Work, Sel, Sels
<1>4. cur'.argumentDepth \in Nat
  <2>1. PICK T \in SUBSET Sels(doc) : WeightInv(doc, cur', T)
    BY <1>1 DEF ParserInv, WalkInv
  <2>2. cur'.argumentDepth = Deepest(doc, Those(doc, T, {"field"}))
    BY <2>1 DEF WeightInv
  <2>3. Those(doc, T, {"field"}) \in SUBSET Sels(doc)
    BY DEF Those
  <2> QED BY <1>1, <2>2, <2>3, DeepestIsLevels
<1>5. Measures \subseteq DOMAIN cur /\ \A m \in Measures : cur[m] \in Nat
  BY DEF TypeInv, Measurable
<1>6. CASE VisitField
  <2>1. /\ DOMAIN cur' = DOMAIN cur
        /\ cur'.fieldCount = cur.fieldCount + 1
        /\ cur'.directives = cur.directives + Sel.dirs
        /\ cur'.listsRequested = cur.listsRequested + (IF Plural(Sel.alias) THEN 1 ELSE 0)
        /\ cur'.depth = Larger(Item.depth + 1, cur.depth)
        /\ \A m \in {"fragmentSpreadCount", "variableCount", "operationDirectives",
                     "inlineFragmentTypesCount"} : cur'[m] = cur[m]
    BY <1>5, <1>6 DEF VisitField, Measures
  <2>2. \A m \in Measures : cur'[m] \in Nat
    BY <1>3, <1>4, <1>5, <2>1 DEF Measures, Larger
  <2>3. visited' = visited
    BY <1>6 DEF VisitField
  <2> QED BY <1>5, <2>1, <2>2, <2>3 DEF Measurable, TypeInv
<1>7. CASE VisitInline
  <2>1. /\ DOMAIN cur' = DOMAIN cur
        /\ cur'.fragmentSpreadCount = cur.fragmentSpreadCount + 1
        /\ cur'.directives = cur.directives + Sel.dirs
        /\ cur'.inlineFragmentTypesCount
             = cur.inlineFragmentTypesCount + (IF Conditioned THEN 1 ELSE 0)
        /\ \A m \in {"fieldCount", "listsRequested", "variableCount",
                     "operationDirectives", "depth"} : cur'[m] = cur[m]
    BY <1>5, <1>7 DEF VisitInline, CountFragment, Measures
  <2>2. \A m \in Measures : cur'[m] \in Nat
    BY <1>3, <1>4, <1>5, <2>1 DEF Measures
  <2>3. visited' = visited
    BY <1>7 DEF VisitInline
  <2> QED BY <1>5, <2>1, <2>2, <2>3 DEF Measurable, TypeInv
<1>8. CASE VisitSpread
  <2>1. /\ DOMAIN cur' = DOMAIN cur
        /\ cur'.fragmentSpreadCount = cur.fragmentSpreadCount + 1
        /\ cur'.directives = cur.directives + Sel.dirs
        /\ \A m \in {"fieldCount", "listsRequested", "variableCount", "depth",
                     "operationDirectives", "inlineFragmentTypesCount"} : cur'[m] = cur[m]
    BY <1>5, <1>8 DEF VisitSpread, CountFragment, Measures
  <2>2. \A m \in Measures : cur'[m] \in Nat
    BY <1>3, <1>4, <1>5, <2>1 DEF Measures
  <2>3. visited' = visited \/ visited' = visited \cup {doc.sels[Item.sel].name}
    BY <1>3, <1>8 DEF VisitSpread, Entered
  <2> QED BY <1>3, <1>5, <2>1, <2>2, <2>3 DEF Measurable, TypeInv
<1> QED BY <1>6, <1>7, <1>8

LEMMA EndTypes ==
  ASSUME ParserInv, TypeInv, EndOperation
  PROVE  Measurable(cur') /\ Measurable(info')
<1>1. FragmentDirectives(doc) \in Nat
  BY FragmentDirectivesTyped DEF ParserInv
<1>2. /\ Measures \subseteq DOMAIN cur /\ \A m \in Measures : cur[m] \in Nat
      /\ Measures \subseteq DOMAIN info /\ \A m \in Measures : info[m] \in Nat
  BY DEF TypeInv, Measurable
<1>3. cur' = [cur EXCEPT !.directives = @ + FragmentDirectives(doc)]
      /\ info' = Aggregate(info, cur')
  BY DEF EndOperation
<1>4. "directives" \in Measures
  BY DEF Measures
<1>5. /\ DOMAIN cur' = DOMAIN cur
      /\ cur'["directives"] = cur["directives"] + FragmentDirectives(doc)
      /\ \A m \in Measures \ {"directives"} : cur'[m] = cur[m]
  BY <1>2, <1>3, <1>4
<1>6. \A m \in Measures : cur'[m] \in Nat
  BY <1>1, <1>2, <1>4, <1>5
<1>7. DOMAIN info' = DOMAIN info
  BY <1>3 DEF Aggregate
<1>8. \A m \in Measures : info'[m] = Larger(cur'[m], info[m])
  <2> SUFFICES ASSUME NEW m \in Measures PROVE info'[m] = Larger(cur'[m], info[m])
    OBVIOUS
  <2>1. m \notin {"operationName", "operationType", "hasDefaultVariables", "fieldPaths"}
    BY DEF Measures
  <2> QED BY <1>2, <1>3, <2>1 DEF Aggregate
<1>9. \A m \in Measures : info'[m] \in Nat
  BY <1>2, <1>6, <1>8 DEF Larger
<1> QED BY <1>2, <1>5, <1>6, <1>7, <1>9 DEF Measurable

LEMMA TypeStep ==
  ASSUME ParserInv, ParserInv', InfoInv, TypeInv, [Next]_vars
  PROVE  TypeInv'
<1>1. CASE Parse /\ UNCHANGED <<with, decision>>
  <2>1. /\ pc = "parse" /\ pc' \in {"rejected", "operation"}
        /\ UNCHANGED <<doc, op, todo, visited, cur>>
    BY <1>1 DEF Parse, walkVars
  <2>2. op = 1
    BY <2>1 DEF InfoInv
  <2>3. CASE info' = info
    BY <1>1, <2>1, <2>2, <2>3 DEF TypeInv
  <2>4. CASE info' # info
    <3>1. info' = [NewInfo EXCEPT !.batchSize = Len(doc.ops), !.queryHash = Hash,
                                  !.fragmentCount = Cardinality(DOMAIN doc.frags)]
      BY <1>1, <2>4 DEF Parse
    <3>2. Measurable(info')
      BY <3>1 DEF Measurable, NewInfo, Measures
    <3> QED BY <1>1, <2>1, <2>2, <3>2 DEF TypeInv
  <2> QED BY <2>3, <2>4
<1>2. CASE BeginOperation /\ UNCHANGED <<with, decision>>
  <2>1. pc' = "walk" /\ UNCHANGED <<doc, op, info>> /\ visited' = {}
    BY <1>2 DEF BeginOperation, NewVisited
  <2>2. Measurable(cur')
    BY <1>2, BeginTypes
  <2> QED BY <1>2, <2>1, <2>2 DEF TypeInv
<1>3. CASE (VisitField \/ VisitInline \/ VisitSpread) /\ UNCHANGED <<with, decision>>
  <2>1. pc = "walk" /\ pc' = "walk" /\ UNCHANGED <<doc, op, info>>
    BY <1>3 DEF VisitField, VisitInline, VisitSpread, Visit
  <2>2. Measurable(cur') /\ visited' \subseteq {doc.sels[n].name : n \in Sels(doc)}
    BY <1>3, VisitTypes
  <2> QED BY <1>3, <2>1, <2>2 DEF TypeInv
<1>4. CASE EndOperation /\ UNCHANGED <<with, decision>>
  <2>1. pc' \in {"operation", "parsed"} /\ todo' = <<>> /\ UNCHANGED <<doc, visited>>
    BY <1>4 DEF EndOperation
  <2>2. Measurable(cur') /\ Measurable(info')
    BY <1>4, EndTypes
  <2> QED BY <1>4, <2>1, <2>2 DEF TypeInv
<1>5. ASSUME NEW s \in Settings, Inspect(s) PROVE TypeInv'
  <2>1. UNCHANGED parserVars /\ with' = s
    BY <1>5 DEF Inspect
  <2>2. decision'.allowed \in BOOLEAN /\ decision'.error \in BOOLEAN
    <3> DEFINE r == OpaEvaluate(s, BuildInput(info, s.params, s.config))
    <3>1. decision' = Result(FALSE, "schema") \/ decision' = Settle(s, r)
      BY <1>5 DEF Inspect
    <3>2. r.allowed \in BOOLEAN /\ r.error \in BOOLEAN /\ {"allowed", "error"} \subseteq DOMAIN r
      BY EvaluateTyped
    <3> HIDE DEF r
    <3>3. CASE decision' = Result(FALSE, "schema")
      BY <3>3 DEF Result
    <3>4. CASE decision' = Settle(s, r)
      BY <3>2, <3>4 DEF Settle
    <3> QED BY <3>1, <3>3, <3>4
  <2> QED BY <2>1, <2>2 DEF TypeInv, parserVars, walkVars
<1>6. CASE UNCHANGED vars
  BY <1>6 DEF TypeInv, vars, parserVars, walkVars
<1> QED BY <1>1, <1>2, <1>3, <1>4, <1>5, <1>6 DEF Next, ParserNext

LEMMA TypesAreOK ==
  ASSUME ParserInv, PathInv, InfoInv, TypeInv
  PROVE  TypeOK
<1>1. op \in 1..Larger(1, Len(doc.ops))
  <2>1. Len(doc.ops) \in Nat /\ DOMAIN doc.ops = 1..Len(doc.ops)
    BY OperationsTyped DEF ParserInv
  <2>2. op = 1 \/ op \in DOMAIN doc.ops
    BY DEF TypeInv, InfoInv
  <2> QED BY <2>1, <2>2 DEF Larger
<1>2. \A i \in DOMAIN todo : todo[i].sel \in Sels(doc) /\ Len(todo[i].prefix) = todo[i].depth
  <2>1. CASE pc = "walk"
    <3>1. HangsFrom(todo, cur.fieldPaths)
      BY <2>1 DEF PathInv
    <3>2. todo \in Seq(Work(doc))
      BY <2>1 DEF ParserInv, WalkInv, SearchInv, StackInv
    <3>3. \A i \in DOMAIN todo : todo[i] \in Work(doc)
      BY <3>2
    <3> QED BY <3>1, <3>3 DEF HangsFrom, Work
  <2>2. CASE pc # "walk"
    <3>1. todo = <<>>
      BY <2>2 DEF TypeInv
    <3> QED BY <3>1
  <2> QED BY <2>1, <2>2
<1>3. ParserTypeOK
  BY <1>1, <1>2 DEF ParserTypeOK, TypeInv, Measurable
<1> QED BY <1>3 DEF TypeOK, TypeInv

\* For all documents and settings, the types of the parser and of the decision
\* are as stated: no counter is missing or becomes something other than a number,
\* and the depth of what waits is the length of its path.
THEOREM InspectionTypes == Spec => []TypeOK
<1>1. Init => InfoInv /\ TypeInv
  <2> SUFFICES ASSUME Init PROVE InfoInv /\ TypeInv
    OBVIOUS
  <2>1. Measurable(NewInfo)
    BY DEF Measurable, NewInfo, Measures
  <2> QED BY <2>1 DEF Init, ParserInit, InfoInv, TypeInv
<1>2. ParserInv /\ PathInv /\ InfoInv /\ TypeInv => TypeOK
  BY TypesAreOK
<1> QED BY <1>1, <1>2, ParserInvariant, PathInvariant, InfoStep, TypeStep, PTL DEF Spec

-----------------------------------------------------------------------------
(* The other limits.                                                       *)

\* Every field that operation o reaches has one of its paths among ps.
Sampled(d, o, ps) ==
  \A n \in OfKind(d, o, {"field"}) :
    \E q \in Paths(d) : /\ <<n, q>> \in Expansion(d, o, Len(d.sels))
                        /\ PathAt(d, n, q) \in Range(ps)

\* The weights and the paths of a result r cover operation o.
Outweighs(d, o, r) ==
  /\ FragmentDirectives(d) + DirsOf(d, Reached(d, o)) <= r.directives
  /\ Deepest(d, OfKind(d, o, {"field"})) <= r.argumentDepth
  /\ SpreadOnce(d, o) => Requested(d, o) \subseteq Range(r.fieldPaths)
  /\ Sampled(d, o, r.fieldPaths)

\* The result outweighs the operations that have been walked.
WeighedInv ==
  pc \in {"operation", "walk", "parsed"} =>
    \A o \in DOMAIN doc.ops : o < op \/ pc = "parsed" => Outweighs(doc, o, info)

LEMMA WeightsAreNatural ==
  ASSUME NEW d \in Docs, NEW o
  PROVE  /\ FragmentDirectives(d) \in Nat /\ DirsOf(d, Reached(d, o)) \in Nat
         /\ Deepest(d, OfKind(d, o, {"field"})) \in Nat
<1>1. Reached(d, o) \in SUBSET Sels(d) /\ OfKind(d, o, {"field"}) \in SUBSET Sels(d)
  BY DEF Reached, OfKind
<1> QED BY <1>1, FragmentDirectivesTyped, DirsSum, DeepestIsLevels

LEMMA ConcatRange ==
  ASSUME NEW V, NEW f \in Seq(V), NEW g \in Seq(V)
  PROVE  Range(f \o g) = Range(f) \cup Range(g)
<1> DEFINE h == f \o g
<1>1. /\ h \in Seq(V)
      /\ Len(h) = Len(f) + Len(g)
      /\ \A i \in 1..Len(h) : h[i] = IF i <= Len(f) THEN f[i] ELSE g[i - Len(f)]
  BY ConcatProperties
<1>2. /\ Len(f) \in Nat /\ Len(g) \in Nat
      /\ DOMAIN f = 1..Len(f) /\ DOMAIN g = 1..Len(g) /\ DOMAIN h = 1..Len(h)
  BY <1>1
<1> HIDE DEF h
<1>3. \A i \in DOMAIN h : \/ i \in DOMAIN f /\ h[i] = f[i]
                          \/ i - Len(f) \in DOMAIN g /\ h[i] = g[i - Len(f)]
  BY <1>1, <1>2
<1>4. \A i \in DOMAIN f : i \in DOMAIN h /\ h[i] = f[i]
  BY <1>1, <1>2
<1>5. \A i \in DOMAIN g : i + Len(f) \in DOMAIN h /\ h[i + Len(f)] = g[i]
  BY <1>1, <1>2
<1>6. Range(h) \subseteq Range(f) \cup Range(g)
  BY <1>3 DEF Range
<1>7. Range(f) \subseteq Range(h) /\ Range(g) \subseteq Range(h)
  BY <1>4, <1>5 DEF Range
<1> QED BY <1>6, <1>7 DEF h

\* When the walk of an operation ends, each of its fields has a path.
LEMMA SampledInFull ==
  ASSUME ParserInv, pc = "walk", todo = <<>>
  PROVE  Sampled(doc, op, cur.fieldPaths)
<1> DEFINE N == Len(doc.sels)
<1>1. doc \in Docs /\ visits \in Nat /\ visits <= N /\ N \in Nat
  BY DocAssumption DEF ParserInv
<1>2. PICK S \in SUBSET Sels(doc) :
        /\ SearchInv(doc, op, <<>>, visited, S)
        /\ PlaceInv(doc, op, <<>>, visited, cur.fieldPaths, S, visits)
  BY DEF ParserInv, WalkInv
<1>3. PICK at \in [Sels(doc) -> Paths(doc)] :
        PlacedBy(doc, op, <<>>, visited, cur.fieldPaths, S, visits, at)
  BY <1>2 DEF PlaceInv
<1>4. S = Reached(doc, op)
  BY <1>1, <1>2, Finished
<1>5. Expansion(doc, op, visits) \subseteq Expansion(doc, op, N)
  BY <1>1, ExpansionKept
<1> HIDE DEF N
<1> SUFFICES ASSUME NEW n \in OfKind(doc, op, {"field"})
             PROVE  /\ at[n] \in Paths(doc) /\ <<n, at[n]>> \in Expansion(doc, op, N)
                    /\ PathAt(doc, n, at[n]) \in Range(cur.fieldPaths)
  BY DEF Sampled, N
<1>6. n \in S /\ n \in Sels(doc) /\ n \in Those(doc, S, {"field"})
  BY <1>4 DEF OfKind, Those, Reached
<1>7. <<n, at[n]>> \in Expansion(doc, op, visits)
  BY <1>3, <1>6 DEF PlacedBy
<1>8. PathAt(doc, n, at[n]) \in Range(cur.fieldPaths)
  BY <1>3, <1>6 DEF PlacedBy, PathsOf
<1> QED BY <1>3, <1>5, <1>6, <1>7, <1>8

LEMMA SampledByMore ==
  ASSUME NEW d, NEW o, NEW ps, NEW qs, Sampled(d, o, ps), Range(ps) \subseteq Range(qs)
  PROVE  Sampled(d, o, qs)
BY DEF Sampled

LEMMA EndWeights ==
  ASSUME ParserInv, PathInv, TypeInv, WeighedInv, op \in DOMAIN doc.ops, EndOperation
  PROVE  \A o \in DOMAIN doc.ops : o <= op => Outweighs(doc, o, info')
<1>1. pc = "walk" /\ todo = <<>> /\ doc \in Docs
  BY DEF EndOperation, ParserInv
<1> DEFINE fd == FragmentDirectives(doc)
           D(o) == DirsOf(doc, Reached(doc, o))
           A(o) == Deepest(doc, OfKind(doc, o, {"field"}))
<1>2. fd \in Nat /\ \A o : D(o) \in Nat /\ A(o) \in Nat
  BY <1>1, WeightsAreNatural
<1>3. cur.directives = D(op) /\ cur.argumentDepth = A(op)
  <2>1. PICK S \in SUBSET Sels(doc) : /\ SearchInv(doc, op, <<>>, visited, S)
                                     /\ WeightInv(doc, cur, S)
    BY <1>1 DEF ParserInv, WalkInv
  <2>2. S = Reached(doc, op)
    BY <1>1, <2>1, Finished
  <2>3. Those(doc, S, {"field"}) = OfKind(doc, op, {"field"})
    BY <2>2 DEF Those, OfKind
  <2> QED BY <2>1, <2>2, <2>3 DEF WeightInv
<1>4. SpreadOnce(doc, op) => Requested(doc, op) \subseteq Range(cur.fieldPaths)
  BY <1>1, PlacedInFull DEF PathsAreRequested, OperationWalked, Recorded, Range
<1>4a. Sampled(doc, op, cur.fieldPaths)
  BY <1>1, SampledInFull
<1>5. /\ cur.fieldPaths \in Seq(Paths(doc)) /\ info.fieldPaths \in Seq(Paths(doc))
      /\ {"fieldPaths", "directives", "argumentDepth"} \subseteq DOMAIN cur
      /\ {"fieldPaths", "directives", "argumentDepth"} \subseteq DOMAIN info
      /\ info.directives \in Nat /\ info.argumentDepth \in Nat
  BY DEF PathInv, RootedInv, Measured, TypeInv, Measurable, Measures
<1>6. /\ cur'.directives = D(op) + fd /\ cur'.argumentDepth = A(op)
      /\ cur'.fieldPaths = cur.fieldPaths /\ info' = Aggregate(info, cur')
  BY <1>3, <1>5 DEF EndOperation
<1>7. /\ info'.directives = Larger(D(op) + fd, info.directives)
      /\ info'.argumentDepth = Larger(A(op), info.argumentDepth)
      /\ info'.fieldPaths = info.fieldPaths \o cur.fieldPaths
  BY <1>5, <1>6 DEF Aggregate, Measures
<1>8. Range(info'.fieldPaths) = Range(info.fieldPaths) \cup Range(cur.fieldPaths)
  BY <1>5, <1>7, ConcatRange
<1> HIDE DEF fd, D, A
<1>9. /\ info'.directives >= info.directives /\ info'.directives >= fd + D(op)
      /\ info'.argumentDepth >= info.argumentDepth /\ info'.argumentDepth >= A(op)
      /\ info'.directives \in Nat /\ info'.argumentDepth \in Nat
  BY <1>2, <1>5, <1>7 DEF Larger
<1> SUFFICES ASSUME NEW o \in DOMAIN doc.ops, o <= op PROVE Outweighs(doc, o, info')
  OBVIOUS
<1>10. CASE o = op
  <2>1. Sampled(doc, o, info'.fieldPaths)
    BY <1>4a, <1>8, <1>10, SampledByMore
  <2> QED BY <1>4, <1>8, <1>9, <1>10, <2>1 DEF Outweighs, fd, D, A
<1>11. CASE o < op
  <2>1. /\ fd + D(o) <= info.directives /\ A(o) <= info.argumentDepth
        /\ SpreadOnce(doc, o) => Requested(doc, o) \subseteq Range(info.fieldPaths)
        /\ Sampled(doc, o, info.fieldPaths)
    BY <1>1, <1>11 DEF WeighedInv, Outweighs, fd, D, A
  <2>2. fd + D(o) <= info'.directives /\ A(o) <= info'.argumentDepth
    BY <1>2, <1>5, <1>9, <2>1
  <2>3. Sampled(doc, o, info'.fieldPaths)
    BY <1>8, <2>1, SampledByMore
  <2> QED BY <1>8, <2>1, <2>2, <2>3 DEF Outweighs, fd, D, A
<1>12. o \in Int /\ op \in Int
  BY <1>1, OperationsTyped
<1> QED BY <1>10, <1>11, <1>12

LEMMA WeighedInvStep ==
  ASSUME ParserInv, PathInv, InfoInv, TypeInv, WeighedInv, [Next]_vars
  PROVE  WeighedInv'
<1>1. CASE Parse
  <2>1. pc = "parse" /\ op' = op /\ doc' = doc /\ pc' \in {"rejected", "operation"}
    BY <1>1 DEF Parse
  <2>2. op = 1
    BY <2>1 DEF InfoInv
  <2>3. \A o \in DOMAIN doc.ops : ~(o < 1)
    BY OperationsTyped DEF ParserInv
  <2> QED BY <2>1, <2>2, <2>3 DEF WeighedInv
<1>2. CASE BeginOperation
  <2>1. pc = "operation" /\ pc' = "walk" /\ doc' = doc /\ op' = op /\ info' = info
    BY <1>2 DEF BeginOperation
  <2> QED BY <2>1 DEF WeighedInv
<1>3. CASE VisitField \/ VisitInline \/ VisitSpread
  <2>1. pc' = pc /\ doc' = doc /\ op' = op /\ info' = info
    BY <1>3 DEF VisitField, VisitInline, VisitSpread, Visit
  <2> QED BY <2>1 DEF WeighedInv
<1>4. CASE EndOperation
  <2>1. /\ pc = "walk" /\ doc' = doc
        /\ \/ op' = op + 1 /\ pc' = "operation"
           \/ ~(op < Len(doc.ops)) /\ op' = op /\ pc' = "parsed"
    BY <1>4 DEF EndOperation, MoreOperations
  <2>2. Len(doc.ops) \in Nat /\ DOMAIN doc.ops = 1..Len(doc.ops) /\ op \in DOMAIN doc.ops
    BY <2>1, OperationsTyped DEF ParserInv, InfoInv
  <2>3. \A o \in DOMAIN doc.ops : o <= op => Outweighs(doc, o, info')
    BY <1>4, <2>2, EndWeights
  <2>4. \A o \in DOMAIN doc.ops : o < op' \/ pc' = "parsed" => o <= op
    BY <2>1, <2>2
  <2> QED BY <2>1, <2>3, <2>4 DEF WeighedInv
<1>5. CASE UNCHANGED parserVars
  BY <1>5 DEF WeighedInv, parserVars
<1> QED BY <1>1, <1>2, <1>3, <1>4, <1>5 DEF Next, ParserNext, Inspect, vars

LEMMA PrefixOfPrefix ==
  ASSUME NEW V, NEW p \in Seq(V), NEW n \in 1..Len(p)
  PROVE  /\ Len(SubSeq(p, 1, n)) = n
         /\ SubSeq(SubSeq(p, 1, n), 1, n - 1) = SubSeq(p, 1, n - 1)
<1> DEFINE q == SubSeq(p, 1, n)
           a == SubSeq(q, 1, n - 1)
           b == SubSeq(p, 1, n - 1)
<1>1. Len(p) \in Nat /\ n \in Int /\ n - 1 \in Int /\ \A i \in 1..Len(p) : p[i] \in V
  OBVIOUS
<1>2. q \in Seq(V) /\ Len(q) = n /\ \A i \in 1..n : q[i] = p[i]
  <2>1. \A i \in 1..n : p[i] \in V
    BY <1>1
  <2>2. /\ q \in Seq(V) /\ Len(q) = IF 1 <= n THEN n - 1 + 1 ELSE 0
        /\ \A i \in 1..(n - 1 + 1) : q[i] = p[1 + i - 1]
    BY <1>1, <2>1, SubSeqProperties
  <2> HIDE DEF q
  <2> QED BY <1>1, <2>2
<1> HIDE DEF q
<1>3. /\ a \in Seq(V) /\ Len(a) = n - 1
      /\ \A i \in 1..(n - 1) : a[i] = q[i]
  <2>1. \A i \in 1..(n - 1) : q[i] \in V
    BY <1>1, <1>2
  <2>2. /\ a \in Seq(V) /\ Len(a) = IF 1 <= n - 1 THEN (n - 1) - 1 + 1 ELSE 0
        /\ \A i \in 1..((n - 1) - 1 + 1) : a[i] = q[1 + i - 1]
    BY <1>1, <2>1, SubSeqProperties
  <2> HIDE DEF a
  <2> QED BY <1>1, <2>2
<1>4. /\ b \in Seq(V) /\ Len(b) = n - 1
      /\ \A i \in 1..(n - 1) : b[i] = p[i]
  <2>1. \A i \in 1..(n - 1) : p[i] \in V
    BY <1>1
  <2>2. /\ b \in Seq(V) /\ Len(b) = IF 1 <= n - 1 THEN (n - 1) - 1 + 1 ELSE 0
        /\ \A i \in 1..((n - 1) - 1 + 1) : b[i] = p[1 + i - 1]
    BY <1>1, <2>1, SubSeqProperties
  <2> HIDE DEF b
  <2> QED BY <1>1, <2>2
<1> HIDE DEF a, b
<1>5. \A i \in 1..(n - 1) : a[i] = b[i]
  BY <1>1, <1>2, <1>3, <1>4
<1>6. a = b
  BY <1>3, <1>4, <1>5, SeqEqual
<1> QED BY <1>2, <1>6 DEF q, a, b

\* A part of a path at its beginning is recorded if the path is.
LEMMA PrefixRecorded ==
  ASSUME NEW d, NEW r, RootedInv(d, r), NEW p \in Range(r.fieldPaths),
         NEW n \in 1..Len(p)
  PROVE  SubSeq(p, 1, n) \in Range(r.fieldPaths)
<1> DEFINE f == r.fieldPaths
           P(k) == k < Len(p) => SubSeq(p, 1, Len(p) - k) \in Range(f)
           T == {k \in Nat : P(k)}
<1>1. f \in Seq(Paths(d)) /\ Parents(f)
  BY DEF RootedInv, Measured
<1>2. p \in Paths(d)
  <2> HIDE DEF f
  <2>1. p \in Range(f)
    BY DEF f
  <2> QED BY <1>1, <2>1 DEF Range
<1> HIDE DEF f
<1>3. Len(p) \in Nat /\ SubSeq(p, 1, Len(p)) = p
  BY <1>2 DEF Paths
<1>4. 0 \in T
  <2>1. Len(p) - 0 = Len(p) /\ p \in Range(f)
    BY <1>3 DEF f
  <2> QED BY <1>3, <2>1
<1>5. ASSUME NEW k \in Nat, k \in T PROVE k + 1 \in T
  <2> SUFFICES ASSUME k + 1 < Len(p) PROVE SubSeq(p, 1, Len(p) - (k + 1)) \in Range(f)
    OBVIOUS
  <2> DEFINE q == SubSeq(p, 1, Len(p) - k)
  <2>1. q \in Range(f)
    BY <1>3, <1>5
  <2>2. PICK i \in DOMAIN f : q = f[i]
    BY <2>1 DEF Range
  <2>3. Len(q) = Len(p) - k /\ SubSeq(q, 1, Len(q) - 1) = SubSeq(p, 1, Len(p) - (k + 1))
    <3>1. Len(p) - k \in 1..Len(p) /\ (Len(p) - k) - 1 = Len(p) - (k + 1)
      BY <1>3
    <3> QED BY <1>2, <3>1, PrefixOfPrefix DEF Paths
  <2> HIDE DEF q
  <2>4. Len(q) > 1
    BY <1>3, <2>3
  <2>5. PICK j \in 1..(i - 1) : f[j] = SubSeq(q, 1, Len(q) - 1)
    BY <1>1, <2>2, <2>4 DEF Parents
  <2>6. j \in DOMAIN f
    BY <1>1, <2>2, <2>5
  <2> QED BY <2>3, <2>5, <2>6 DEF Range
<1>6. Nat \subseteq T
  <2> HIDE DEF T
  <2> QED BY <1>4, <1>5, NatInduct
<1>7. Len(p) - n \in T /\ Len(p) - n < Len(p) /\ Len(p) - (Len(p) - n) = n
  BY <1>3, <1>6
<1> QED BY <1>7 DEF f

LEMMA ProductGrows ==
  ASSUME NEW a \in Nat, NEW b \in Nat, NEW c \in Nat, NEW e \in Nat, a <= b, c <= e
  PROVE  a * c <= b * e /\ a * c \in Nat /\ b * e \in Nat
<1>1. PICK x \in Nat : b = a + x
  <2>1. b - a \in Nat /\ b = a + (b - a)
    OBVIOUS
  <2> QED BY <2>1
<1>2. PICK y \in Nat : e = c + y
  <2>1. e - c \in Nat /\ e = c + (e - c)
    OBVIOUS
  <2> QED BY <2>1
<1>3. a * c \in Nat /\ a * y \in Nat /\ x * c \in Nat /\ x * y \in Nat
  OBVIOUS
<1>4. b * e = a * c + a * y + x * c + x * y
  BY <1>1, <1>2
<1> QED BY <1>3, <1>4

\* The rules on weights, cost and paths let the result pass under these limits.
Passes(r, limits) ==
  /\ ~Exceeds(OmitZero(r.directives), Get(limits, "max_directives"))
  /\ ~Exceeds(OmitZero(r.argumentDepth), Get(limits, "max_argument_depth"))
  /\ ~Exceeds(r.depth, Get(limits, "depth_limit"))
  /\ ~Exceeds(r.depth * r.fieldCount, Get(limits, "cost_budget"))
  /\ "field_blocklist" \in DOMAIN limits =>
       limits.field_blocklist \cap Range(r.fieldPaths) = {}
  /\ "field_allowlist" \in DOMAIN limits /\ limits.field_allowlist # {} =>
       \A p \in Range(r.fieldPaths) : \E a \in limits.field_allowlist : StartsWith(p, a)

WellFormed(limits) ==
  /\ \A key \in DOMAIN limits \cap NumberLimits : limits[key] \in Int
  /\ \A key \in DOMAIN limits \cap {"field_blocklist", "field_allowlist"} :
       /\ limits[key] # Undef
       /\ \A p \in limits[key] : p \in Seq({p[i] : i \in DOMAIN p}) /\ p # <<>>

\* What passes is within the limits.
LEMMA PassingIsWithin ==
  ASSUME doc \in Docs, PathInv, TypeInv, NEW o, Covers(doc, o, info),
         Outweighs(doc, o, info), NEW limits, WellFormed(limits), Passes(info, limits)
  PROVE  WithinLimits(o, limits)
<1> DEFINE fields == OfKind(doc, o, {"field"})
           paths == Requested(doc, o)
           lengths == {0} \cup {Len(p) : p \in paths}
           depth == Max(lengths)
           recorded == Range(info.fieldPaths)
<1>1. /\ info.directives \in Nat /\ info.argumentDepth \in Nat /\ info.depth \in Nat
      /\ info.fieldCount \in Nat
  BY DEF TypeInv, Measurable, Measures
<1>2. \A key \in NumberLimits : key \in DOMAIN limits => limits[key] \in Int
  BY DEF WellFormed
<1>3. Limit(limits, "max_directives", FragmentDirectives(doc)
              + MapThenSumSet(LAMBDA n : doc.sels[n].dirs, Reached(doc, o)))
  <2> DEFINE fd == FragmentDirectives(doc)
             n == DirsOf(doc, Reached(doc, o))
  <2>1. fd \in Nat /\ n \in Nat /\ fd + n <= info.directives
    BY WeightsAreNatural DEF Outweighs
  <2>2. ~Exceeds(OmitZero(info.directives), Get(limits, "max_directives"))
    BY DEF Passes
  <2>3. "max_directives" \in DOMAIN limits => limits["max_directives"] \in Int
    BY <1>2 DEF NumberLimits
  <2> HIDE DEF fd, n
  <2>4. fd + n \in Nat
    BY <2>1
  <2>5. Limit(limits, "max_directives", fd + n)
    BY <1>1, <2>1, <2>2, <2>3, <2>4, NotExceeded
  <2> QED BY <2>5 DEF fd, n, DirsOf
<1>4. ASSUME NEW k \in 1..Cardinality(Values), ValuesAt(doc, fields, k) # {}
      PROVE  Limit(limits, "max_argument_depth", k)
  <2> DEFINE m == Deepest(doc, fields)
  <2>1. m \in Nat /\ m <= info.argumentDepth
    BY WeightsAreNatural DEF Outweighs
  <2>2. {j \in 1..Cardinality(Values) : ValuesAt(doc, fields, j) # {}} = 1..m
    <3>1. fields \in SUBSET Sels(doc)
      BY DEF OfKind, Reached
    <3> HIDE DEF fields
    <3> QED BY <3>1, DeepestIsLevels
  <2> HIDE DEF m, fields
  <2>3. k \in 1..m
    BY <1>4, <2>2
  <2>4. k \in Nat /\ k <= info.argumentDepth
    BY <1>1, <2>1, <2>3
  <2>5. ~Exceeds(OmitZero(info.argumentDepth), Get(limits, "max_argument_depth"))
    BY DEF Passes
  <2>6. "max_argument_depth" \in DOMAIN limits => limits["max_argument_depth"] \in Int
    BY <1>2 DEF NumberLimits
  <2> QED BY <1>1, <2>4, <2>5, <2>6, NotExceeded
<1>5. ASSUME SpreadOnce(doc, o)
      PROVE  /\ Limit(limits, "depth_limit", depth)
             /\ Limit(limits, "cost_budget", depth * Cardinality(fields))
             /\ "field_blocklist" \in DOMAIN limits =>
                  \A b \in limits.field_blocklist, p \in paths :
                    ~(Len(b) <= Len(p) /\ SubSeq(p, 1, Len(b)) = b)
             /\ "field_allowlist" \in DOMAIN limits /\ limits.field_allowlist # {} =>
                  \A p \in paths : \E a \in limits.field_allowlist : StartsWith(p, a)
  <2>1. paths \subseteq recorded
    BY <1>5 DEF Outweighs
  <2>2. RootedInv(doc, info)
    BY DEF PathInv
  <2>3. \A p \in recorded : Len(p) \in Nat /\ Len(p) <= info.depth
    <3>1. \A i \in DOMAIN info.fieldPaths : info.fieldPaths[i] \in Paths(doc)
      BY <2>2 DEF RootedInv, Measured
    <3>2. \A i \in DOMAIN info.fieldPaths : Len(info.fieldPaths[i]) <= info.depth
      BY <2>2 DEF RootedInv, Measured
    <3> QED BY <3>1, <3>2 DEF Range, Paths
  <2>4. depth \in Nat /\ depth <= info.depth
    <3> HIDE DEF paths, recorded
    <3>1. lengths \in SUBSET Nat /\ lengths # {} /\ \A x \in lengths : x <= info.depth
      BY <1>1, <2>1, <2>3
    <3> HIDE DEF lengths
    <3>2. Max(lengths) \in lengths
      BY <1>1, <3>1, MaxOfBounded
    <3> QED BY <3>1, <3>2
  <2> HIDE DEF depth
  <2>5. Limit(limits, "depth_limit", depth)
    <3>1. ~Exceeds(info.depth, Get(limits, "depth_limit"))
      BY DEF Passes
    <3>2. "depth_limit" \in DOMAIN limits => limits["depth_limit"] \in Int
      BY <1>2 DEF NumberLimits
    <3> QED BY <1>1, <2>4, <3>1, <3>2, NotExceeded
  <2>6. Limit(limits, "cost_budget", depth * Cardinality(fields))
    <3> DEFINE c == Cardinality(fields)
               x == depth * c
               y == info.depth * info.fieldCount
    <3>1. c \in Nat /\ c <= info.fieldCount
      BY SizesAreNatural DEF Covers
    <3> HIDE DEF c
    <3>2. x \in Nat /\ y \in Nat /\ x <= y
      BY <1>1, <2>4, <3>1, ProductGrows
    <3>3. ~Exceeds(y, Get(limits, "cost_budget"))
      BY DEF Passes
    <3>4. "cost_budget" \in DOMAIN limits => limits["cost_budget"] \in Int
      BY <1>2 DEF NumberLimits
    <3> HIDE DEF x, y
    <3>5. Limit(limits, "cost_budget", x)
      BY <3>2, <3>3, <3>4, NotExceeded
    <3> QED BY <3>5 DEF x, c
  <2> HIDE DEF paths, fields
  <2>7. ASSUME "field_blocklist" \in DOMAIN limits, NEW b \in limits.field_blocklist,
               NEW p \in paths, Len(b) <= Len(p), SubSeq(p, 1, Len(b)) = b
        PROVE  FALSE
    <3>1. b \in Seq({b[i] : i \in DOMAIN b}) /\ b # <<>>
      BY <2>7 DEF WellFormed
    <3>2. Len(b) \in Nat /\ Len(b) # 0
      BY <3>1
    <3>3. p \in recorded /\ Len(p) \in Nat
      BY <2>1, <2>3
    <3>4. Len(b) \in 1..Len(p)
      BY <2>7, <3>2, <3>3
    <3>5. SubSeq(p, 1, Len(b)) \in recorded
      BY <2>2, <3>3, <3>4, PrefixRecorded
    <3>6. limits.field_blocklist \cap recorded = {}
      BY <2>7 DEF Passes
    <3> QED BY <2>7, <3>5, <3>6
  <2>8. ASSUME "field_allowlist" \in DOMAIN limits, limits.field_allowlist # {},
               NEW p \in paths
        PROVE  \E a \in limits.field_allowlist : StartsWith(p, a)
    BY <2>1, <2>8 DEF Passes
  <2> QED BY <2>5, <2>6, <2>7, <2>8
<1>6. Unaliased(doc) => FieldPaths(doc, o) = paths
  BY DEF Unaliased, FieldPaths
<1> QED BY <1>3, <1>4, <1>5, <1>6 DEF WithinLimits

\* What the policy allows passes.
LEMMA AllowedPasses ==
  ASSUME TypeInv, NEW s \in Settings, allow(BuildInput(info, s.params, s.config))
  PROVE  /\ WellFormed(s.params) /\ Passes(info, s.params)
         /\ WellFormed(TenantLimits(s.config)) /\ Passes(info, TenantLimits(s.config))
<1> DEFINE in == BuildInput(info, s.params, s.config)
           recorded == Range(info.fieldPaths)
           t == TenantLimits(s.config)
<1>1. /\ in.depth = info.depth /\ in.field_count = info.fieldCount
      /\ in.directives = OmitZero(info.directives)
      /\ in.argument_depth = OmitZero(info.argumentDepth)
      /\ in.field_paths = recorded
      /\ in.params = s.params /\ in.tenant_config = s.config
  BY DEF BuildInput, Range
<1>2. ~GlobalRules(in) /\ ~tenant_rules(in)
  BY AllowMeans
<1> HIDE DEF in, recorded
<1>3. info.depth # Undef /\ info.fieldCount # Undef
  <2>1. info["depth"] \in Nat /\ info["fieldCount"] \in Nat
    BY DEF TypeInv, Measurable, Measures
  <2>2. Undef \notin Int
    BY InspectionAssumption
  <2> QED BY <2>1, <2>2
<1>4. Elements(in.field_paths) = recorded
  <2>1. "field_paths" \notin missing_field(in)
    BY <1>2 DEF GlobalRules
  <2>2. in["field_paths"] # Undef
    BY <2>1 DEF missing_field
  <2> QED BY <1>1, <2>2 DEF Elements
<1>5. WellFormed(s.params) /\ WellFormed(s.config)
  BY SettingsAssumption DEF WellFormed
<1>6. /\ ~Exceeds(OmitZero(info.directives), Get(s.params, "max_directives"))
      /\ ~Exceeds(OmitZero(info.argumentDepth), Get(s.params, "max_argument_depth"))
      /\ ~Exceeds(info.depth, Get(s.params, "depth_limit"))
      /\ ~Exceeds(info.depth * info.fieldCount, Get(s.params, "cost_budget"))
  BY <1>1, <1>2, <1>3 DEF GlobalRules, max_directives, max_argument_depth, depth_limit,
       cost_budget, Param
<1>7. ASSUME "field_blocklist" \in DOMAIN s.params
      PROVE  s.params.field_blocklist \cap recorded = {}
  <2>1. Get(s.params, "field_blocklist") = s.params["field_blocklist"]
    BY <1>7 DEF Get
  <2>2. s.params["field_blocklist"] # Undef
    BY <1>5, <1>7 DEF WellFormed
  <2>3. Elements(Get(s.params, "field_blocklist")) \cap recorded = {}
    BY <1>1, <1>2, <1>4 DEF GlobalRules, field_blocklist, Blocked, Param
  <2> QED BY <2>1, <2>2, <2>3 DEF Elements
<1>8. ASSUME "field_allowlist" \in DOMAIN s.params, s.params.field_allowlist # {}
      PROVE  \A p \in recorded : \E a \in s.params.field_allowlist : StartsWith(p, a)
  <2>1. Get(s.params, "field_allowlist") = s.params["field_allowlist"]
    BY <1>8 DEF Get
  <2>2. s.params["field_allowlist"] # Undef
    BY <1>5, <1>8 DEF WellFormed
  <2>3. Elements(Param(in, "field_allowlist")) = s.params["field_allowlist"]
    BY <1>1, <2>1, <2>2 DEF Elements, Param
  <2> QED BY <1>2, <1>4, <1>8, <2>3 DEF GlobalRules, field_allowlist, field_on_allowlist
<1>9. Passes(info, s.params)
  BY <1>6, <1>7, <1>8 DEF Passes, recorded
<1>10. /\ DOMAIN t \subseteq DOMAIN s.config \cap {"depth_limit", "max_field_count",
                                                  "field_blocklist"}
       /\ \A key \in DOMAIN t : t[key] = s.config[key]
       /\ "depth_limit" \in DOMAIN s.config => "depth_limit" \in DOMAIN t
  BY DEF TenantLimits, Restrict
<1> HIDE DEF t
<1>11. WellFormed(t)
  BY <1>5, <1>10 DEF WellFormed
<1>12. /\ Get(t, "max_directives") = Undef /\ Get(t, "max_argument_depth") = Undef
       /\ Get(t, "cost_budget") = Undef /\ "field_allowlist" \notin DOMAIN t
       /\ Get(t, "depth_limit") = Get(s.config, "depth_limit")
  BY <1>10 DEF Get
<1>13. ~Exceeds(info.depth, Get(t, "depth_limit"))
  BY <1>1, <1>2, <1>12 DEF tenant_rules, Tenant
<1>14. ASSUME "field_blocklist" \in DOMAIN t
       PROVE  t.field_blocklist \cap recorded = {}
  <2>1. "field_blocklist" \in DOMAIN s.config
        /\ t["field_blocklist"] = s.config["field_blocklist"]
    BY <1>10, <1>14
  <2>2. Get(s.config, "field_blocklist") = s.config["field_blocklist"]
    BY <2>1 DEF Get
  <2>3. s.config["field_blocklist"] # Undef
    BY <1>5, <2>1 DEF WellFormed
  <2>4. Elements(Get(s.config, "field_blocklist")) \cap recorded = {}
    BY <1>1, <1>2, <1>4 DEF tenant_rules, Blocked, Tenant
  <2> QED BY <2>1, <2>2, <2>3, <2>4 DEF Elements
<1>15. Passes(info, t)
  BY <1>12, <1>13, <1>14 DEF Passes, Exceeds, recorded
<1> QED BY <1>5, <1>9, <1>11, <1>15 DEF t

\* For all documents and settings, a query that the policy allows keeps to the
\* limits on directives and arguments, in each of its operations; to those on depth
\* and cost where no fragment is spread twice; and there, if no field has an alias,
\* the fields it requests of the upstream keep to the lists of paths
\* (parseGraphQL, BuildInput, graphql.rego).
THEOREM AllowedQueriesAreWithinLimits == Spec => []AllowedIsWithinLimits
<1>1. Init => DecidedInv /\ InfoInv /\ TypeInv /\ WeighedInv
  <2> SUFFICES ASSUME Init PROVE DecidedInv /\ InfoInv /\ TypeInv /\ WeighedInv
    OBVIOUS
  <2>1. Measurable(NewInfo)
    BY DEF Measurable, NewInfo, Measures
  <2> QED BY <2>1 DEF Init, ParserInit, DecidedInv, InfoInv, TypeInv, WeighedInv
<1>2. ParserInv /\ PathInv /\ InfoInv /\ TypeInv /\ WeighedInv /\ DecidedInv
        => AllowedIsWithinLimits
  <2> SUFFICES ASSUME ParserInv, PathInv, InfoInv, TypeInv, WeighedInv, DecidedInv, Allowed,
                      NEW o \in Ops
               PROVE  /\ WithinLimits(o, with.params)
                      /\ WithinLimits(o, TenantLimits(with.config))
    BY DEF AllowedIsWithinLimits
  <2>1. /\ pc = "parsed" /\ with \in Settings /\ doc \in Docs
        /\ allow(BuildInput(info, with.params, with.config))
    BY DEF DecidedInv, Allowed, ParserInv
  <2>2. Covers(doc, o, info) /\ Outweighs(doc, o, info)
    BY <2>1 DEF InfoInv, WeighedInv, Ops
  <2>3. /\ WellFormed(with.params) /\ Passes(info, with.params)
        /\ WellFormed(TenantLimits(with.config)) /\ Passes(info, TenantLimits(with.config))
    BY <2>1, AllowedPasses
  <2> QED BY <2>1, <2>2, <2>3, PassingIsWithin
<1> QED BY <1>1, <1>2, ParserInvariant, PathInvariant, DecidedStep, InfoStep, TypeStep,
       WeighedInvStep, PTL DEF Spec

-----------------------------------------------------------------------------
(* The types of the schema along a path.                                   *)

\* The types that lead from root along q: f[i] is where its first i segments lead.
Leads(root, q, f) ==
  f[0] = root /\ \A i \in Nat : f[i + 1] = FieldType(f[i], q[i + 1])

TypeOf(root, q) == (CHOOSE f : Leads(root, q, f))[Len(q)]

\* The types there are.
TypeNames(root) ==
  {root, NoType} \cup UNION {{resolveNamedType(Types[t][x]) : x \in DOMAIN Types[t]} :
                             t \in DOMAIN Types}

LEMMA TypesClosed ==
  ASSUME NEW root, NEW t, NEW x
  PROVE  FieldType(t, x) \in TypeNames(root)
<1>1. CASE HasField(t, x)
  BY <1>1 DEF FieldType, HasField, TypeNames
<1>2. CASE ~HasField(t, x)
  BY <1>2 DEF FieldType, TypeNames
<1> QED BY <1>1, <1>2

LEMMA LeadsSomewhere ==
  ASSUME NEW root, NEW q
  PROVE  \E f : Leads(root, q, f)
<1> DEFINE W == TypeNames(root)
           V == Nat \X W
           a == <<0, root>>
           next == [x \in V |-> <<x[1] + 1, FieldType(x[2], q[x[1] + 1])>>]
<1>1. root \in W /\ \A t, x : FieldType(t, x) \in W
  BY TypesClosed DEF TypeNames
<1> HIDE DEF W
<1>2. a \in V /\ next \in [V -> V]
  BY <1>1
<1>3. \A k \in Nat : \A t \in W : next[<<k, t>>] = <<k + 1, FieldType(t, q[k + 1])>>
  <2> SUFFICES ASSUME NEW k \in Nat, NEW t \in W
               PROVE  next[<<k, t>>] = <<k + 1, FieldType(t, q[k + 1])>>
    OBVIOUS
  <2>1. <<k, t>> \in V
    OBVIOUS
  <2> QED BY <2>1
<1>4. \A x \in V : x[1] \in Nat /\ x[2] \in W /\ x = <<x[1], x[2]>>
  OBVIOUS
<1> HIDE DEF V, next
<1>5. PICK g \in [Nat -> V] : g[0] = a /\ \A k \in Nat : g[k + 1] = next[g[k]]
  <2> HIDE DEF a
  <2>1. \A b \in V : \A n \in [V -> V] :
          \E f \in [Nat -> V] : f[0] = b /\ \A k \in Nat : f[k + 1] = n[f[k]]
    BY ONLY NatRecursion, SMTT(30)
  <2> QED BY <1>2, <2>1
<1> DEFINE T == {k \in Nat : g[k][1] = k}
<1>6. \A k \in Nat : g[k + 1] = <<g[k][1] + 1, FieldType(g[k][2], q[g[k][1] + 1])>>
  <2> SUFFICES ASSUME NEW k \in Nat
               PROVE  g[k + 1] = <<g[k][1] + 1, FieldType(g[k][2], q[g[k][1] + 1])>>
    OBVIOUS
  <2> DEFINE n == g[k][1]
             t == g[k][2]
  <2>1. g[k] \in V
    BY <1>5
  <2>2. n \in Nat /\ t \in W /\ g[k] = <<n, t>>
    BY <1>4, <2>1
  <2>3. g[k + 1] = next[g[k]]
    BY <1>5
  <2> HIDE DEF n, t
  <2>4. g[k + 1] = <<n + 1, FieldType(t, q[n + 1])>>
    BY <1>3, <2>2, <2>3
  <2> QED BY <2>4 DEF n, t
<1>7. 0 \in T /\ \A k \in Nat : k \in T => k + 1 \in T
  BY <1>5, <1>6
<1>8. Nat \subseteq T
  <2> HIDE DEF T
  <2> QED BY <1>7, NatInduct
<1> DEFINE f == [k \in Nat |-> g[k][2]]
<1>9. f[0] = root
  BY <1>5
<1>10. ASSUME NEW k \in Nat PROVE f[k + 1] = FieldType(f[k], q[k + 1])
  <2>1. g[k][1] = k
    BY <1>8
  <2>2. g[k + 1][2] = FieldType(g[k][2], q[k + 1])
    BY <1>6, <2>1
  <2>3. k + 1 \in Nat
    OBVIOUS
  <2> QED BY <2>2, <2>3
<1> HIDE DEF f
<1>11. Leads(root, q, f)
  BY <1>9, <1>10 DEF Leads
<1> QED BY <1>11

\* Paths that begin alike lead alike.
Alike(p, q, n) == \A i \in 1..n : p[i] = q[i]

LEMMA LeadAlike ==
  ASSUME NEW root, NEW p, NEW q, NEW f, NEW g, Leads(root, p, f), Leads(root, q, g),
         NEW n \in Nat, Alike(p, q, n)
  PROVE  \A i \in 0..n : f[i] = g[i]
<1> DEFINE T == {i \in Nat : i <= n => f[i] = g[i]}
<1>1. 0 \in T
  BY DEF Leads
<1>2. ASSUME NEW i \in Nat, i \in T PROVE i + 1 \in T
  <2> SUFFICES ASSUME i + 1 <= n PROVE f[i + 1] = g[i + 1]
    OBVIOUS
  <2>1. i <= n /\ i + 1 \in 1..n
    OBVIOUS
  <2>2. f[i] = g[i] /\ p[i + 1] = q[i + 1]
    BY <1>2, <2>1 DEF Alike
  <2> QED BY <2>2 DEF Leads
<1>3. Nat \subseteq T
  <2> HIDE DEF T
  <2> QED BY <1>1, <1>2, NatInduct
<1> QED BY <1>3

\* The types PathExists finds are those that lead along the path.
LEMMA PathExistsMeans ==
  ASSUME NEW root, NEW V, NEW p \in Seq(V), NEW f, Leads(root, p, f)
  PROVE  PathExists(root, p) <=> \A i \in 1..Len(p) : HasField(f[i - 1], p[i])
<1> DEFINE N == Len(p)
           typeAt[i \in 1..Len(p)] ==
             IF i = 1 THEN root ELSE StepInto(typeAt[i - 1], p[i - 1], root)
           Q(h) == h = [i \in 1..N |-> IF i = 1 THEN root
                                       ELSE FieldType(h[i - 1], p[i - 1])]
           g == [i \in 1..N |-> f[i - 1]]
<1>1. N \in Nat
  OBVIOUS
<1>2. PathExists(root, p) <=> \A i \in 1..N : HasField(typeAt[i], p[i])
  BY DEF PathExists
<1>3. typeAt = CHOOSE h : Q(h)
  BY DEF StepInto
<1> HIDE DEF typeAt, N
<1>4. Q(g)
  <2>1. ASSUME NEW i \in 1..N
        PROVE  f[i - 1] = IF i = 1 THEN root ELSE FieldType(g[i - 1], p[i - 1])
    <3>1. CASE i = 1
      BY <3>1 DEF Leads
    <3>2. CASE i # 1
      <4>1. i - 1 \in 1..N /\ i - 2 \in Nat /\ (i - 2) + 1 = i - 1 /\ (i - 1) - 1 = i - 2
        BY <1>1, <3>2
      <4>2. g[i - 1] = f[i - 2]
        BY <4>1
      <4>3. f[(i - 2) + 1] = FieldType(f[i - 2], p[(i - 2) + 1])
        BY <4>1 DEF Leads
      <4> QED BY <3>2, <4>1, <4>2, <4>3
    <3> QED BY <3>1, <3>2
  <2>2. g = [i \in 1..N |-> IF i = 1 THEN root ELSE FieldType(g[i - 1], p[i - 1])]
    BY <2>1
  <2> QED BY <2>2
<1>5. Q(typeAt)
  <2> HIDE DEF Q, g
  <2> QED BY <1>3, <1>4
<1>6. \A i \in 1..N : typeAt[i] = IF i = 1 THEN root ELSE FieldType(typeAt[i - 1], p[i - 1])
  <2> DEFINE e == [i \in 1..N |-> IF i = 1 THEN root ELSE FieldType(typeAt[i - 1], p[i - 1])]
  <2>1. typeAt = e
    BY <1>5
  <2>2. \A i \in 1..N : e[i] = IF i = 1 THEN root ELSE FieldType(typeAt[i - 1], p[i - 1])
    OBVIOUS
  <2> HIDE DEF e
  <2> QED BY <2>1, <2>2
<1> DEFINE T == {k \in Nat : k + 1 \in 1..N => typeAt[k + 1] = f[k]}
<1>7. 0 \in T
  BY <1>6 DEF Leads
<1>8. ASSUME NEW k \in Nat, k \in T PROVE k + 1 \in T
  <2> SUFFICES ASSUME (k + 1) + 1 \in 1..N PROVE typeAt[(k + 1) + 1] = f[k + 1]
    OBVIOUS
  <2>1. k + 1 \in 1..N /\ ((k + 1) + 1) - 1 = k + 1 /\ (k + 1) + 1 # 1
    BY <1>1
  <2>2. typeAt[k + 1] = f[k]
    BY <1>8, <2>1
  <2>3. typeAt[(k + 1) + 1] = FieldType(typeAt[k + 1], p[k + 1])
    BY <1>6, <2>1
  <2> QED BY <2>2, <2>3 DEF Leads
<1>9. Nat \subseteq T
  <2> HIDE DEF T
  <2> QED BY <1>7, <1>8, NatInduct
<1>10. \A i \in 1..N : typeAt[i] = f[i - 1]
  <2> SUFFICES ASSUME NEW i \in 1..N PROVE typeAt[i] = f[i - 1]
    OBVIOUS
  <2>1. i - 1 \in T /\ (i - 1) + 1 = i
    BY <1>9
  <2> QED BY <2>1
<1> QED BY <1>2, <1>10 DEF N

\* One more segment.
LEMMA OneMoreSegment ==
  ASSUME NEW root, NEW V, NEW q \in Seq(V), NEW x \in V
  PROVE  /\ TypeOf(root, Append(q, x)) = FieldType(TypeOf(root, q), x)
         /\ PathExists(root, Append(q, x)) <=>
              PathExists(root, q) /\ HasField(TypeOf(root, q), x)
<1> DEFINE p == Append(q, x)
           n == Len(q)
           f == CHOOSE h : Leads(root, q, h)
           g == CHOOSE h : Leads(root, p, h)
<1>1. Leads(root, q, f) /\ Leads(root, p, g)
  BY LeadsSomewhere
<1>2. TypeOf(root, q) = f[n] /\ TypeOf(root, p) = g[Len(p)]
  BY DEF TypeOf
<1>3. /\ p \in Seq(V) /\ n \in Nat /\ Len(p) = n + 1 /\ p[n + 1] = x
      /\ \A i \in 1..n : q[i] = p[i]
  OBVIOUS
<1> HIDE DEF p, n, f, g
<1>4. \A i \in 0..n : f[i] = g[i]
  <2>1. Alike(q, p, n)
    BY <1>3 DEF Alike
  <2> QED BY <1>1, <1>3, <2>1, LeadAlike
<1>5. n \in 0..n
  BY <1>3
<1>6. g[n + 1] = FieldType(f[n], x)
  BY <1>1, <1>3, <1>4, <1>5 DEF Leads
<1>7. PathExists(root, q) <=> \A i \in 1..n : HasField(f[i - 1], q[i])
  BY <1>1, PathExistsMeans DEF n
<1>8. PathExists(root, p) <=> \A i \in 1..(n + 1) : HasField(g[i - 1], p[i])
  BY <1>1, <1>3, PathExistsMeans
<1>9. /\ \A i \in 1..n : g[i - 1] = f[i - 1] /\ i \in 1..(n + 1) /\ q[i] = p[i]
      /\ n + 1 \in 1..(n + 1) /\ (n + 1) - 1 = n
      /\ \A i \in 1..(n + 1) : i = n + 1 \/ i \in 1..n
  BY <1>3, <1>4
<1>10. (\A i \in 1..(n + 1) : HasField(g[i - 1], p[i])) <=>
         (\A i \in 1..n : HasField(f[i - 1], q[i])) /\ HasField(f[n], x)
  <2>1. g[n] = f[n] /\ p[n + 1] = x
    BY <1>3, <1>4, <1>5
  <2>2. ASSUME \A i \in 1..(n + 1) : HasField(g[i - 1], p[i])
        PROVE  (\A i \in 1..n : HasField(f[i - 1], q[i])) /\ HasField(f[n], x)
    BY <1>9, <2>1, <2>2
  <2>3. ASSUME \A i \in 1..n : HasField(f[i - 1], q[i]), HasField(f[n], x),
               NEW i \in 1..(n + 1)
        PROVE  HasField(g[i - 1], p[i])
    <3>1. CASE i = n + 1
      BY <1>9, <2>1, <2>3, <3>1
    <3>2. CASE i \in 1..n
      BY <1>9, <2>3, <3>2
    <3> QED BY <1>9, <3>1, <3>2
  <2> QED BY <2>2, <2>3
<1>11. TypeOf(root, p) = FieldType(TypeOf(root, q), x)
  BY <1>2, <1>3, <1>6
<1>12. PathExists(root, p) <=> PathExists(root, q) /\ HasField(TypeOf(root, q), x)
  BY <1>2, <1>7, <1>8, <1>10
<1> QED BY <1>11, <1>12 DEF p

LEMMA NoSegment ==
  ASSUME NEW root
  PROVE  TypeOf(root, <<>>) = root /\ PathExists(root, <<>>)
<1> DEFINE f == CHOOSE h : Leads(root, <<>>, h)
<1>1. Leads(root, <<>>, f)
  BY LeadsSomewhere
<1>2. TypeOf(root, <<>>) = f[0]
  BY DEF TypeOf
<1> HIDE DEF f
<1>3. <<>> \in Seq({}) /\ Len(<<>>) = 0
  OBVIOUS
<1>4. PathExists(root, <<>>) <=> \A i \in 1..0 : HasField(f[i - 1], <<>>[i])
  BY <1>1, <1>3, PathExistsMeans
<1> QED BY <1>1, <1>2, <1>4 DEF Leads

-----------------------------------------------------------------------------
(* The paths and the schema.                                               *)

\* The typings, one step after the other.
LEMMA Typings ==
  ASSUME NEW d \in Docs, NEW o
  PROVE  /\ Typing(d, o, 0) = {<<n, Roots[d.ops[o].type]>> : n \in Top(d, o)}
         /\ \A k \in Nat :
              LET t == Typing(d, o, k) IN
              Typing(d, o, k + 1) =
                t \cup UNION {{<<m, TypeBelow(d, x[1], x[2])>> : m \in Below(d, x[1])} :
                              x \in t}
<1> DEFINE root == Roots[d.ops[o].type]
           W == TypeNames(root) \cup {d.conds[x] : x \in DOMAIN d.conds}
           A == {<<n, root>> : n \in Top(d, o)}
           Down(t) == t \cup UNION {{<<m, TypeBelow(d, x[1], x[2])>> : m \in Below(d, x[1])} :
                                    x \in t}
           V == SUBSET (Sels(d) \X W)
           next == [t \in V |-> Down(t)]
<1>1. root \in W /\ \A t, x : FieldType(t, x) \in W
  BY TypesClosed DEF TypeNames
<1>2. \A n : \A t \in W : TypeBelow(d, n, t) \in W
  <2>1. \A x \in DOMAIN d.conds : d.conds[x] \in W
    OBVIOUS
  <2> HIDE DEF W
  <2> QED BY <1>1, <2>1 DEF TypeBelow
<1> HIDE DEF W
<1>3. Top(d, o) \in SUBSET Sels(d) /\ \A n : Below(d, n) \in SUBSET Sels(d)
  <2>1. \A x : Range(SelectionSet(d, x)) \in SUBSET Sels(d)
    <3> SUFFICES ASSUME NEW x PROVE Range(SelectionSet(d, x)) \in SUBSET Sels(d)
      OBVIOUS
    <3>1. SelectionSet(d, x) \in Seq(Sels(d))
      BY SelectionSetTyped
    <3> QED BY <3>1 DEF Range
  <2> QED BY <2>1 DEF Top, Below
<1>4. A \in V
  BY <1>1, <1>3
<1>5. ASSUME NEW t \in V PROVE Down(t) \in V
  <2> SUFFICES ASSUME NEW x \in t, NEW m \in Below(d, x[1])
               PROVE  <<m, TypeBelow(d, x[1], x[2])>> \in Sels(d) \X W
    BY <1>5
  <2>1. m \in Sels(d) /\ x[2] \in W
    BY <1>3, <1>5
  <2> QED BY <1>2, <2>1
<1> HIDE DEF A, Down
<1>6. PICK f \in [Nat -> V] : f[0] = A /\ \A k \in Nat : f[k + 1] = next[f[k]]
  <2>1. next \in [V -> V] /\ A \in V
    BY <1>4, <1>5
  <2> HIDE DEF next, V
  <2>2. \A a \in V : \A g \in [V -> V] :
          \E f \in [Nat -> V] : f[0] = a /\ \A k \in Nat : f[k + 1] = g[f[k]]
    BY ONLY NatRecursion, SMTT(30)
  <2> QED BY ONLY <2>1, <2>2
<1> HIDE DEF V
<1>7. \A k \in Nat : f[k] = IF k = 0 THEN A ELSE Down(f[k - 1])
  <2> SUFFICES ASSUME NEW k \in Nat PROVE f[k] = IF k = 0 THEN A ELSE Down(f[k - 1])
    OBVIOUS
  <2>1. CASE k = 0
    BY <1>6, <2>1
  <2>2. CASE k # 0
    <3>1. k - 1 \in Nat /\ (k - 1) + 1 = k
      BY <2>2
    <3>2. f[k - 1] \in V /\ f[k] = next[f[k - 1]]
      BY <1>6, <3>1
    <3> QED BY <2>2, <3>2
  <2> QED BY <2>1, <2>2
<1> DEFINE typed[j \in Nat] ==
             IF j = 0 THEN {<<n, Roots[d.ops[o].type]>> : n \in Top(d, o)}
             ELSE LET t == typed[j - 1] IN
                  t \cup UNION {{<<m, TypeBelow(d, x[1], x[2])>> : m \in Below(d, x[1])} :
                                x \in t}
<1>8. \A k : Typing(d, o, k) = typed[k]
  BY DEF Typing
<1> DEFINE Q(g) == g = [j \in Nat |-> IF j = 0 THEN A ELSE Down(g[j - 1])]
<1>9. Q(typed)
  <2>1. Q(f)
    BY <1>7
  <2>2. typed = CHOOSE g : Q(g)
    BY DEF A, Down
  <2> HIDE DEF Q
  <2> QED BY <2>1, <2>2
<1> HIDE DEF typed
<1>10. \A k \in Nat : typed[k] = IF k = 0 THEN A ELSE Down(typed[k - 1])
  <2> DEFINE e == [j \in Nat |-> IF j = 0 THEN A ELSE Down(typed[j - 1])]
  <2>1. typed = e
    BY <1>9
  <2>2. \A k \in Nat : e[k] = IF k = 0 THEN A ELSE Down(typed[k - 1])
    OBVIOUS
  <2> HIDE DEF e
  <2> QED BY <2>1, <2>2
<1>11. Typing(d, o, 0) = A
  BY <1>8, <1>10
<1>12. ASSUME NEW k \in Nat PROVE Typing(d, o, k + 1) = Down(Typing(d, o, k))
  <2>1. typed[k + 1] = Down(typed[k])
    BY <1>10
  <2> QED BY <1>8, <2>1
<1> QED BY <1>11, <1>12 DEF A, Down

\* Without aliases a field's response key is its name.
LEMMA UnaliasedNames ==
  ASSUME NEW d \in Docs, Unaliased(d), NEW n \in Sels(d)
  PROVE  d.sels[n].alias = d.sels[n].name
<1> DEFINE s == [m \in DOMAIN d.sels |-> [d.sels[m] EXCEPT !.alias = d.sels[m].name]]
           u == [d EXCEPT !.sels = s]
<1>1. u = d
  BY DEF Unaliased, Unalias
<1>2. "sels" \in DOMAIN d /\ n \in DOMAIN d.sels /\ "alias" \in DOMAIN d.sels[n]
  BY AliasAssumption DEF Sels
<1>3. u.sels = s
  BY <1>2
<1>4. s[n].alias = d.sels[n].name
  BY <1>2
<1> HIDE DEF s, u
<1> QED BY <1>1, <1>3, <1>4

\* What is typed after k steps is typed after more.
LEMMA TypingKept ==
  ASSUME NEW d \in Docs, NEW o, NEW k \in Nat, NEW l \in Nat, k <= l
  PROVE  Typing(d, o, k) \subseteq Typing(d, o, l)
<1> DEFINE U(j) == Typing(d, o, j)
           T == {j \in Nat : U(k) \subseteq U(k + j)}
<1>1. 0 \in T
  <2>1. k + 0 = k
    OBVIOUS
  <2> QED BY <2>1
<1>2. ASSUME NEW j \in Nat, j \in T PROVE j + 1 \in T
  <2>1. U(k + j) \subseteq U((k + j) + 1)
    <3> DEFINE i == k + j
    <3>1. i \in Nat
      OBVIOUS
    <3> HIDE DEF i
    <3>2. U(i + 1) = U(i) \cup UNION {{<<m, TypeBelow(d, x[1], x[2])>> : m \in Below(d, x[1])} :
                                      x \in U(i)}
      BY <3>1, Typings
    <3>3. U(i) \subseteq U(i + 1)
      BY <3>2
    <3> QED BY <3>3 DEF i
  <2>2. (k + j) + 1 = k + (j + 1)
    OBVIOUS
  <2>3. U(k) \subseteq U(k + (j + 1))
    BY <1>2, <2>1, <2>2
  <2> QED BY <2>3
<1>3. Nat \subseteq T
  <2> HIDE DEF T
  <2> QED BY <1>1, <1>2, NatInduct
<1>4. l - k \in T
  BY <1>3
<1>5. k + (l - k) = l
  OBVIOUS
<1> QED BY <1>4, <1>5

\* A selection is typed at the top of its operation or below another one.
Sourced(d, o, x, S) ==
  \/ x[1] \in Top(d, o) /\ x[2] = Roots[d.ops[o].type]
  \/ \E z \in S : x[1] \in Below(d, z[1]) /\ x[2] = TypeBelow(d, z[1], z[2])

LEMMA TypingSourced ==
  ASSUME NEW d \in Docs, NEW o, NEW k \in Nat
  PROVE  /\ \A x \in Typing(d, o, k) : Sourced(d, o, x, Typing(d, o, k))
         /\ \A x \in Typing(d, o, k + 1) : Sourced(d, o, x, Typing(d, o, k))
<1> DEFINE U(j) == Typing(d, o, j)
           T == {j \in Nat : \A x \in U(j) : Sourced(d, o, x, U(j))}
<1>1. 0 \in T
  <2>1. U(0) = {<<n, Roots[d.ops[o].type]>> : n \in Top(d, o)}
    BY Typings
  <2>2. ASSUME NEW x \in U(0) PROVE x[1] \in Top(d, o) /\ x[2] = Roots[d.ops[o].type]
    BY <2>1
  <2> QED BY <2>2 DEF Sourced
<1>2. ASSUME NEW j \in Nat, j \in T, NEW x \in U(j + 1) PROVE Sourced(d, o, x, U(j))
  <2>1. U(j + 1) = U(j) \cup UNION {{<<m, TypeBelow(d, z[1], z[2])>> : m \in Below(d, z[1])} :
                                    z \in U(j)}
    BY Typings
  <2>2. CASE x \in U(j)
    BY <1>2, <2>2
  <2>3. CASE x \notin U(j)
    <3>1. PICK z \in U(j) : \E m \in Below(d, z[1]) : x = <<m, TypeBelow(d, z[1], z[2])>>
      BY <1>2, <2>1, <2>3
    <3>2. x[1] \in Below(d, z[1]) /\ x[2] = TypeBelow(d, z[1], z[2])
      BY <3>1
    <3> QED BY <3>1, <3>2 DEF Sourced
  <2> QED BY <2>2, <2>3
<1>3. ASSUME NEW j \in Nat, j \in T PROVE j + 1 \in T
  <2>1. U(j) \subseteq U(j + 1)
    BY TypingKept
  <2>2. \A x \in U(j + 1) : Sourced(d, o, x, U(j + 1))
    BY <1>2, <1>3, <2>1 DEF Sourced
  <2> QED BY <2>2
<1>4. Nat \subseteq T
  <2> HIDE DEF T
  <2> QED BY <1>1, <1>3, NatInduct
<1> QED BY <1>2, <1>4

\* A selection has one type, however often the fragment it is in is spread: the
\* fragment's condition gives it.
OneTyping(S) == \A x, y \in S : x[1] = y[1] => x[2] = y[2]

LEMMA SameSource ==
  ASSUME NEW d \in Docs, NEW o, NEW S, OneTyping(S), NEW x, NEW y, x[1] = y[1],
         Sourced(d, o, x, S), Sourced(d, o, y, S)
  PROVE  x[2] = y[2]
<1> DEFINE Owner(n) == IF d.sels[n].kind = "spread" THEN <<"frag", d.sels[n].name>>
                                                    ELSE <<"sel", n>>
<1>1. \A n, m : m \in Below(d, n) => Stands(d, m, Owner(n))
  BY DEF Below, Stands
<1>2. \A n : n \in Top(d, o) => Stands(d, n, <<"op", o>>)
  BY DEF Top, Stands
<1>3. ASSUME NEW n, NEW m, m \in Below(d, n), m \in Top(d, o) PROVE FALSE
  <2>1. Owner(n) = <<"op", o>>
    BY <1>1, <1>2, <1>3, OneOwner
  <2> QED BY <2>1
<1>4. CASE x[1] \in Top(d, o)
  BY <1>3, <1>4 DEF Sourced
<1>5. CASE x[1] \notin Top(d, o)
  <2>1. PICK z \in S : x[1] \in Below(d, z[1]) /\ x[2] = TypeBelow(d, z[1], z[2])
    BY <1>5 DEF Sourced
  <2>2. PICK w \in S : x[1] \in Below(d, w[1]) /\ y[2] = TypeBelow(d, w[1], w[2])
    BY <1>5 DEF Sourced
  <2>3. Stands(d, x[1], Owner(z[1])) /\ Stands(d, x[1], Owner(w[1]))
    BY <1>1, <2>1, <2>2
  <2>4. Owner(z[1]) = Owner(w[1])
    BY <2>3, OneOwner
  <2>5. CASE d.sels[z[1]].kind = "spread"
    <3> DEFINE own == <<"frag", d.sels[z[1]].name>>
    <3>1. Owner(z[1]) = own
      BY <2>5
    <3>2. d.sels[w[1]].kind = "spread" /\ d.sels[w[1]].name = d.sels[z[1]].name
      BY <2>4, <2>5
    <3>3. own \in DOMAIN d.sets
      <4>1. x[1] \in Range(SelectionSet(d, own))
        BY <2>3, <3>1 DEF Stands
      <4>2. Range(<<>>) = {}
        BY DEF Range
      <4> HIDE DEF own
      <4> QED BY <4>1, <4>2 DEF SelectionSet
    <3>4. own \in DOMAIN d.conds
      BY <3>3, ConditionAssumption
    <3> QED BY <2>1, <2>2, <2>5, <3>2, <3>4 DEF TypeBelow
  <2>6. CASE d.sels[z[1]].kind # "spread"
    <3>1. z[1] = w[1]
      BY <2>4, <2>6
    <3>2. z[2] = w[2]
      BY <3>1 DEF OneTyping
    <3> QED BY <2>1, <2>2, <3>1, <3>2
  <2> QED BY <2>5, <2>6
<1> QED BY <1>4, <1>5

LEMMA UniqueType ==
  ASSUME NEW d \in Docs, NEW o, NEW k \in Nat
  PROVE  OneTyping(Typing(d, o, k))
<1> DEFINE U(j) == Typing(d, o, j)
           T == {j \in Nat : OneTyping(U(j))}
<1>1. 0 \in T
  <2>1. U(0) = {<<n, Roots[d.ops[o].type]>> : n \in Top(d, o)}
    BY Typings
  <2>2. ASSUME NEW x \in U(0) PROVE x[2] = Roots[d.ops[o].type]
    BY <2>1
  <2> QED BY <2>2 DEF OneTyping
<1>2. ASSUME NEW j \in Nat, j \in T PROVE j + 1 \in T
  <2>1. \A x \in U(j + 1) : Sourced(d, o, x, U(j))
    BY TypingSourced
  <2>2. OneTyping(U(j))
    BY <1>2
  <2>3. OneTyping(U(j + 1))
    <3> HIDE DEF U
    <3> SUFFICES ASSUME NEW x \in U(j + 1), NEW y \in U(j + 1), x[1] = y[1] PROVE x[2] = y[2]
      BY DEF OneTyping
    <3> QED BY <2>1, <2>2, SameSource
  <2> QED BY <2>3
<1>3. Nat \subseteq T
  <2> HIDE DEF T
  <2> QED BY <1>1, <1>2, NatInduct
<1> QED BY <1>3

\* A selection's type is where the path it stands below leads, if the field goes by
\* its name and the fragment changes no type.
LEMMA TypeBelowLeads ==
  ASSUME NEW d \in Docs, NEW n \in Sels(d), NEW q \in Paths(d), NEW root, Unaliased(d),
         d.sels[n].kind # "field" => TypeBelow(d, n, TypeOf(root, q)) = TypeOf(root, q)
  PROVE  TypeBelow(d, n, TypeOf(root, q)) = TypeOf(root, PathAt(d, n, q))
<1>1. CASE d.sels[n].kind # "field"
  BY <1>1 DEF PathAt
<1>2. CASE d.sels[n].kind = "field"
  <2> DEFINE V == {d.sels[m].alias : m \in Sels(d)}
             x == d.sels[n].alias
  <2>1. q \in Seq(V) /\ x \in V
    BY DEF Paths
  <2>2. d.sels[n].name = x
    BY UnaliasedNames
  <2> HIDE DEF V, x
  <2>3. TypeOf(root, Append(q, x)) = FieldType(TypeOf(root, q), x)
    BY <2>1, OneMoreSegment
  <2>4. PathAt(d, n, q) = Append(q, x)
    BY <1>2 DEF PathAt, x
  <2>5. TypeBelow(d, n, TypeOf(root, q)) = FieldType(TypeOf(root, q), x)
    BY <1>2, <2>2 DEF TypeBelow
  <2> QED BY <2>3, <2>4, <2>5
<1> QED BY <1>1, <1>2

\* The typing of an operation is then its expansion, each path replaced by the type
\* it leads to.
LEMMA TypingIsExpansion ==
  ASSUME NEW d \in Docs, NEW o, Unaliased(d), SameConditions(d, o)
  PROVE  Typing(d, o, Len(d.sels)) =
           {<<x[1], TypeOf(Roots[d.ops[o].type], x[2])>> : x \in Expansion(d, o, Len(d.sels))}
<1> DEFINE root == Roots[d.ops[o].type]
           N == Len(d.sels)
           E(j) == Expansion(d, o, j)
           F(j) == {<<x[1], TypeOf(root, x[2])>> : x \in E(j)}
           T == {j \in Nat : j <= N => Typing(d, o, j) = F(j)}
<1>0. N \in Nat
  BY DocAssumption
<1>1. TypeOf(root, <<>>) = root
  BY NoSegment
<1>2. 0 \in T
  <2>1. E(0) = {<<n, <<>>>> : n \in Top(d, o)}
    BY Expansions
  <2>2. Typing(d, o, 0) = {<<n, root>> : n \in Top(d, o)}
    BY Typings
  <2>3. ASSUME NEW x \in E(0) PROVE x[1] \in Top(d, o) /\ TypeOf(root, x[2]) = root
    BY <1>1, <2>1
  <2>4. ASSUME NEW n \in Top(d, o) PROVE \E x \in E(0) : x[1] = n
    <3> DEFINE x == <<n, <<>>>>
    <3>1. x \in E(0) /\ x[1] = n
      BY <2>1
    <3> HIDE DEF x
    <3> QED BY <3>1
  <2> HIDE DEF root, E
  <2>5. F(0) = {<<n, root>> : n \in Top(d, o)}
    BY <2>3, <2>4
  <2>6. Typing(d, o, 0) = F(0)
    BY <2>2, <2>5
  <2> QED BY <2>6 DEF root, E
<1>3. ASSUME NEW j \in Nat, j \in T PROVE j + 1 \in T
  <2> SUFFICES ASSUME j + 1 <= N PROVE Typing(d, o, j + 1) = F(j + 1)
    OBVIOUS
  <2> DEFINE t == Typing(d, o, j)
             u == Typing(d, o, j + 1)
  <2>1. u = t \cup UNION {{<<m, TypeBelow(d, x[1], x[2])>> : m \in Below(d, x[1])} : x \in t}
    BY Typings
  <2>2. /\ E(j) \in SUBSET (Sels(d) \X Paths(d))
        /\ E(j + 1) = E(j) \cup UNION {{<<m, PathAt(d, x[1], x[2])>> : m \in Below(d, x[1])} :
                                       x \in E(j)}
    BY Expansions
  <2>3. t = F(j) /\ j <= N
    BY <1>0, <1>3
  <2>4. ASSUME NEW x \in E(j)
        PROVE  TypeBelow(d, x[1], TypeOf(root, x[2])) = TypeOf(root, PathAt(d, x[1], x[2]))
    <3> DEFINE y == <<x[1], TypeOf(root, x[2])>>
    <3>1. y \in Typing(d, o, N)
      BY <1>0, <2>3, <2>4, TypingKept
    <3>2. y[1] = x[1] /\ y[2] = TypeOf(root, x[2])
      OBVIOUS
    <3> HIDE DEF y
    <3>3. d.sels[y[1]].kind # "field" => TypeBelow(d, y[1], y[2]) = y[2]
      BY <3>1 DEF SameConditions
    <3>4. x[1] \in Sels(d) /\ x[2] \in Paths(d)
      BY <2>2, <2>4
    <3> HIDE DEF root, N, E
    <3>5. d.sels[x[1]].kind # "field"
            => TypeBelow(d, x[1], TypeOf(root, x[2])) = TypeOf(root, x[2])
      BY <3>2, <3>3
    <3> QED BY <3>4, <3>5, TypeBelowLeads
  <2> HIDE DEF t, u, E, root
  <2>5. ASSUME NEW y \in u PROVE y \in F(j + 1)
    <3>1. CASE y \in t
      BY <2>2, <2>3, <3>1
    <3>2. CASE y \notin t
      <4>1. PICK x \in t : \E m \in Below(d, x[1]) : y = <<m, TypeBelow(d, x[1], x[2])>>
        BY <2>1, <2>5, <3>2
      <4>2. PICK m \in Below(d, x[1]) : y = <<m, TypeBelow(d, x[1], x[2])>>
        BY <4>1
      <4>3. PICK z \in E(j) : x = <<z[1], TypeOf(root, z[2])>>
        BY <2>3
      <4>4. x[1] = z[1] /\ x[2] = TypeOf(root, z[2])
        BY <4>3
      <4> DEFINE w == <<m, PathAt(d, z[1], z[2])>>
      <4>5. w \in E(j + 1)
        BY <2>2, <4>2, <4>4
      <4>6. w[1] = m /\ w[2] = PathAt(d, z[1], z[2])
        OBVIOUS
      <4>7. y = <<w[1], TypeOf(root, w[2])>>
        BY <2>4, <4>2, <4>4, <4>6
      <4> HIDE DEF w
      <4> QED BY <4>5, <4>7
    <3> QED BY <3>1, <3>2
  <2>6. ASSUME NEW w \in E(j + 1) PROVE <<w[1], TypeOf(root, w[2])>> \in u
    <3>1. CASE w \in E(j)
      BY <2>1, <2>3, <3>1
    <3>2. CASE w \notin E(j)
      <4>1. PICK z \in E(j) : \E m \in Below(d, z[1]) : w = <<m, PathAt(d, z[1], z[2])>>
        BY <2>2, <2>6, <3>2
      <4>2. PICK m \in Below(d, z[1]) : w = <<m, PathAt(d, z[1], z[2])>>
        BY <4>1
      <4> DEFINE x == <<z[1], TypeOf(root, z[2])>>
      <4>3. x \in t
        BY <2>3
      <4>4. x[1] = z[1] /\ x[2] = TypeOf(root, z[2])
        OBVIOUS
      <4> HIDE DEF x
      <4>5. <<m, TypeBelow(d, x[1], x[2])>> \in u
        BY <2>1, <4>2, <4>3, <4>4
      <4>6. w[1] = m /\ TypeOf(root, w[2]) = TypeBelow(d, x[1], x[2])
        BY <2>4, <4>2, <4>4
      <4> QED BY <4>5, <4>6
    <3> QED BY <3>1, <3>2
  <2>7. u = F(j + 1)
    BY <2>5, <2>6
  <2>8. Typing(d, o, j + 1) = F(j + 1)
    BY <2>7 DEF u
  <2> QED BY <2>8 DEF E, root
<1>4. Nat \subseteq T
  <2> HIDE DEF T
  <2> QED BY <1>2, <1>3, NatInduct
<1>5. N \in T
  BY <1>0, <1>4
<1> QED BY <1>0, <1>5

\* What an operation expands to it reaches.
LEMMA ExpansionReached ==
  ASSUME NEW d \in Docs, NEW o, NEW k \in Nat, NEW x \in Expansion(d, o, k)
  PROVE  x[1] \in Reached(d, o)
<1> DEFINE E(j) == Expansion(d, o, j)
<1>1. x[1] \in Sels(d)
  BY Expansions
<1> SUFFICES ASSUME NEW R \in SUBSET Sels(d), Closed(d, o, R) PROVE x[1] \in R
  BY <1>1 DEF Reached
<1> DEFINE T == {j \in Nat : \A y \in E(j) : y[1] \in R}
<1>2. 0 \in T
  <2>1. E(0) = {<<n, <<>>>> : n \in Top(d, o)}
    BY Expansions
  <2> QED BY <2>1 DEF Closed
<1>3. ASSUME NEW j \in Nat, j \in T PROVE j + 1 \in T
  <2>1. E(j + 1) = E(j) \cup UNION {{<<m, PathAt(d, y[1], y[2])>> : m \in Below(d, y[1])} :
                                    y \in E(j)}
    BY Expansions
  <2>2. ASSUME NEW w \in E(j + 1) PROVE w[1] \in R
    <3>1. CASE w \in E(j)
      BY <1>3, <3>1
    <3>2. CASE w \notin E(j)
      <4>1. PICK y \in E(j) : \E m \in Below(d, y[1]) : w = <<m, PathAt(d, y[1], y[2])>>
        BY <2>1, <2>2, <3>2
      <4>2. w[1] \in Below(d, y[1]) /\ y[1] \in R
        BY <1>3, <4>1
      <4> QED BY <4>2 DEF Closed
    <3> QED BY <3>1, <3>2
  <2> QED BY <2>2
<1>4. Nat \subseteq T
  <2> HIDE DEF T
  <2> QED BY <1>2, <1>3, NatInduct
<1> QED BY <1>4

\* The fields of an operation exist if they do at the paths that were recorded.
LEMMA RecordedSuffice ==
  ASSUME NEW d \in Docs, NEW o, Unaliased(d), SameConditions(d, o), NEW ps,
         Sampled(d, o, ps), \A p \in Range(ps) : PathExists(Roots[d.ops[o].type], p)
  PROVE  FieldsExist(d, o)
<1> DEFINE root == Roots[d.ops[o].type]
           N == Len(d.sels)
<1> SUFFICES ASSUME NEW y \in Typing(d, o, N), d.sels[y[1]].kind = "field"
             PROVE  HasField(y[2], d.sels[y[1]].name)
  BY DEF FieldsExist
<1>1. N \in Nat
  BY DocAssumption
<1>2. Typing(d, o, N) = {<<x[1], TypeOf(root, x[2])>> : x \in Expansion(d, o, N)}
  BY TypingIsExpansion
<1>3. OneTyping(Typing(d, o, N))
  BY <1>1, UniqueType
<1> DEFINE n == y[1]
           a == d.sels[n].alias
           V == {d.sels[m].alias : m \in Sels(d)}
<1>4. n \in OfKind(d, o, {"field"})
  <2>1. PICK x \in Expansion(d, o, N) : y = <<x[1], TypeOf(root, x[2])>>
    BY <1>2
  <2>2. n = x[1]
    BY <2>1
  <2>3. n \in Reached(d, o)
    BY <1>1, <2>1, <2>2, ExpansionReached
  <2> QED BY <2>3 DEF OfKind
<1>5. n \in Sels(d) /\ a = d.sels[n].name /\ a \in V
  BY <1>4, UnaliasedNames DEF OfKind, Reached
<1>6. PICK q \in Paths(d) : /\ <<n, q>> \in Expansion(d, o, N)
                            /\ PathAt(d, n, q) \in Range(ps)
  BY <1>4 DEF Sampled
<1>7. <<n, TypeOf(root, q)>> \in Typing(d, o, N)
  BY <1>2, <1>6
<1> HIDE DEF root, N, V, n
<1>8. y[2] = TypeOf(root, q)
  <2> DEFINE w == <<n, TypeOf(root, q)>>
  <2>1. w \in Typing(d, o, N) /\ w[1] = y[1] /\ w[2] = TypeOf(root, q)
    BY <1>7 DEF n
  <2> HIDE DEF w
  <2> QED BY <1>3, <2>1 DEF OneTyping
<1>9. PathExists(root, Append(q, a))
  BY <1>6 DEF PathAt, n, root
<1>10. q \in Seq(V)
  BY <1>6 DEF Paths, V
<1>11. HasField(TypeOf(root, q), a)
  <2> HIDE DEF a
  <2> QED BY <1>5, <1>9, <1>10, OneMoreSegment
<1> QED BY <1>5, <1>8, <1>11 DEF n

\* If the fields of an operation exist, so do all its paths.
LEMMA FieldsGivePaths ==
  ASSUME NEW d \in Docs, NEW o, Unaliased(d), SameConditions(d, o), FieldsExist(d, o),
         NEW p \in Requested(d, o)
  PROVE  PathExists(Roots[d.ops[o].type], p)
<1> DEFINE root == Roots[d.ops[o].type]
           N == Len(d.sels)
           E(j) == Expansion(d, o, j)
           V == {d.sels[m].alias : m \in Sels(d)}
<1>1. N \in Nat
  BY DocAssumption
<1>2. Typing(d, o, N) = {<<x[1], TypeOf(root, x[2])>> : x \in E(N)}
  BY TypingIsExpansion
<1>3. \A j \in Nat : E(j) \in SUBSET (Sels(d) \X Paths(d))
  BY Expansions
<1>4. ASSUME NEW j \in Nat, NEW x \in E(j)
      PROVE  /\ x[1] \in Sels(d) /\ x[2] \in Seq(V) /\ d.sels[x[1]].alias \in V
             /\ d.sels[x[1]].alias = d.sels[x[1]].name
  <2>1. x[1] \in Sels(d) /\ x[2] \in Paths(d)
    BY <1>3, <1>4
  <2> QED BY <2>1, UnaliasedNames DEF Paths
<1>5. ASSUME NEW x \in E(N), d.sels[x[1]].kind = "field"
      PROVE  HasField(TypeOf(root, x[2]), d.sels[x[1]].alias)
  <2> DEFINE y == <<x[1], TypeOf(root, x[2])>>
  <2>1. y \in Typing(d, o, N) /\ y[1] = x[1] /\ y[2] = TypeOf(root, x[2])
    BY <1>2
  <2> HIDE DEF y, root
  <2>2. HasField(y[2], d.sels[y[1]].name)
    BY <1>5, <2>1 DEF FieldsExist
  <2>3. d.sels[x[1]].alias = d.sels[x[1]].name
    BY <1>1, <1>4
  <2> QED BY <2>1, <2>2, <2>3
<1> HIDE DEF N, V, E, root
<1>6. \E x \in E(N) : d.sels[x[1]].kind = "field" /\ p = Append(x[2], d.sels[x[1]].alias)
  BY DEF Requested, PathAt, E, N
<1> DEFINE T == {j \in Nat : j <= N => \A x \in E(j) : PathExists(root, x[2])}
<1>7. 0 \in T
  <2>1. E(0) = {<<n, <<>>>> : n \in Top(d, o)}
    BY Expansions DEF E
  <2>2. PathExists(root, <<>>)
    BY NoSegment
  <2> QED BY <2>1, <2>2
<1>8. ASSUME NEW j \in Nat, j \in T PROVE j + 1 \in T
  <2> SUFFICES ASSUME j + 1 <= N, NEW y \in E(j + 1) PROVE PathExists(root, y[2])
    OBVIOUS
  <2>1. j <= N
    BY <1>1
  <2>2. E(j + 1) = E(j) \cup UNION {{<<m, PathAt(d, x[1], x[2])>> : m \in Below(d, x[1])} :
                                    x \in E(j)}
    BY Expansions DEF E
  <2>3. CASE y \in E(j)
    BY <1>8, <2>1, <2>3
  <2>4. CASE y \notin E(j)
    <3>1. PICK x \in E(j) : y[2] = PathAt(d, x[1], x[2])
      BY <2>2, <2>4
    <3>2. PathExists(root, x[2])
      BY <1>8, <2>1, <3>1
    <3>3. CASE d.sels[x[1]].kind # "field"
      BY <3>1, <3>2, <3>3 DEF PathAt
    <3>4. CASE d.sels[x[1]].kind = "field"
      <4>1. x \in E(N)
        BY <1>1, <2>1, <3>1, ExpansionKept DEF E
      <4>2. HasField(TypeOf(root, x[2]), d.sels[x[1]].alias)
        BY <1>5, <3>4, <4>1
      <4>3. y[2] = Append(x[2], d.sels[x[1]].alias)
        BY <3>1, <3>4 DEF PathAt
      <4> QED BY <1>4, <3>1, <3>2, <4>2, <4>3, OneMoreSegment
    <3> QED BY <3>3, <3>4
  <2> QED BY <2>3, <2>4
<1>9. Nat \subseteq T
  <2> HIDE DEF T
  <2> QED BY <1>7, <1>8, NatInduct
<1>10. PICK x \in E(N) : d.sels[x[1]].kind = "field" /\ p = Append(x[2], d.sels[x[1]].alias)
  BY <1>6
<1>11. PathExists(root, x[2])
  BY <1>1, <1>9, <1>10
<1>12. HasField(TypeOf(root, x[2]), d.sels[x[1]].alias)
  BY <1>5, <1>10
<1>13. PathExists(root, p)
  BY <1>1, <1>4, <1>10, <1>11, <1>12, OneMoreSegment
<1> QED BY <1>13 DEF root

OneType(d) == \A o \in DOMAIN d.ops : d.ops[o].type = d.ops[1].type

\* The paths of the result are requested by operations of the document, and its
\* type is theirs if they agree.
SourcesInv ==
  /\ {"operationType", "fieldPaths"} \subseteq DOMAIN cur
  /\ {"operationType", "fieldPaths"} \subseteq DOMAIN info
  /\ pc = "walk" => cur.operationType = doc.ops[op].type
  /\ pc \in {"operation", "walk", "parsed"} =>
       /\ \A p \in Range(info.fieldPaths) : \E o \in DOMAIN doc.ops : p \in Requested(doc, o)
       /\ OneType(doc) => /\ info.operationType \in {"", doc.ops[1].type}
                          /\ op > 1 \/ pc = "parsed" => info.operationType = doc.ops[1].type

LEMMA EndSources ==
  ASSUME ParserInv, PathInv, InfoInv, SourcesInv, EndOperation
  PROVE  SourcesInv'
<1>1. /\ pc = "walk" /\ todo = <<>> /\ doc \in Docs /\ doc' = doc
      /\ pc' \in {"operation", "parsed"}
  BY DEF EndOperation, ParserInv
<1>2. op \in DOMAIN doc.ops
  BY <1>1 DEF InfoInv
<1>3. /\ {"operationType", "fieldPaths"} \subseteq DOMAIN cur
      /\ {"operationType", "fieldPaths"} \subseteq DOMAIN info
      /\ cur.operationType = doc.ops[op].type
      /\ \A p \in Range(info.fieldPaths) : \E o \in DOMAIN doc.ops : p \in Requested(doc, o)
      /\ OneType(doc) => info.operationType \in {"", doc.ops[1].type}
  BY <1>1 DEF SourcesInv
<1>4. /\ DOMAIN cur' = DOMAIN cur /\ cur'.operationType = cur.operationType
      /\ cur'.fieldPaths = cur.fieldPaths /\ info' = Aggregate(info, cur')
  BY <1>3 DEF EndOperation
<1>5. /\ DOMAIN info' = DOMAIN info
      /\ info'.operationType = IF info.operationType = "" THEN cur.operationType
                                                          ELSE info.operationType
      /\ info'.fieldPaths = info.fieldPaths \o cur.fieldPaths
  BY <1>3, <1>4 DEF Aggregate, Measures
<1>6. \A p \in Range(cur.fieldPaths) : p \in Requested(doc, op)
  BY <1>1, PlacedInFull DEF PathsAreRequested, OperationWalked, Recorded, Range
<1>7. Range(info'.fieldPaths) = Range(info.fieldPaths) \cup Range(cur.fieldPaths)
  <2>1. info.fieldPaths \in Seq(Paths(doc)) /\ cur.fieldPaths \in Seq(Paths(doc))
    BY DEF PathInv, RootedInv, Measured
  <2>2. Range(info.fieldPaths \o cur.fieldPaths)
          = Range(info.fieldPaths) \cup Range(cur.fieldPaths)
    BY ONLY <2>1, ConcatRange
  <2> QED BY <1>5, <2>2
<1>8. \A p \in Range(info'.fieldPaths) : \E o \in DOMAIN doc.ops : p \in Requested(doc, o)
  BY <1>2, <1>3, <1>6, <1>7
<1>9. OneType(doc) => info'.operationType = doc.ops[1].type
  BY <1>2, <1>3, <1>5 DEF OneType
<1> QED BY <1>1, <1>3, <1>4, <1>5, <1>8, <1>9 DEF SourcesInv

LEMMA SourcesStep ==
  ASSUME ParserInv, PathInv, InfoInv, SourcesInv, [Next]_vars
  PROVE  SourcesInv'
<1>1. CASE Parse
  <2>1. pc = "parse" /\ UNCHANGED <<doc, op, cur>> /\ pc' \in {"rejected", "operation"}
    BY <1>1 DEF Parse, walkVars
  <2>2. op = 1
    BY <2>1 DEF InfoInv
  <2>3. CASE pc' = "rejected"
    <3>1. info' = info
      BY <1>1, <2>3 DEF Parse
    <3> QED BY <2>1, <2>3, <3>1 DEF SourcesInv
  <2>4. CASE pc' = "operation"
    <3>1. /\ {"operationType", "fieldPaths"} \subseteq DOMAIN info'
          /\ info'.operationType = "" /\ info'.fieldPaths = <<>>
      BY <1>1, <2>4 DEF Parse, NewInfo
    <3>2. Range(info'.fieldPaths) = {}
      <4>1. Range(<<>>) = {}
        BY DEF Range
      <4> QED BY <3>1, <4>1
    <3>3. {"operationType", "fieldPaths"} \subseteq DOMAIN cur'
      BY <2>1 DEF SourcesInv
    <3>4. ~(op' > 1)
      BY <2>1, <2>2
    <3> QED BY <2>4, <3>1, <3>2, <3>3, <3>4 DEF SourcesInv
  <2> QED BY <2>1, <2>3, <2>4
<1>2. CASE BeginOperation
  <2>1. pc = "operation" /\ pc' = "walk" /\ UNCHANGED <<doc, op, info>>
    BY <1>2 DEF BeginOperation
  <2>2. /\ {"operationType", "fieldPaths"} \subseteq DOMAIN cur'
        /\ cur'.operationType = doc.ops[op].type
    BY <1>2 DEF BeginOperation, NewInfo
  <2> QED BY <2>1, <2>2 DEF SourcesInv
<1>3. CASE VisitField \/ VisitInline \/ VisitSpread
  <2>1. pc' = pc /\ UNCHANGED <<doc, op, info>>
    BY <1>3 DEF VisitField, VisitInline, VisitSpread, Visit
  <2>2. {"operationType", "fieldPaths"} \subseteq DOMAIN cur
    BY DEF SourcesInv
  <2>3. DOMAIN cur' = DOMAIN cur /\ cur'.operationType = cur.operationType
    BY <1>3, <2>2 DEF VisitField, VisitInline, VisitSpread, CountFragment
  <2> QED BY <2>1, <2>3 DEF SourcesInv
<1>4. CASE EndOperation
  BY <1>4, EndSources
<1>5. CASE UNCHANGED parserVars
  BY <1>5 DEF SourcesInv, parserVars, walkVars
<1> QED BY <1>1, <1>2, <1>3, <1>4, <1>5 DEF Next, ParserNext, Inspect, vars

\* For all documents without aliases, whose type conditions change no type and whose
\* operations are of one type, and for all schemas with a root for it: looking up
\* the recorded paths decides whether the fields of the query exist, however often
\* its fragments are spread (Validate, walkSelections).
THEOREM ValidateIsSound == Spec => []ValidateAgrees
<1>1. Init => InfoInv /\ TypeInv /\ WeighedInv /\ SourcesInv
  <2> SUFFICES ASSUME Init PROVE InfoInv /\ TypeInv /\ WeighedInv /\ SourcesInv
    OBVIOUS
  <2>1. Measurable(NewInfo)
    BY DEF Measurable, NewInfo, Measures
  <2>2. {"operationType", "fieldPaths"} \subseteq DOMAIN NewInfo
    BY DEF NewInfo
  <2> QED BY <2>1, <2>2 DEF Init, ParserInit, InfoInv, TypeInv, WeighedInv, SourcesInv
<1>2. ParserInv /\ WeighedInv /\ SourcesInv => ValidateAgrees
  <2> SUFFICES ASSUME ParserInv, WeighedInv, SourcesInv, pc = "parsed", Unaliased(doc),
                      \A o \in Ops : SameConditions(doc, o), OneType(doc),
                      Roots[doc.ops[1].type] # NoType
               PROVE  Validate(info) <=> \A o \in Ops : FieldsExist(doc, o)
    BY DEF ValidateAgrees, OneType, Ops
  <2> DEFINE root == Roots[doc.ops[1].type]
  <2>1. doc \in Docs /\ \A o \in Ops : Roots[doc.ops[o].type] = root
    BY DEF ParserInv, OneType, Ops
  <2>2. info.operationType = doc.ops[1].type
    BY DEF SourcesInv
  <2>3. Validate(info) <=> \A p \in Range(info.fieldPaths) : PathExists(root, p)
    BY <2>2 DEF Validate, Range
  <2>4. ASSUME \A o \in Ops : FieldsExist(doc, o), NEW p \in Range(info.fieldPaths)
        PROVE  PathExists(root, p)
    <3>1. PICK o \in Ops : p \in Requested(doc, o)
      BY <2>4 DEF SourcesInv, Ops
    <3> QED BY <2>1, <2>4, <3>1, FieldsGivePaths
  <2>5. ASSUME \A p \in Range(info.fieldPaths) : PathExists(root, p), NEW o \in Ops
        PROVE  FieldsExist(doc, o)
    <3>1. Sampled(doc, o, info.fieldPaths)
      BY <2>5 DEF WeighedInv, Outweighs, Ops
    <3>2. Roots[doc.ops[o].type] = root /\ SameConditions(doc, o)
      BY <2>1, <2>5
    <3> HIDE DEF root
    <3> QED BY <2>1, <2>5, <3>1, <3>2, RecordedSuffice
  <2> HIDE DEF root
  <2> QED BY <2>3, <2>4, <2>5
<1> QED BY <1>1, <1>2, ParserInvariant, PathInvariant, InfoStep, TypeStep, WeighedInvStep,
       SourcesStep, PTL DEF Spec

=============================================================================
