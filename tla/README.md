# TLA+ verification of gql-firewall

gql-firewall is a reverse proxy that parses GraphQL requests, evaluates them against an OPA
(Rego) policy and forwards only what the policy allows. This directory holds TLA+ modules
that model its core, TLC configurations that check them on small instances, and TLAPS proofs
for every value of the constants. `PROJECT.json` maps every definition to the lines it
models and lists runs, mutants, findings, hazards and theorems.

## 1. Inventory

A request passes the rate limiter (`cmd/server/main.go`, `internal/ratelimit`), the proxy
handler (`internal/proxy`), which parses it on a goroutine of its own (`internal/parser`),
and the composite evaluator (`cmd/server/main.go`), which checks the schema, builds OPA's
input from the data store (`internal/opa`), looks into the decision cache and asks the
policy, embedded or in a sidecar. What is allowed goes to `httputil.ReverseProxy`. Beside
that the admin API writes the data store, a cleanup goroutine sweeps the rate limiter, and a
signal goroutine shuts the server down.

| Component | State | Operations | Shares state with | What makes it correct |
|---|---|---|---|---|
| Composite evaluator | decision cache, `mu`, flags | `Evaluate` | data store (reads), metrics; one goroutine per request | every decision comes from the policy on rules in force, or from a documented fallback; staleness is bounded; the lock is always released |
| Data store | `params`, `tenants`, `mu` | `SetParams`, `GetParams`, `SetTenant`, `DeleteTenant`, `GetTenant`, `ListTenants`, `CountTenants` | admin API and evaluator | each method atomic, copies never nil |
| Admin API | none of its own | six routes behind `requireAdminAuth` | data store, tenant gauge, reload counter | acknowledged updates persist, rejected ones leave no trace, the gauge is right |
| Rate limiter | bucket per key, stop channel | `Allow`, `cleanup`, `Stop`, the middleware's key | its goroutine and the request goroutines, under `mu` | never more than burst + rate x time (cleanup can break this); idle buckets are dropped; a client below the rate is served |
| Proxy handler | per request only | `ServeHTTP`, single, batch and GET handlers, `parseQueryWithTimeout`, `recoverPanic` | parse goroutines (one channel each), evaluator, upstream, metrics | nothing unchecked goes upstream; answers and metrics agree; no goroutine leaks; no request hangs on the parser |
| Start-up | flags, files | validation, loading, each step ending the process on an error | data store, admin API | a process serves only if every step of its start-up succeeded |
| Process lifecycle | listener, signal channel | signal goroutine, `Shutdown`, return of `main` | connections | a signal ends the process; requests in progress are served |
| OPA input and evaluators | prepared queries; HTTP client | `BuildInput`, `Evaluate` | data store | the policy sees what was measured; both evaluators read the same decision |
| Parser | per query only; a visited set per operation | `Parse`, `walkSelections`, `measureValueDepth` | - | terminates on cyclic fragments; charges each operation for all it reaches |
| Schema | the loaded schema | `LoadSchema`, `Validate` | - | a query passes if and only if its fields exist |
| Rego policy | none (pure) | `allow`, `deny` | - | each limit holds, a tenant's on top |
| Metrics | Prometheus counters | `Record...` | all | count what their documentation says |

Hard to test here: evaluations overtaken by admin updates; two evaluations on one cache key;
the timer racing the parser; cleanup racing requests; overlapping tenant updates; `main`
racing `Shutdown`; start-up failing or being signalled half-way; cyclic and repeated
fragments; zero and missing values between Go, JSON and Rego. The `hazards` of
`PROJECT.json` list each at its line with the properties that cover it, or a note saying why
none does.

## 2. Modules

| Module | Models | Notes |
|---|---|---|
| `DataStore` | `internal/opa/store.go` | one operator per method; extended by `Evaluator` and `AdminAPI` |
| `Evaluator` | `compositeEvaluator.Evaluate`, `BuildInput`, `decisionCacheKey` | composed with the store: `Update` is any admin write; implements `PolicyGate` |
| `PolicyGate` | what `Evaluate` promises its callers | abstract: answers in one step, no locks, no reads of the store |
| `AdminAPI` | `requireAdminAuth`, `adminMux` | composed with the store: one step per store call |
| `RateLimiter` | `internal/ratelimit`, `rateLimitMiddleware`, the burst flag | implements `TokenBucket` |
| `TokenBucket` | what a token bucket with a limited memory promises | abstract: eager refill, no lazy state, no ticker |
| `Proxy` | `internal/proxy/proxy.go` | evaluator and upstream seen from the handler |
| `Lifecycle` | `main`: start-up, serving, the end | |
| `Parser` | `internal/parser/parse.go` | the recursion is an explicit stack |
| `Schema` | `SchemaInfo.Validate` | operators |
| `Policy` | `opa-policies/graphql.rego` | one operator per rule |
| `OpaEvaluators` | `input.go`, `embed.go`, `sidecar.go` | extends `Policy` |
| `Inspection` | one query through parser, schema, input and policy | composes the four |
| `MC...` | instances for TLC | |
| `...Proofs` | theorems | |
| `Induction` | induction, recursion, finite maxima and sums | lemmas for the parser's proofs |

### DataStore
Each Go method holds the store's mutex for its whole body, so it is one atomic operator.
`Absent` is a missing map key; `NilParams` and `NilCfg` are what a JSON body `null` decodes
to. `GetParams` copies, so it never returns nil; `GetTenant` returns nil both for a missing
tenant and for a nil configuration.

### Evaluator
`pc[w]` is the place of goroutine `w` in `Evaluate`: `params` and `tenant` are the two
halves of `BuildInput` (two separately locked reads), `lookup` and `reading` the cache
lookup under the read lock, `opa` the policy call, `store` and `writing` the write lock (a
pending `Lock` holds back new readers, as `sync.RWMutex` does), `decided` the return. The
first read lock only copies fields nobody ever writes and is folded into `Begin`. A query is
`[shape, detail, tenant]`; `shape` is everything `decisionCacheKey` reads, and the digest is
an arbitrary function of it, so that collisions are allowed. `Policy` is an arbitrary
function of the query, the parameters and the tenant configuration; it stands for
`EmbeddedEvaluator.Evaluate` or the sidecar, whose failures are `OpaFail`. `hist` is the
history of the store's contents and `basis[w]` the evaluation a decision stems from: no
guard reads them.

`PolicyGate` is what a caller may rely on. A question is open from `Begin` until the
policy, the flag or the cache has answered it (`Phases`, `AskedIn`), and then is answered in
one step: by the policy on parameters and a tenant configuration in force since the
question, by the flag, or from memory (`Remembered`). Only the policy's answers get into
memory, and each is given again for less than a TTL.

### RateLimiter and TokenBucket
Tokens are counted in units, `Cost` to a token, so that fractional rates stay in the
integers. `Allow` creates, refills, caps and pays in one critical section. The ticker fires
into a channel of one tick; `Sweep` takes it. `start` and `granted` observe an arbitrary
window: `OpenWindow` may happen at any time. The refinement mapping gives the abstract
bucket the level a lazy one would have if refilled now, full if forgotten, and the time of
the key's last request. `TokenBucket` allows a key that was idle for longer than `MaxIdle`
to be forgotten, refilled or not, as `cleanup` does; `RateBound` says how much that can
mint, and `NominalRateBound`, the bound of a token bucket that forgets nothing, is violated.

### Proxy
One request, its handler and one parse goroutine per query with a one-place channel.
`ReadBody` is the reading and decoding of the body (`Decodable`: a closing bracket may
follow a single request and not a batch), `StartParse` and `ParseReturns`/`ParseTimesOut`
are `parseQueryWithTimeout`, `Evaluate(v)` the evaluator's verdict and everything the
handler does with it. Both the single and the batch handler follow the same loop, a single
request being a loop over one query, except for the tenant (`TenantOf`, with the key's
tenant found as `extractTenantID` does), the rule evaluation counter and the body sent
(`ForwardBody`). `blocks` also counts the `RecordBlock` call of the evaluator on its own
denials. The upstream answers with any status of `UpstreamStatuses`, 403 and 500 included,
which `ReverseProxy` relays; 502 is `ReverseProxy`'s own. `items` are the queries the
handler reads, of a GET the first `query` parameter.

### AdminAPI
One step per store call, per counter and per gauge write; checks are a function of the
request, in the order of the code. `clock`, `acked`, `began`, `touched`, `shared` and
`alone` are history.

### Lifecycle
`main` goes through the steps of start-up in order; each may fail and end the process
without running deferred calls (`Fatal`). `conf` is what has been put in place so far; the
admin server comes up on a goroutine of its own and may take an update at once. A signal
ends the process until `signal.Notify` is called and is queued afterwards. Then `main` is in
`ListenAndServe`, the signal goroutine in `Shutdown`, and connections carry one request
each; `EndProcess` cuts what is in progress.

### Parser, Schema, Policy, OpaEvaluators, Inspection
A document is abstract syntax: operations, fragments, a list of selections, and the
selection set of each operation, fragment, field or inline fragment as a sequence of their
numbers; a selection stands in one place of one set (`DocAssumption`). `walkSelections` is a
stack `todo` of selections with the path and depth they are visited at; `VisitField`,
`VisitInline` and `VisitSpread` are its three cases, `EndOperation` the aggregation over
operations. A path is a sequence of segments; as GraphQL names have no dots, joining and
splitting lose nothing. A field has a name, which the upstream resolves, and an alias, its
response key, under which the code records it (gqlparser sets every alias). Fragments have
type conditions (`conds`). `Validate` looks the recorded paths up from the root type of the
first operation. The reference definitions know both: `Requested` are the paths of response
keys, `FieldPaths` those of field names, and `FieldsExist` looks a field's name up on the
type it is selected on, conditions followed (`Typing`, `TypeBelow`).

`Policy` has Rego's undefined as the value `Undef`: a rule with an undefined part does not
fire, and zero, the empty string and the empty list count as true. `BuildInput` leaves out
the fields tagged `omitempty` that hold their zero value. A policy document is a map from
rule names to values, and the two evaluators differ in the names they read.

`Inspection` runs one document through `Parse`, `Validate` if a schema is loaded,
`BuildInput` and an evaluator, for every setting of the instance; when the evaluator fails,
`Settle` lets the query through or not as `--opa-fail-closed` says. `Allowed` is what the
policy itself allowed. Cache and audit-only mode are left to `Evaluator`, whose `Policy`
and `SchemaRejects` are arbitrary and so include these.

## 3. Runs

| Run | Checks | Shows |
|---|---|---|
| `evaluator` | `TypeOK`, `DecisionJustified`, `StaleForLessThanTTL`, `AuditOnlyObserves`, `EveryEvaluationDecides`, `ImplementsPolicyGate` | two goroutines, three queries (two on one cache key), an admin update; caching off, on, and on in audit-only mode; the lock paths never leave an evaluation waiting, and the evaluation in steps implements the gate |
| `rate_limiter` | `TypeOK`, `RateBound`, `OnlyRecentBuckets`, `ImplementsTokenBucket`, `IdleClientIsServed` | requests of two clients, half a token per tick, a burst that a full idle time does not refill, sweeps with every tick |
| `proxy` | `TypeOK`, `ForwardedOnlyIfAllAllowed`, `AnswerMatchesRecord`, `NoParserLeaks`, `EveryRequestLeavesTheHandler` | every kind of request up to batches of two, every verdict; no request waits for a parser for ever |
| `admin_api` | `TypeOK`, `NoUpdateIsLost`, `RejectedLeavesNoTrace`, `LoneUpdateRepairsGauge` | two concurrent handlers, updates of parameters and two tenants, each way of being turned away |
| `lifecycle` | `NoPartialStart`, `SignalEndsProcess` | every command line, every step failing or not, admin updates and signals at any time |
| `inspection` | `TypeOK`, `LinearWork`, `EverySelectionCountedOnce`, `WeightsAreCounted`, `PathsAreRequested`, `PathsHaveParents`, `ValidateAgrees`, `AllowedIsWithinCounts`, `AllowedIsWithinLimits` | over seven thousand documents, against reference definitions on the document (`Reached`, the smallest set closed under expansion; `Requested`, `FieldPaths`, `ValuesAt`, `FieldsExist`) |

Every property of these runs has a mutant of the code that breaks it (`mutants`).

Runs that TLC must find violated, each a place where the code and the repository's own words
disagree (`findings` quotes them):

| Run | Property | What happens |
|---|---|---|
| `evaluator_isolation` | `OwnRulesDecide` | the cache key omits the tenant: t1's query is denied with the decision cached for t2 |
| `rate_limiter_sweep` | `NominalRateBound` | cleanup forgets a bucket that has not refilled, and the key gets a full one |
| `proxy_tenant` | `EvaluatedForTenant` | a batch is evaluated without its tenant |
| `lifecycle_drop` | `NoRequestDropped` | `main` does not wait for `Shutdown` |
| `inspection_names` | `OnlyListedOperations` | a query without a name passes the allowlist of names |
| `inspection_sidecar` | `EvaluatorsAgree` | the sidecar client reads `allowed`, the policy defines `allow` |

Other disagreements, which the models show without a run of their own. No property of a
passing run claims the words quoted here, and where a property needs a hypothesis because of
one of them, it is named:
- a field with an alias is recorded under the alias (parse.go:137-140), so the lists of
  blocked and allowed paths and the schema check see a name that is not the field's. The
  README's "detect queries requesting fields that don't exist" (README.md:658) then fails in
  both directions: a field that does not exist passes under an alias that does, and a field
  that exists is refused under one that does not. Hypothesis `Unaliased` of `ValidateAgrees`
  and of the path clauses of `AllowedIsWithinLimits`; TLC violates both without it.
- `Validate` ignores type conditions (parser.go:104-123): a field on the type of a
  fragment's condition is looked up on the enclosing type and refused. Hypothesis
  `SameConditions` of `ValidateAgrees`; TLC violates it without.
- a fragment spread twice is measured at its first place only, so depth and paths may be
  smaller than what is requested (parse.go:197). Hypothesis `SpreadOnce` of the depth, cost
  and path clauses of `PathsAreRequested` and `AllowedIsWithinLimits`. The schema check is
  not deceived by it (`ValidateAgrees`), as the fragment's condition gives it one type.
- name and type of a document with several operations are those of the first, for the
  operation rules and for the schema's root alike (`Aggregate`, `Validate`).
- the comment at parse.go:226 says that a variable has a back-link to its definition, whose
  default is measured. `ParseQuery` never makes the link, so the branch is not taken and
  defaults count for nothing (`measureValueDepth`).
- tenant values do not override global ones, as graphql.rego:5 and :273 ("Tenant config
  overrides global params for matching fields") and tutorial.md:407-408 ("override the
  global `field_blocklist`") say: denials of both apply, so a tenant can only be given
  stricter limits (`tenant_rules`, and both sets of limits in `AllowedIsWithinLimits`).
- a limit in a tenant's configuration other than depth, fields, the blocklist and the
  operation types is not read (`TenantLimits`).
- in sidecar mode `--allowed-operation-names` and `--opa-params` are not read at all
  (main.go:114-136 is the embedded branch), while README.md:660 says of the names "Works
  with both embedded and sidecar OPA modes". And an update through the admin API replaces
  all parameters, so the names given on the command line are gone with the first one.
  `NoPartialStart` asks for parameters and names in embedded mode only, until an update.
- README.md:112 (R79, "Burst=0 means first request blocked (by design)", with the test at
  attack_round7_test.go:73, which logs either outcome): `New` replaces a burst of 0 by 200
  (`Burst`), so the first request is served. `IdleClientIsServed` claims nothing about the
  first request where the computed burst is 0.
- `--rate-burst` (README.md:132, "0 = 2x rate-limit"): for a rate below one per second
  `FlagBurst` is 0 and `Burst` is `DefaultBurst`, 200 in the code.
- the rate limiter's key without headers is `RemoteAddr`, port included, so each connection
  of an address has its own bucket (ratelimit.go:2, "per-tenant and per-IP").
- `RequestsTotal` (metrics.go:14, "all GraphQL requests by outcome") misses the answers 405
  and 415 and counts a request twice whose upstream breaks off, and `recoverPanic`
  (proxy.go:157, "returns a 500") cannot change a status already sent. `RequestsBlocked`
  (metrics.go:20) counts a policy or schema denial twice, once in the evaluator and once in
  the proxy, and a cached one once (`blocks`). `AnswerMatchesRecord` is about what was
  recorded being true; it neither counts nor asks for the missing records.
- of the `query` parameters of a GET only the first is evaluated, and the URL is forwarded
  as it came (proxy.go:260, capec_round_r2_hpp_test.go:22-45). `ForwardedOnlyIfAllAllowed`
  is about the queries the handler reads.
- audit-only mode turns a denial into an allow before caching it, so the hits that follow
  are not counted as would-be blocks (metrics.go:57), and the audit branch of the hit path
  (main.go:465) never finds a denial.
- two overlapping tenant updates can leave the gauge at the older count (main.go:362,
  metrics.go:36); the next update that runs by itself repairs it (`LoneUpdateRepairsGauge`).
- the rules' defaults (graphql.rego:82 and others, "default 10") do not exist: without the
  parameter the rule does not fire (`Exceeds`).
- `require_persisted_queries` never denies, since the parser always sets a hash (`queryHash`
  in `Parse`).
- a negative limit on a measure that is left out of the input when it is zero does not deny
  a query without any; it binds as zero does (`Limit`).
- an allowlist of fields without entries allows every field, like one that is not set
  (graphql.rego:141, `WithinLimits`).
- trailing data after a single request is refused (proxy.go:225) unless it begins with a
  closing bracket, which `Decoder.More` does not count (`Decodable`).
- a batch is not counted by `RecordRuleEval` (`ruleEvals`), nor are its rules the tenant's.

### Bounds
- `evaluator`: two goroutines are what a lost or overwritten cache entry needs; one update,
  anywhere, what a mixture of an old parameter map and a new tenant configuration needs, and
  an evaluation that stores a decision on rules since replaced; one tick with a TTL of one
  what expiry needs. The proofs remove all of these bounds from the invariants and the
  refinement.
- `evaluator_isolation`: the same query of two tenants, one update, no tick.
- `rate_limiter`: `Cap` is 6 and `MaxIdle * Rate` 3, so that a swept bucket need not have
  refilled; `MaxTime` 5 lets a bucket drain, idle past `MaxIdle` and be swept, with a tick
  of cleanup at every tick of the clock. `rate_limiter_sweep` is the same without the burst
  flag, where the rate is below one and the computed burst zero.
- `proxy`: batches of two have a first, a last and a failing middle; longer ones are in the
  proof.
- `admin_api`: `MaxClock` 5 allows three requests, of which two overlap and a third follows
  an acknowledgement. After that the instance stops, so deadlock is not checked.
- `inspection`: all layouts of up to three selections over one or two operations and two
  fragments, those of up to two with aliases and without, each under two choices of type
  conditions, plus the layouts of four without inline fragments in which every fragment is
  spread. Three are enough for a fragment that spreads itself, for two operations sharing a
  fragment, and for a field under an inline fragment under a field; four for a fragment at
  two depths and for a cycle of two fragments with a field in it. Names, directives and
  arguments go with the position of a selection, so that every measure differs between
  documents. The settings exercise each limit at a value that some documents reach and
  others pass, zero included. The run stops after the decision.
- `proxy` and `lifecycle` stop when the request is answered or the process has ended.

### Fairness
- `Evaluator`: goroutines run (weak fairness). `OpaReturns` is fair because the sidecar's
  client has a 5 s timeout and the embedded policy is a terminating query. `RLock` and
  `RequestLock` are strongly fair: `sync.RWMutex` blocks new readers behind a waiting writer
  and lets waiting readers in after it. Nothing obliges requests, updates or the clock.
- `Proxy`: the handler runs (`FairSpec`). `NoParserLeaks` assumes in addition that parsing
  terminates (`ParsingEnds`) and not that the timer fires; `EveryRequestLeavesTheHandler`
  the reverse (`TimerFires`). The upstream owes nothing, as the handler gives it no
  deadline.
- `Lifecycle`: start-up goes on, the signal goroutine and `main` run; `Shutdown` need not
  return and requests need not end.

## 4. Proofs

TLAPS checks all of these for every value of the constants that satisfies the named
assumptions of the modules: what the constants are (`StoreAssumption`,
`EvaluatorAssumption`, `LimiterAssumption`, `ProxyAssumption`, `AdminAssumption`,
`FlagsAssumption`, `InspectionAssumption`), that a lookup tells a missing key from an entry
(`EntryAssumption`, Go's two-valued map index), what the path and the body of an admin
request decode to (`RequestAssumption`), and what a parsed document and a documented
configuration are:
- `DocAssumption`: a document is a tree of selections, finite, with fragments that may refer
  to one another in any way, cycles included; `AliasAssumption`: every selection has an
  alias, as gqlparser sets it; `ConditionAssumption`: a fragment definition has a type
  condition, as the grammar wants.
- `ValueAssumption`: argument values are finitely many and nested without cycles, being
  abstract syntax of a finite text; `WeightAssumption`: numbers of directives and variables
  are natural numbers.
- `SettingsAssumption`: limits on numbers are integers and the lists of paths are lists of
  paths with at least one segment, in the parameters and in a tenant's configuration.

TLC evaluates each of them on its instances. It has also checked the inductive invariants
there before they were proved, but for `PlaceInv`, which quantifies over an infinite set of
paths.

- `EvaluatorProofs`: `TypeCorrect`, `DecisionsAreJustified`, `CacheIsFresh`,
  `AuditModeObserves`, `EvaluatorIsPolicyGate`. The properties speak of the moment of the
  decision only, so the inductive invariant `IInv` carries their reasons through the
  evaluation: what a goroutine read was in the store between the start of its evaluation and
  now (`EvaluationInv`, with the parameters no later than the tenant's configuration), each
  cache entry is explained by the evaluation that stored it and expires exactly one TTL
  after it was written (`CacheInv`), and the last element of `hist` is the store
  (`HistoryInv`). `ExplainedStable` shows that an explanation survives an update.
  `AuditModeObserves` follows: in audit-only mode an explained decision is never a denial.
  For the refinement, and from the same invariant, each step of an evaluation is one of the
  gate's or none (`GateBegin` to `GateUnseen`). The policy's answer is one the gate may give
  because of `InputRead`, and a hit is because a cached decision is explained, so that
  audit-only mode does not turn it a second time.
- `RateLimiterProofs`: `LimiterTypeCorrect`, `LimiterBoundsRate`, `LimiterIsTokenBucket`,
  `IdleClientsAreServed`, `OldBucketsAreForgotten`, none with an assumption that relates
  rate, burst and idle time. The rate bound is not inductive, and the bucket's own level
  does not do for the strengthening, since a sweep raises it. `Virtual` is the level a
  bucket would have if it were refilled at the larger of the two rates of `RateBound`: at
  that rate it is full by the time it may be swept (`SweepVirtual`), it bounds the real one
  (`LevelIsVirtual`), and `TokensInv` says that it and what was granted in the window
  together never exceed burst plus that rate times time. For the refinement, `AllowLevel`
  and `TickLevel` say how a step moves the real level. `IdleClientsAreServed` needs types
  and that the burst is at least one token, which `CapHoldsAToken` shows for all flags.
  `OldBucketsAreForgotten` needs to know in addition where the ticker stands (`TickerInv`:
  the next tick is at most a period away and not yet due).
- `ProxyProofs`: `ProxyTypeCorrect`, `NothingUncheckedIsForwarded`, `AnswersMatchRecords`.
  `Progress` says that the queries before the one in hand, and only they, have been parsed,
  evaluated and allowed in order; `AtItem` that the one in hand exists, is not empty and,
  once parsed, parses. `AnswersMatchRecords` looks at the end of a request only; `StoryInv`
  says of every place of the handler what has been sent and recorded so far, and that a
  finished request ended in one of five ways: turned away, failed, blocked, relayed or
  aborted, a relayed one with any status the upstream gave.
- `AdminAPIProofs`: `AdminTypeCorrect`, `RejectionsLeaveNoTrace`,
  `LoneUpdatesRepairTheGauge`, `NoUpdatesAreLost`, for any number of handlers. `IInv` ties a
  handler's place to what its request passed on the way. For the gauge, `OverlapInv` says
  which handlers saw another one within their update, and `CountInv` that what a lone one
  counted is still the number of tenants. For lost updates, `WriterInv` names, for the
  parameters and for each tenant, the update whose value is in the store: one in flight, or
  an acknowledged one that settles the matter (`Settles`: whatever else was acknowledged or
  has written began before its acknowledgement), or none.
- `LifecycleProofs`: `ProcessStartsWhole`. Requests come last, so `StartUpInv` says
  for every step of start-up what is in place before it, and `Ready` what is once the
  listener is up.
- `ParserProofs`: `WorkIsLinear`, `SelectionsAreCountedOnce`, `WeightsAreTheSelections`,
  `RecordedPathsAreRequested`, `EveryPathHasItsParent`, for every document. The walk is a
  search: `SearchInv` says that there is a set S of visited selections such that the stack
  holds others, none twice (`StackInv`); every selection of S or the stack stands in a
  selection set that has been opened, and what has been opened or visited has its selections
  in S or on the stack (`OwnersInv`); and S and the stack are within every closed set
  (`MinimalInv`). As a selection has one owner (`OneOwner`), a set that is opened for the
  first time brings only new selections; that is where the visited set is needed. When the
  stack is empty, S is closed and the smallest such set, so S is `Reached`. `CountInv` makes
  the counters cardinalities of parts of S, and S, part of the document, bounds the work.
  `WeightInv` says the same of the sum of the directives and of the depth of the arguments
  over S; `DeepestIsLevels` ties the recursive measure of a value to the levels of nesting
  the property counts. For the paths, `PlaceInv` gives each selection of S and of the stack
  one path above it (`at`): the recorded paths are those of the fields of S, each selection
  with its path is found by as many expansions of the operation as there were visits
  (`Expansion`), and where each fragment is spread once, a selection's path follows from its
  owner's, so that expansion finds nothing else (`OnePath`). `HangsFrom` says that what
  waits on the stack waits below a recorded path.
- `InspectionProofs`: `InspectionTypes`, `AllowedQueriesAreWithinCounts`,
  `AllowedQueriesAreWithinLimits`, `ValidateIsSound`. No evaluator allows what the policy
  does not (`EvaluatorsOnlyPass`). The two theorems on limits follow the measures from
  `ParserProofs` through the aggregation (`InfoInv` and `WeighedInv`: the result covers
  every operation walked so far) and the input, which leaves zeros out (`NotExceeded`), to
  the rules. `InspectionTypes` needs that all measures are numbers (`TypeInv`). For
  `ValidateIsSound`, `SourcesInv` says that every path of the result is requested by some
  operation and that the root is the one of their type; `Leads` follows a path through the
  schema's types, and `TypingIsExpansion` shows, for a document without aliases whose
  conditions change no type, that the types the selections stand on are where the paths
  above them lead. So if the fields exist, each requested path can be looked up
  (`FieldsGivePaths`). For the converse not every requested path is recorded, but of every
  field one is (`Sampled`, which `WeighedInv` carries), and a selection has one type however
  often its fragment is spread (`UniqueType`), so that one path is enough
  (`RecordedSuffice`).
- `Induction`: the library's induction theorems take the property as an operator, which the
  provers cannot instantiate. These lemmas take sets and functions: a set of numbers has a
  least member (`Least`, from the library's `WFMin`), so a set closed under rank induction
  is everything (`RankInduction`, `NatInduct`), a recursive definition along a rank has one
  solution (`RankRecursion`, `NatRecursion`), and what holds of the empty set and is passed
  on with each further member holds of every finite set (`SetInduct`). Maxima of finite sets
  and `MapThenSumSet` are defined by `CHOOSE` and recursion; `MaxOfFinite`, `SumUnfold` and
  `SumRemove` say what they are.

Only model-checked: the liveness properties (`EveryEvaluationDecides`,
`EveryRequestLeavesTheHandler`, `NoParserLeaks`, `SignalEndsProcess`), as the prover handles
neither fairness nor ENABLED. Every invariant and both refinements of the passing runs are
also theorems.

## 5. Not modelled

- gqlparser and the OPA library: documents are abstract syntax, a rule is what Rego's
  semantics make of it. An evaluation error of the embedded policy is `OpaFail` in
  `Evaluator`. Parameters of another JSON type than documented are left out.
- Own policies (`--opa-embed` with another file): `Policy` of `Evaluator` is arbitrary,
  `Policy.tla` is the shipped one.
- String handling that carries no decision: joining and splitting paths (`splitPath`),
  reasons and their sanitizing, the digest of the cache key.
- float64 rounding in the limiter, the wall clock being adjusted, `time.Time` resolution:
  time is discrete and monotonic (Go uses the monotonic clock here).
- Growth of the decision cache, which never evicts; the bytes of hashes and cache keys.
- TLS, HTTP details, messages, logging, metric labels and histograms; a failure of the
  metrics server, which is not even logged. TLS changes the listener only.
- `testutil` and the sample policies, which are not part of the running program.

## 6. Plan

- `Firewall`: limiter, proxy and evaluator composed for concurrent requests, with metrics;
  the proxy would use `PolicyGate` in place of its arbitrary verdicts.
