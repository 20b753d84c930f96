----------------------------- MODULE Evaluator -----------------------------
(***************************************************************************)
(* compositeEvaluator.Evaluate (cmd/server/main.go) run by concurrent      *)
(* request goroutines: schema check, opa.BuildInput, the decision cache,   *)
(* the OPA call and the store into the cache, while the admin API changes  *)
(* the DataStore underneath.                                               *)
(*                                                                         *)
(* A query is a record [shape, detail, tenant].  "shape" stands for the    *)
(* four fields decisionCacheKey reads (operation type, depth, field count, *)
(* field paths); "detail" for the rest the policy can see (operation name, *)
(* variables, directives, ...).  The policy is a function of the query,    *)
(* the parameters and the tenant configuration it is handed.               *)
(*                                                                         *)
(* hist, basis and the fields info, from, to and written of a cache entry  *)
(* are history: no guard reads them.  hist[v] is the v-th content of the   *)
(* DataStore.                                                              *)
(***************************************************************************)
EXTENDS DataStore, Sequences

CONSTANTS
  Workers,        \* request goroutines
  Infos,          \* queries, [shape, detail, tenant]
  NoTenant,       \* the empty TenantID
  Keys,           \* cache keys
  KeyOfShape,     \* the digest of a shape, [shapes -> Keys]; may collide
  SchemaRejects,  \* the queries schema.Validate refuses ({} without a schema)
  Policy(_, _, _),\* what OPA answers: query, parameters, tenant config
  Confs,          \* settings of the process, [ttl, failClosed, auditOnly]
  NoEntry,        \* "no such key" in the cache
  MaxTime,        \* bound on the clock
  MaxUpdates      \* bound on the number of admin updates

ASSUME EvaluatorAssumption ==
  /\ Infos # {}
  /\ \A i \in Infos : /\ i.tenant \in Tenants \cup {NoTenant}
                      /\ KeyOfShape[i.shape] \in Keys
  /\ NoTenant \notin Tenants
  /\ SchemaRejects \subseteq Infos
  /\ \A i \in Infos, p \in Params, c \in TenantCfgs \cup {NilCfg} :
       Policy(i, p, c) \in BOOLEAN
  /\ Confs \subseteq [ttl : Nat, failClosed : BOOLEAN, auditOnly : BOOLEAN]
  /\ MaxTime \in Nat /\ MaxUpdates \in Nat

VARIABLES
  conf,      \* the flags the process was started with
  now,       \* the clock
  cache,     \* the decision cache
  readers,   \* the workers holding mu.RLock around the cache lookup
  pc,        \* where each worker is in Evaluate
  info,      \* the query each worker evaluates
  input,     \* the part of opa.Input that comes from the DataStore
  allowed,   \* the result of the evaluation
  rec,       \* the metrics the current evaluation has recorded
  hist,      \* history: every content the DataStore has had
  basis      \* history: where the decision comes from

workVars == <<pc, info, input, allowed, rec, basis>>
vars == <<conf, now, cache, readers, hist, storeVars, workVars>>

Metrics == {"cache_hit", "error", "evaluated", "audit_block", "block"}

Places == {"idle", "params", "tenant", "lookup", "reading", "opa", "store",
           "writing", "decided"}

\* The evaluation a decision stems from: its query, the span of DataStore
\* versions during which it ran, and the age of the decision when it was used.
Bases == [info : Infos, from : Nat, to : Nat, age : Nat]

Entries == [allowed : BOOLEAN, expiry : Nat,
            info : Infos, from : Nat, to : Nat, written : Nat]

\* A lookup tells a missing key from every entry.
ASSUME EntryAssumption == NoEntry \notin Entries

Inputs == [params : Params, cfg : TenantCfgs \cup {NilCfg}]

\* The locals of a worker that is not evaluating: no step reads them before
\* Begin and BuildInput have assigned them.
NoInfo == CHOOSE i \in Infos : TRUE
NoInput == [params |-> EmptyParams, cfg |-> NilCfg]
NoBasis == [info |-> NoInfo, from |-> 1, to |-> 1, age |-> 0]

TypeOK ==
  /\ StoreTypeOK
  /\ conf \in Confs
  /\ now \in 0..MaxTime
  /\ cache \in [Keys -> Entries \cup {NoEntry}]
  /\ readers \subseteq Workers
  /\ pc \in [Workers -> Places]
  /\ info \in [Workers -> Infos]
  /\ input \in [Workers -> Inputs]
  /\ allowed \in [Workers -> BOOLEAN]
  /\ rec \in [Workers -> SUBSET Metrics]
  /\ hist \in Seq([params : Params \cup {NilParams}, tenants : TenantMaps])
  /\ basis \in [Workers -> Bases]

-----------------------------------------------------------------------------

Version == Len(hist)

decisionCacheKey(i) == KeyOfShape[i.shape]

\* Lock() has been called and not yet released: a new RLock() waits, so that
\* a writer is not starved by a stream of readers.
WriterPending == \E w \in Workers : pc[w] = "writing"

\* Mutant: !time.Now().After(cached.expiry)
MutLive(e) == now <= e.expiry

\* time.Now().Before(cached.expiry)
Live(e) == now < e.expiry

Hit(w) ==
  LET e == cache[decisionCacheKey(info[w])] IN e # NoEntry /\ Live(e)

Expiry == now + conf.ttl

\* Mutant: the policy's decision is returned as it is.
MutOutcome(a) == a

\* The decision that leaves Evaluate: audit-only mode turns a denial into an
\* allow.
Outcome(a) == a \/ conf.auditOnly

Goto(w, place) == pc' = [pc EXCEPT ![w] = place]

Record(w, events) == rec' = [rec EXCEPT ![w] = @ \cup events]

\* The read lock is taken and released around the copy of the fields; a query
\* the schema refuses is decided there and then.
Begin(w, i) ==
  /\ pc[w] = "idle"
  /\ ~WriterPending
  /\ info' = [info EXCEPT ![w] = i]
  /\ basis' = [basis EXCEPT ![w] = [info |-> i, from |-> Version,
                                    to |-> Version, age |-> 0]]
  /\ allowed' = [allowed EXCEPT ![w] = FALSE]
  /\ IF i \in SchemaRejects
     THEN Goto(w, "decided") /\ rec' = [rec EXCEPT ![w] = {"block"}]
     ELSE Goto(w, "params") /\ rec' = [rec EXCEPT ![w] = {}]
  /\ UNCHANGED <<conf, now, cache, readers, hist, storeVars, input>>

\* opa.BuildInput, first half: store.GetParams.
ReadParams(w) ==
  /\ pc[w] = "params"
  /\ input' = [input EXCEPT ![w].params = GetParams]
  /\ Goto(w, "tenant")
  /\ UNCHANGED <<conf, now, cache, readers, hist, storeVars, info, allowed,
                 rec, basis>>

\* The tenant configuration BuildInput gives query i: nil without a tenant.
TenantConfig(i, map) ==
  IF i.tenant = NoTenant THEN NilCfg ELSE CfgIn(map, i.tenant)

\* opa.BuildInput, second half: store.GetTenant, for a query with a tenant.
ReadTenant(w) ==
  /\ pc[w] = "tenant"
  /\ input' = [input EXCEPT ![w].cfg = TenantConfig(info[w], tenants)]
  /\ Goto(w, IF conf.ttl > 0 THEN "lookup" ELSE "opa")
  /\ UNCHANGED <<conf, now, cache, readers, hist, storeVars, info, allowed,
                 rec, basis>>

RLock(w) ==
  /\ pc[w] = "lookup"
  /\ ~WriterPending
  /\ readers' = readers \cup {w}
  /\ Goto(w, "reading")
  /\ UNCHANGED <<conf, now, cache, hist, storeVars, info, input, allowed, rec,
                 basis>>

\* Mutant: the early return of the hit path forgets the lock.
MutRUnlockOnHit(w) == UNCHANGED readers

RUnlockOnHit(w) == readers' = readers \ {w}

\* The hit path has its own RUnlock, and its own audit-only conversion.
CacheHit(w) ==
  LET e == cache[decisionCacheKey(info[w])] IN
  /\ pc[w] = "reading"
  /\ Hit(w)
  /\ RUnlockOnHit(w)
  /\ allowed' = [allowed EXCEPT ![w] = Outcome(e.allowed)]
  /\ Record(w, {"cache_hit"} \cup
               (IF conf.auditOnly /\ ~e.allowed THEN {"audit_block"} ELSE {}))
  /\ basis' = [basis EXCEPT ![w] = [info |-> e.info, from |-> e.from,
                                    to |-> e.to, age |-> now - e.written]]
  /\ Goto(w, "decided")
  /\ UNCHANGED <<conf, now, cache, hist, storeVars, info, input>>

CacheMiss(w) ==
  /\ pc[w] = "reading"
  /\ ~Hit(w)
  /\ readers' = readers \ {w}
  /\ Goto(w, "opa")
  /\ UNCHANGED <<conf, now, cache, hist, storeVars, info, input, allowed, rec,
                 basis>>

\* An answer goes on to the cache, if there is one; a failure does not.
AfterAnswer == IF conf.ttl > 0 THEN "store" ELSE "decided"

\* Mutant: a failure is cached like an answer.
MutAfterFailure == AfterAnswer

AfterFailure == "decided"

\* The OPA call: the policy sees the query and what BuildInput read, not what
\* the store holds by now.
Ask(w) == Policy(info[w], input[w].params, input[w].cfg)

\* OPA answers: the decision is recorded, turned into an allow in audit-only
\* mode, and handed on to be cached.
OpaAnswer(w) ==
  LET a == Ask(w) IN
  /\ pc[w] = "opa"
  /\ allowed' = [allowed EXCEPT ![w] = Outcome(a)]
  /\ Record(w, {"evaluated"} \cup
               (IF a THEN {} ELSE IF conf.auditOnly THEN {"audit_block"}
                                                    ELSE {"block"}))
  /\ basis' = [basis EXCEPT ![w].to = Version]
  /\ Goto(w, AfterAnswer)
  /\ UNCHANGED <<conf, now, cache, readers, hist, storeVars, info, input>>

\* OPA fails (a timeout, a bad status, an undecodable answer, an evaluation
\* error): the flag decides, and nothing is cached.
OpaFail(w) ==
  /\ pc[w] = "opa"
  /\ allowed' = [allowed EXCEPT ![w] = ~conf.failClosed]
  /\ Record(w, {"error"})
  /\ Goto(w, AfterFailure)
  /\ UNCHANGED <<conf, now, cache, readers, hist, storeVars, info, input, basis>>

\* Lock() is called: one writer at a time passes the lock's inner mutex.
RequestLock(w) ==
  /\ pc[w] = "store"
  /\ ~WriterPending
  /\ Goto(w, "writing")
  /\ UNCHANGED <<conf, now, cache, readers, hist, storeVars, info, input,
                 allowed, rec, basis>>

\* Lock() returns once the readers are gone; the entry is written and the
\* lock released.
StoreDecision(w) ==
  /\ pc[w] = "writing"
  /\ readers = {}
  /\ cache' = [cache EXCEPT ![decisionCacheKey(info[w])] =
                 [allowed |-> allowed[w], expiry |-> Expiry, info |-> info[w],
                  from |-> basis[w].from, to |-> basis[w].to,
                  written |-> now]]
  /\ Goto(w, "decided")
  /\ UNCHANGED <<conf, now, readers, hist, storeVars, info, input, allowed, rec,
                 basis>>

\* Evaluate returns to the proxy; its locals are gone, and the goroutine may
\* evaluate another query.
Return(w) ==
  /\ pc[w] = "decided"
  /\ Goto(w, "idle")
  /\ info' = [info EXCEPT ![w] = NoInfo]
  /\ input' = [input EXCEPT ![w] = NoInput]
  /\ allowed' = [allowed EXCEPT ![w] = FALSE]
  /\ rec' = [rec EXCEPT ![w] = {}]
  /\ basis' = [basis EXCEPT ![w] = NoBasis]
  /\ UNCHANGED <<conf, now, cache, readers, hist, storeVars>>

\* The DataStore changes under the evaluations (the admin API's handlers); an
\* update that changes nothing is a stuttering step.
Update ==
  /\ Version <= MaxUpdates
  /\ \/ \E p \in Params \cup {NilParams} : SetParams(p)
     \/ \E t \in Tenants, c \in TenantCfgs \cup {NilCfg} : SetTenant(t, c)
     \/ \E t \in Tenants : DeleteTenant(t)
  /\ storeVars' # storeVars
  /\ hist' = Append(hist, [params |-> params', tenants |-> tenants'])
  /\ UNCHANGED <<conf, now, cache, readers, workVars>>

Tick ==
  /\ now < MaxTime
  /\ now' = now + 1
  /\ UNCHANGED <<conf, cache, readers, hist, storeVars, workVars>>

Init ==
  /\ NewDataStore
  /\ conf \in Confs
  /\ now = 0
  /\ cache = [k \in Keys |-> NoEntry]
  /\ readers = {}
  /\ pc = [w \in Workers |-> "idle"]
  /\ info = [w \in Workers |-> NoInfo]
  /\ input = [w \in Workers |-> NoInput]
  /\ allowed = [w \in Workers |-> FALSE]
  /\ rec = [w \in Workers |-> {}]
  /\ hist = <<[params |-> params, tenants |-> tenants]>>
  /\ basis = [w \in Workers |-> NoBasis]

\* The call comes back with an answer or with an error.
OpaReturns(w) == OpaAnswer(w) \/ OpaFail(w)

Finish(w) ==
  \/ ReadParams(w) \/ ReadTenant(w) \/ RLock(w) \/ CacheHit(w) \/ CacheMiss(w)
  \/ OpaReturns(w) \/ RequestLock(w) \/ StoreDecision(w)

Next ==
  \/ \E w \in Workers : (\E i \in Infos : Begin(w, i)) \/ Finish(w) \/ Return(w)
  \/ Update
  \/ Tick

Spec == Init /\ [][Next]_vars

\* A running goroutine takes its next step; OPA answers or fails (the sidecar
\* client has a timeout, the embedded policy terminates), and Lock() returns once
\* the readers have left.  sync.RWMutex starves neither those who wait for the
\* read lock nor those who wait to be the writer.
Fairness ==
  \A w \in Workers :
    /\ WF_vars(\/ ReadParams(w) \/ ReadTenant(w) \/ CacheHit(w) \/ CacheMiss(w)
               \/ OpaReturns(w) \/ StoreDecision(w))
    /\ SF_vars(RLock(w) \/ RequestLock(w))

FairSpec == Spec /\ Fairness

-----------------------------------------------------------------------------

\* What the policy says of query i under version v of the parameters and
\* version u of the tenant configurations.
PolicyAt(i, v, u) ==
  Policy(i, CopyOf(hist[v].params), TenantConfig(i, hist[u].tenants))

\* Decision a on query i is the policy's, under audit-only mode or not, for
\* parameters and a tenant configuration the DataStore held between versions
\* from and to, the parameters no later than the configuration.
Explained(a, i, from, to) ==
  \E v, u \in from..to : v <= u /\ a = Outcome(PolicyAt(i, v, u))

\* Every decision Evaluate returns has a legitimate source, whatever the
\* admin does meanwhile: a schema rejection denies; an OPA failure follows the
\* fail-closed flag; an evaluated decision is the policy's on this very query,
\* with rules in force between the start of this evaluation and OPA's answer;
\* a cached one is the policy's on a query with the same cache key, with rules
\* in force during the evaluation that stored it.
DecisionJustified ==
  \A w \in Workers : pc[w] = "decided" =>
    /\ info[w] \in SchemaRejects => ~allowed[w]
    /\ info[w] \notin SchemaRejects =>
         \E m \in {"error", "evaluated", "cache_hit"} : m \in rec[w]
    /\ "error" \in rec[w] => allowed[w] = ~conf.failClosed
    /\ "evaluated" \in rec[w] =>
         /\ basis[w].info = info[w]
         /\ Explained(allowed[w], info[w], basis[w].from, basis[w].to)
    /\ "cache_hit" \in rec[w] =>
         /\ decisionCacheKey(basis[w].info) = decisionCacheKey(info[w])
         /\ Explained(allowed[w], basis[w].info, basis[w].from, basis[w].to)

\* A decision is served from the cache for less than the TTL after it was
\* stored, so an admin update reaches every query that much later at most,
\* counted from the end of the evaluations it overtook.
StaleForLessThanTTL ==
  \A w \in Workers :
    (pc[w] = "decided" /\ "cache_hit" \in rec[w]) => basis[w].age < conf.ttl

\* In audit-only mode the policy only observes: whatever it says, and whether it
\* is asked or a cached decision is served, a query is turned away by the schema
\* or by a failure under fail-closed, and by nothing else.
AuditOnlyObserves ==
  \A w \in Workers : (pc[w] = "decided" /\ conf.auditOnly /\ ~allowed[w]) =>
    \/ info[w] \in SchemaRejects
    \/ "error" \in rec[w] /\ conf.failClosed

\* The policy on query i, with the contents of the store as it holds them.
Permits(i, p, map) == Policy(i, CopyOf(p), TenantConfig(i, map))

\* Where a goroutine is, seen from outside: a question is open until the policy,
\* the flag or the cache has answered it.
PhaseOf(place) ==
  CASE place = "idle" -> "idle"
    [] place \in {"store", "writing"} -> "keeping"
    [] place = "decided" -> "done"
    [] OTHER -> "asked"

Phases == [w \in Workers |-> PhaseOf(pc[w])]

\* The version of the store an open question was asked in.
AskedIn ==
  [w \in Workers |-> IF PhaseOf(pc[w]) = "asked" THEN basis[w].from ELSE 0]

\* The answers in the cache and when they expire; none is one that has expired.
Remembered ==
  [k \in Keys |-> IF cache[k] = NoEntry
                  THEN [allowed |-> FALSE, until |-> 0]
                  ELSE [allowed |-> cache[k].allowed, until |-> cache[k].expiry]]

Gate == INSTANCE PolicyGate WITH
  Callers <- Workers, Queries <- Infos, NoQuery <- NoInfo, Refused <- SchemaRejects,
  KeyOf <- decisionCacheKey,
  Contents <- [params : Params \cup {NilParams}, tenants : TenantMaps],
  rules <- hist, memory <- Remembered, phase <- Phases, query <- info,
  since <- AskedIn

\* The evaluation in several steps, with two separate reads of the store, a lock
\* and a cache, looks to its callers like a gate that answers in one step, with
\* rules in force since the question or with an answer of the policy less than a
\* TTL old.
ImplementsPolicyGate == Gate!Spec

\* Every evaluation that gets past the schema check returns a decision: the
\* hit path, the miss path and the store all let go of mu.
EveryEvaluationDecides ==
  \A w \in Workers : (pc[w] = "params") ~> (pc[w] = "decided")

\* README.md:172, "Each tenant ... can have its own rules configuration": a cached
\* decision on a query is one that the policy gives on this very query, with the
\* parameters and the configuration its own tenant has, or ever had.
OwnRulesDecide ==
  \A w \in Workers : (pc[w] = "decided" /\ "cache_hit" \in rec[w]) =>
    Explained(allowed[w], info[w], 1, Version)

=============================================================================
