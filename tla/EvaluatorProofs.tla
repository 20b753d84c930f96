-------------------------- MODULE EvaluatorProofs --------------------------
(***************************************************************************)
(* Proofs about Evaluator for every number of goroutines, every set of     *)
(* queries, every policy, every cache-key digest and every TTL; at the end *)
(* that Evaluator implements PolicyGate.                                   *)
(***************************************************************************)
EXTENDS Evaluator, TLAPS

\* A worker is between the schema check and the return.
Evaluating == {"params", "tenant", "lookup", "reading", "opa", "store", "writing"}

\* The history ends with the present content of the store.
HistoryInv ==
  /\ Len(hist) \in Nat \ {0}
  /\ hist[Len(hist)] = [params |-> params, tenants |-> tenants]

\* A span of versions the store has been through.
Span(from, to) == from \in 1..Len(hist) /\ to \in 1..Len(hist)

ParamsRead(w) ==
  \E v \in basis[w].from..Len(hist) : input[w].params = CopyOf(hist[v].params)

InputRead(w) ==
  \E v, u \in basis[w].from..Len(hist) :
    /\ v <= u
    /\ input[w].params = CopyOf(hist[v].params)
    /\ input[w].cfg = TenantConfig(info[w], hist[u].tenants)

EvaluationInv(w) ==
  /\ Span(basis[w].from, basis[w].to)
  /\ pc[w] \in Evaluating => basis[w].info = info[w] /\ info[w] \notin SchemaRejects
  /\ pc[w] \in {"params", "tenant", "lookup", "reading", "opa"} => rec[w] = {}
  /\ pc[w] = "tenant" => ParamsRead(w)
  /\ pc[w] \in {"lookup", "reading", "opa"} => InputRead(w)
  /\ pc[w] \in {"store", "writing"} =>
       /\ "evaluated" \in rec[w] /\ "error" \notin rec[w] /\ "cache_hit" \notin rec[w]
       /\ Explained(allowed[w], info[w], basis[w].from, basis[w].to)

\* What the cache promises: an entry is under its query's key, was stored no
\* later than now, expires a TTL later, and is explained by its evaluation.
EntryInv(k, e) ==
  /\ decisionCacheKey(e.info) = k
  /\ Span(e.from, e.to)
  /\ e.written <= now
  /\ e.expiry = e.written + conf.ttl
  /\ Explained(e.allowed, e.info, e.from, e.to)

CacheInv == \A k \in Keys : cache[k] # NoEntry => EntryInv(k, cache[k])

\* DecisionJustified and StaleForLessThanTTL, of one worker.
DecidedInv(w) ==
  pc[w] = "decided" =>
    /\ info[w] \in SchemaRejects => ~allowed[w]
    /\ info[w] \notin SchemaRejects =>
         \E m \in {"error", "evaluated", "cache_hit"} : m \in rec[w]
    /\ "error" \in rec[w] => allowed[w] = ~conf.failClosed
    /\ "evaluated" \in rec[w] =>
         /\ basis[w].info = info[w]
         /\ Explained(allowed[w], info[w], basis[w].from, basis[w].to)
    /\ "cache_hit" \in rec[w] =>
         /\ decisionCacheKey(basis[w].info) = decisionCacheKey(info[w])
         /\ Explained(allowed[w], basis[w].info, basis[w].from, basis[w].to)
         /\ basis[w].age < conf.ttl

WorkerInv(w) == EvaluationInv(w) /\ DecidedInv(w)

IInv ==
  /\ TypeOK
  /\ HistoryInv
  /\ \A w \in Workers : WorkerInv(w)
  /\ CacheInv

-----------------------------------------------------------------------------

LEMMA NoInfoType == NoInfo \in Infos
BY EvaluatorAssumption DEF NoInfo

LEMMA CopyType == ASSUME NEW p \in Params \cup {NilParams}
                  PROVE  CopyOf(p) \in Params
BY StoreAssumption DEF CopyOf

LEMMA TenantConfigType ==
  ASSUME NEW i \in Infos, NEW m \in TenantMaps
  PROVE  TenantConfig(i, m) \in TenantCfgs \cup {NilCfg}
BY EvaluatorAssumption DEF TenantConfig, CfgIn, TenantMaps

\* A decision once explained stays explained: the history only grows.
LEMMA ExplainedStable ==
  ASSUME TypeOK, HistoryInv, NEW a, NEW i, NEW from, NEW to, Span(from, to),
         NEW h, hist' = Append(hist, h), conf' = conf,
         Explained(a, i, from, to)
  PROVE  Explained(a, i, from, to)' /\ Span(from, to)'
<1>1. \A v \in 1..Len(hist) : hist'[v] = hist[v]
  BY DEF TypeOK
<1>2. Len(hist') = Len(hist) + 1
  BY DEF TypeOK
<1>3. PICK v \in from..to, u \in from..to : v <= u /\ a = Outcome(PolicyAt(i, v, u))
  BY DEF Explained
<1>4. v \in 1..Len(hist) /\ u \in 1..Len(hist)
  BY DEF Span, HistoryInv
<1>5. Outcome(PolicyAt(i, v, u))' = Outcome(PolicyAt(i, v, u))
  BY <1>1, <1>4 DEF Outcome, PolicyAt
<1>6. Explained(a, i, from, to)'
  BY <1>3, <1>5 DEF Explained
<1>7. Span(from, to)'
  BY <1>2 DEF Span, HistoryInv
<1> QED BY <1>6, <1>7

\* A worker whose locals do not change keeps its invariant.
SameLocals(w) ==
  /\ pc'[w] = pc[w] /\ info'[w] = info[w] /\ input'[w] = input[w]
  /\ allowed'[w] = allowed[w] /\ rec'[w] = rec[w] /\ basis'[w] = basis[w]

LEMMA BystanderInv ==
  ASSUME NEW w \in Workers, WorkerInv(w), SameLocals(w), UNCHANGED <<hist, conf>>
  PROVE  WorkerInv(w)'
<1>1. EvaluationInv(w)'
  BY DEF WorkerInv, EvaluationInv, SameLocals, Span, ParamsRead, InputRead,
         Explained, Outcome, PolicyAt
<1>2. DecidedInv(w)'
  BY DEF WorkerInv, DecidedInv, SameLocals, Explained, Outcome, PolicyAt
<1> QED BY <1>1, <1>2 DEF WorkerInv

\* The cache keeps its promise when it does not change.
LEMMA CacheInvStable ==
  ASSUME TypeOK, CacheInv, UNCHANGED <<cache, hist, conf>>,
         now' \in Nat, now <= now'
  PROVE  CacheInv'
<1> SUFFICES ASSUME NEW k \in Keys, cache[k] # NoEntry PROVE EntryInv(k, cache[k])'
  BY DEF CacheInv
<1>1. cache[k] \in Entries
  BY DEF TypeOK
<1>2. cache[k].written \in Nat /\ now \in Nat
  BY <1>1, EvaluatorAssumption DEF Entries, TypeOK
<1>3. EntryInv(k, cache[k])
  BY DEF CacheInv
<1> QED
  BY <1>2, <1>3 DEF EntryInv, Span, Explained, Outcome, PolicyAt

LEMMA TypeStep == IInv /\ [Next]_vars => TypeOK'
<1> SUFFICES ASSUME IInv, [Next]_vars PROVE TypeOK'
  OBVIOUS
<1> USE DEF IInv
<1> USE EvaluatorAssumption, StoreAssumption
<1>1. ASSUME NEW w \in Workers, NEW i \in Infos, Begin(w, i) PROVE TypeOK'
  <2>1. basis' \in [Workers -> Bases]
    BY <1>1 DEF Begin, TypeOK, Bases, Version, HistoryInv
  <2>2. rec' \in [Workers -> SUBSET Metrics]
    <3>1. \E m \in SUBSET Metrics : rec' = [rec EXCEPT ![w] = m]
      BY <1>1, {"block"} \in SUBSET Metrics, {} \in SUBSET Metrics DEF Begin, Metrics
    <3> QED BY <3>1 DEF TypeOK
  <2>3. pc' \in [Workers -> Places]
    <3>1. \E p \in {"decided", "params"} : pc' = [pc EXCEPT ![w] = p]
      BY <1>1 DEF Begin, Goto
    <3> QED BY <3>1 DEF TypeOK, Places
  <2> QED
    BY <1>1, <2>1, <2>2, <2>3 DEF Begin, TypeOK, StoreTypeOK, storeVars
<1>2. ASSUME NEW w \in Workers, ReadParams(w) PROVE TypeOK'
  <2>1. GetParams \in Params
    BY CopyType DEF TypeOK, StoreTypeOK, GetParams
  <2> QED
    BY <1>2, <2>1 DEF TypeOK, StoreTypeOK, storeVars, ReadParams, Goto, Places, Inputs
<1>3. ASSUME NEW w \in Workers, ReadTenant(w) PROVE TypeOK'
  <2>1. TenantConfig(info[w], tenants) \in TenantCfgs \cup {NilCfg}
    BY TenantConfigType DEF TypeOK, StoreTypeOK
  <2> QED
    BY <1>3, <2>1 DEF TypeOK, StoreTypeOK, storeVars, ReadTenant, Goto, Places, Inputs
<1>4. ASSUME NEW w \in Workers, RLock(w) PROVE TypeOK'
  BY <1>4 DEF TypeOK, StoreTypeOK, storeVars, RLock, Goto, Places
<1>5. ASSUME NEW w \in Workers, CacheHit(w) PROVE TypeOK'
  <2> DEFINE k == decisionCacheKey(info[w])
  <2>1. k \in Keys
    BY DEF TypeOK, decisionCacheKey
  <2>2. cache[k] \in Entries /\ cache[k].written <= now
    BY <1>5, <2>1 DEF TypeOK, CacheHit, Hit, CacheInv, EntryInv
  <2>3. now - cache[k].written \in Nat
    BY <2>2 DEF Entries, TypeOK
  <2>4. Outcome(cache[k].allowed) \in BOOLEAN
    BY DEF Outcome
  <2> HIDE DEF k
  <2>5. [info |-> cache[k].info, from |-> cache[k].from, to |-> cache[k].to,
         age |-> now - cache[k].written] \in Bases
    BY <2>2, <2>3 DEF Entries, Bases
  <2>6. basis' \in [Workers -> Bases]
    BY <1>5, <2>5 DEF CacheHit, TypeOK, k
  <2>7. allowed' \in [Workers -> BOOLEAN]
    BY <1>5, <2>4 DEF CacheHit, TypeOK, k
  <2>8. rec' \in [Workers -> SUBSET Metrics]
    BY <1>5 DEF CacheHit, Record, Metrics, TypeOK
  <2> QED
    BY <1>5, <2>6, <2>7, <2>8
    DEF TypeOK, StoreTypeOK, storeVars, CacheHit, RUnlockOnHit, Goto, Places
<1>6. ASSUME NEW w \in Workers, CacheMiss(w) PROVE TypeOK'
  BY <1>6 DEF TypeOK, StoreTypeOK, storeVars, CacheMiss, Goto, Places
<1>7. ASSUME NEW w \in Workers, OpaAnswer(w) PROVE TypeOK'
  <2>1. basis' \in [Workers -> Bases]
    BY <1>7 DEF OpaAnswer, TypeOK, Bases, Version, HistoryInv
  <2>2. allowed' \in [Workers -> BOOLEAN]
    BY <1>7 DEF OpaAnswer, TypeOK, Outcome
  <2>3. rec' \in [Workers -> SUBSET Metrics]
    BY <1>7 DEF OpaAnswer, Record, Metrics, TypeOK
  <2> QED
    BY <1>7, <2>1, <2>2, <2>3
    DEF TypeOK, StoreTypeOK, storeVars, OpaAnswer, AfterAnswer, Goto, Places
<1>8. ASSUME NEW w \in Workers, OpaFail(w) PROVE TypeOK'
  BY <1>8 DEF TypeOK, StoreTypeOK, storeVars, OpaFail, AfterFailure, Record, Metrics,
              Goto, Places
<1>9. ASSUME NEW w \in Workers, RequestLock(w) PROVE TypeOK'
  BY <1>9 DEF TypeOK, StoreTypeOK, storeVars, RequestLock, Goto, Places
<1>10. ASSUME NEW w \in Workers, StoreDecision(w) PROVE TypeOK'
  <2>1. conf.ttl \in Nat /\ now \in Nat
    BY DEF TypeOK
  <2>2. Expiry \in Nat
    BY <2>1 DEF Expiry
  <2>3. [allowed |-> allowed[w], expiry |-> Expiry, info |-> info[w],
         from |-> basis[w].from, to |-> basis[w].to, written |-> now] \in Entries
    BY <2>1, <2>2 DEF TypeOK, Bases, Entries
  <2>4. cache' \in [Keys -> Entries \cup {NoEntry}]
    BY <1>10, <2>3 DEF StoreDecision, TypeOK
  <2> QED
    BY <1>10, <2>4 DEF TypeOK, StoreTypeOK, storeVars, StoreDecision, Goto, Places
<1>11. ASSUME NEW w \in Workers, Return(w) PROVE TypeOK'
  BY <1>11, NoInfoType
  DEF TypeOK, StoreTypeOK, storeVars, Return, Goto, Places, NoInput, NoBasis,
      Inputs, Bases
<1>12. ASSUME Update PROVE TypeOK'
  <2>1. StoreTypeOK'
    BY <1>12 DEF Update, SetParams, SetTenant, DeleteTenant, TypeOK, StoreTypeOK,
                 TenantMaps
  <2>2. hist' \in Seq([params : Params \cup {NilParams}, tenants : TenantMaps])
    BY <1>12, <2>1 DEF Update, TypeOK, StoreTypeOK
  <2> QED
    BY <1>12, <2>1, <2>2 DEF Update, TypeOK, workVars
<1>13. ASSUME Tick PROVE TypeOK'
  BY <1>13 DEF Tick, TypeOK, StoreTypeOK, storeVars, workVars
<1>14. CASE UNCHANGED vars
  BY <1>14 DEF vars, TypeOK, StoreTypeOK, storeVars, workVars
<1> QED
  BY <1>1, <1>2, <1>3, <1>4, <1>5, <1>6, <1>7, <1>8, <1>9, <1>10, <1>11, <1>12,
     <1>13, <1>14 DEF Next, Finish, OpaReturns

-----------------------------------------------------------------------------

LEMMA HistoryStep == IInv /\ [Next]_vars => HistoryInv'
<1> SUFFICES ASSUME IInv, [Next]_vars PROVE HistoryInv'
  OBVIOUS
<1>1. CASE Update
  BY <1>1 DEF Update, HistoryInv, IInv, TypeOK
<1>2. CASE ~Update
  <2>1. UNCHANGED <<hist, params, tenants>>
    BY <1>2 DEF Next, Finish, OpaReturns, Begin, ReadParams, ReadTenant, RLock,
                CacheHit, CacheMiss, OpaAnswer, OpaFail, RequestLock,
                StoreDecision, Return, Tick, vars, storeVars
  <2> QED BY <2>1 DEF HistoryInv, IInv
<1> QED BY <1>1, <1>2

\* The store's present content is the last version, so what BuildInput reads
\* is in the history.
LEMMA PresentIsLast ==
  ASSUME HistoryInv
  PROVE  /\ Len(hist) \in 1..Len(hist)
         /\ GetParams = CopyOf(hist[Len(hist)].params)
         /\ \A i : TenantConfig(i, tenants) = TenantConfig(i, hist[Len(hist)].tenants)
BY DEF HistoryInv, GetParams

LEMMA WorkerStep ==
  ASSUME IInv, NEW w \in Workers,
         (\E i \in Infos : Begin(w, i)) \/ Finish(w) \/ Return(w)
  PROVE  (\A x \in Workers : WorkerInv(x))'
<1> USE DEF IInv
<1>1. UNCHANGED <<hist, conf>> /\ \A x \in Workers \ {w} : SameLocals(x)
  BY DEF Begin, Finish, OpaReturns, ReadParams, ReadTenant, RLock, CacheHit,
         CacheMiss, OpaAnswer, OpaFail, RequestLock, StoreDecision, Return, Goto,
         Record, SameLocals, TypeOK
<1>2. \A x \in Workers \ {w} : WorkerInv(x)'
  BY <1>1, BystanderInv
<1>3. WorkerInv(w)'
  <2>1. ASSUME NEW i \in Infos, Begin(w, i) PROVE WorkerInv(w)'
    <3>1. /\ basis'[w] = [info |-> i, from |-> Len(hist), to |-> Len(hist), age |-> 0]
          /\ info'[w] = i /\ allowed'[w] = FALSE
      BY <2>1 DEF Begin, TypeOK, Version
    <3>2. \/ i \in SchemaRejects /\ pc'[w] = "decided" /\ rec'[w] = {"block"}
          \/ i \notin SchemaRejects /\ pc'[w] = "params" /\ rec'[w] = {}
      BY <2>1 DEF Begin, Goto, TypeOK
    <3>3. Span(basis[w].from, basis[w].to)'
      BY <1>1, <3>1 DEF Span, HistoryInv
    <3> QED
      BY <3>1, <3>2, <3>3 DEF WorkerInv, EvaluationInv, DecidedInv, Evaluating
  <2>2. ASSUME ReadParams(w) PROVE WorkerInv(w)'
    <3>1. ParamsRead(w)'
      BY <2>2, PresentIsLast
      DEF ReadParams, ParamsRead, WorkerInv, EvaluationInv, Span, TypeOK
    <3> QED
      BY <2>2, <3>1 DEF ReadParams, Goto, WorkerInv, EvaluationInv, DecidedInv,
                        TypeOK, Span, Evaluating
  <2>3. ASSUME ReadTenant(w) PROVE WorkerInv(w)'
    <3>1. InputRead(w)'
      BY <2>3, PresentIsLast
      DEF ReadTenant, ParamsRead, InputRead, WorkerInv, EvaluationInv, Span, TypeOK
    <3> QED
      BY <2>3, <3>1 DEF ReadTenant, Goto, WorkerInv, EvaluationInv, DecidedInv,
                        TypeOK, Span, Evaluating
  <2>4. ASSUME RLock(w) PROVE WorkerInv(w)'
    BY <2>4 DEF RLock, Goto, WorkerInv, EvaluationInv, DecidedInv, TypeOK,
                Span, InputRead, Evaluating
  <2>5. ASSUME CacheHit(w) PROVE WorkerInv(w)'
    <3> DEFINE k == decisionCacheKey(info[w])
               e == cache[k]
    <3>1. k \in Keys /\ e \in Entries /\ e # NoEntry
      BY <2>5, EvaluatorAssumption
      DEF TypeOK, CacheHit, Hit, decisionCacheKey
    <3>2. /\ decisionCacheKey(e.info) = k
          /\ Span(e.from, e.to)
          /\ Explained(e.allowed, e.info, e.from, e.to)
          /\ e.expiry = e.written + conf.ttl
      BY <3>1 DEF CacheInv, EntryInv
    <3>3. now < e.expiry
      BY <2>5 DEF CacheHit, Hit, Live
    <3>4. now - e.written < conf.ttl
      BY <3>1, <3>2, <3>3, EvaluatorAssumption DEF Entries, TypeOK
    <3>5. Outcome(e.allowed) = e.allowed
      BY <3>2 DEF Explained, Outcome
    <3>6. /\ basis'[w] = [info |-> e.info, from |-> e.from, to |-> e.to,
                          age |-> now - e.written]
          /\ allowed'[w] = Outcome(e.allowed)
          /\ "error" \notin rec'[w] /\ "evaluated" \notin rec'[w]
          /\ "cache_hit" \in rec'[w]
          /\ info' = info /\ pc'[w] = "decided"
      BY <2>5 DEF CacheHit, Goto, Record, TypeOK, WorkerInv, EvaluationInv
    <3>7. Explained(allowed[w], basis[w].info, basis[w].from, basis[w].to)'
      BY <1>1, <3>2, <3>5, <3>6 DEF Explained, Outcome, PolicyAt
    <3>8. info[w] \notin SchemaRejects
      BY <2>5 DEF CacheHit, WorkerInv, EvaluationInv, Evaluating
    <3> HIDE DEF k, e
    <3>9. EvaluationInv(w)'
      BY <1>1, <3>2, <3>6 DEF EvaluationInv, Span, Evaluating
    <3>10. DecidedInv(w)'
      BY <1>1, <3>2, <3>4, <3>6, <3>7, <3>8 DEF DecidedInv, decisionCacheKey, k
    <3> QED BY <3>9, <3>10 DEF WorkerInv
  <2>6. ASSUME CacheMiss(w) PROVE WorkerInv(w)'
    BY <2>6 DEF CacheMiss, Goto, WorkerInv, EvaluationInv, DecidedInv, TypeOK,
                Span, InputRead, Evaluating
  <2>7. ASSUME OpaAnswer(w) PROVE WorkerInv(w)'
    <3>1. PICK v \in basis[w].from..Len(hist), u \in basis[w].from..Len(hist) :
            /\ v <= u
            /\ input[w].params = CopyOf(hist[v].params)
            /\ input[w].cfg = TenantConfig(info[w], hist[u].tenants)
      BY <2>7 DEF OpaAnswer, WorkerInv, EvaluationInv, InputRead
    <3>2. /\ allowed'[w] = Outcome(PolicyAt(info[w], v, u))
          /\ basis'[w].from = basis[w].from /\ basis'[w].to = Len(hist)
          /\ basis'[w].info = info[w] /\ info' = info
          /\ info[w] \notin SchemaRejects
      BY <2>7, <3>1 DEF OpaAnswer, Ask, PolicyAt, TypeOK, Version, WorkerInv,
                        EvaluationInv, Evaluating, Bases
    <3>3. Explained(allowed[w], info[w], basis[w].from, basis[w].to)'
      <4>1. allowed'[w] = Outcome(PolicyAt(info[w], v, u))'
        BY <1>1, <3>2 DEF Outcome, PolicyAt
      <4> QED BY <1>1, <3>1, <3>2, <4>1 DEF Explained
    <3>4. /\ "error" \notin rec'[w] /\ "evaluated" \in rec'[w]
          /\ "cache_hit" \notin rec'[w]
          /\ pc'[w] \in {"store", "decided"}
      BY <2>7 DEF OpaAnswer, AfterAnswer, Record, Goto, TypeOK, WorkerInv, EvaluationInv
    <3>5. Span(basis[w].from, basis[w].to)'
      BY <1>1, <3>2 DEF WorkerInv, EvaluationInv, Span, HistoryInv
    <3>6. EvaluationInv(w)'
      BY <3>2, <3>3, <3>4, <3>5 DEF EvaluationInv, Evaluating
    <3>7. DecidedInv(w)'
      BY <3>2, <3>3, <3>4 DEF DecidedInv
    <3> QED BY <3>6, <3>7 DEF WorkerInv
  <2>8. ASSUME OpaFail(w) PROVE WorkerInv(w)'
    <3>1. /\ rec'[w] = {"error"} /\ pc'[w] = "decided" /\ info' = info
          /\ basis' = basis /\ allowed'[w] = ~conf.failClosed
          /\ info[w] \notin SchemaRejects
      BY <2>8 DEF OpaFail, AfterFailure, Record, Goto, TypeOK, WorkerInv,
                  EvaluationInv, Evaluating
    <3> QED
      BY <1>1, <3>1 DEF WorkerInv, EvaluationInv, DecidedInv, Span, Evaluating
  <2>9. ASSUME RequestLock(w) PROVE WorkerInv(w)'
    <3>1. Explained(allowed[w], info[w], basis[w].from, basis[w].to)'
      BY <1>1, <2>9 DEF RequestLock, WorkerInv, EvaluationInv, Explained, Outcome,
                        PolicyAt
    <3> QED
      BY <2>9, <3>1 DEF RequestLock, Goto, WorkerInv, EvaluationInv, DecidedInv,
                        TypeOK, Span, Evaluating
  <2>10. ASSUME StoreDecision(w) PROVE WorkerInv(w)'
    <3>1. Explained(allowed[w], info[w], basis[w].from, basis[w].to)'
      BY <1>1, <2>10 DEF StoreDecision, WorkerInv, EvaluationInv, Explained,
                         Outcome, PolicyAt
    <3> QED
      BY <2>10, <3>1 DEF StoreDecision, Goto, WorkerInv, EvaluationInv, DecidedInv,
                         TypeOK, Span, Evaluating
  <2>11. ASSUME Return(w) PROVE WorkerInv(w)'
    BY <2>11 DEF Return, Goto, WorkerInv, EvaluationInv, DecidedInv, TypeOK, Span,
                 HistoryInv, NoBasis, Evaluating
  <2> QED
    BY <2>1, <2>2, <2>3, <2>4, <2>5, <2>6, <2>7, <2>8, <2>9, <2>10, <2>11
    DEF Finish, OpaReturns
<1> QED BY <1>2, <1>3

LEMMA UpdateStep ==
  ASSUME IInv, Update
  PROVE  (\A w \in Workers : WorkerInv(w))' /\ CacheInv'
<1> USE DEF IInv
<1>1. PICK h : hist' = Append(hist, h)
  BY DEF Update
<1>2. /\ Len(hist') = Len(hist) + 1
      /\ \A v \in 1..Len(hist) : hist'[v] = hist[v]
  BY <1>1 DEF TypeOK
<1>3. UNCHANGED <<conf, now, cache, pc, info, input, allowed, rec, basis>>
  BY DEF Update, workVars
<1>4. ASSUME NEW w \in Workers PROVE WorkerInv(w)'
  <2>1. Span(basis[w].from, basis[w].to) /\ Span(basis[w].from, basis[w].to)'
    BY <1>2, <1>3 DEF WorkerInv, EvaluationInv, Span, HistoryInv
  <2>2. ASSUME Explained(allowed[w], basis[w].info, basis[w].from, basis[w].to)
        PROVE  Explained(allowed[w], basis[w].info, basis[w].from, basis[w].to)'
    BY <1>1, <1>3, <2>1, <2>2, ExplainedStable
  <2>3. ASSUME ParamsRead(w) PROVE ParamsRead(w)'
    BY <1>2, <1>3, <2>1, <2>3 DEF ParamsRead, Span
  <2>4. ASSUME InputRead(w) PROVE InputRead(w)'
    BY <1>2, <1>3, <2>1, <2>4 DEF InputRead, Span
  <2>5. EvaluationInv(w)'
    <3>1. pc[w] \in {"store", "writing"} => basis[w].info = info[w]
      BY DEF WorkerInv, EvaluationInv, Evaluating
    <3> QED
      BY <1>3, <2>1, <2>2, <2>3, <2>4, <3>1 DEF WorkerInv, EvaluationInv
  <2>6. DecidedInv(w)'
    BY <1>3, <2>2 DEF WorkerInv, DecidedInv
  <2> QED BY <2>5, <2>6 DEF WorkerInv
<1>5. CacheInv'
  BY <1>1, <1>3, ExplainedStable DEF CacheInv, EntryInv
<1> QED BY <1>4, <1>5

LEMMA CacheStep == IInv /\ [Next]_vars => CacheInv'
<1> SUFFICES ASSUME IInv, [Next]_vars PROVE CacheInv'
  OBVIOUS
<1> USE DEF IInv
<1>0. now \in Nat /\ conf.ttl \in Nat
  BY EvaluatorAssumption DEF TypeOK
<1>1. ASSUME NEW w \in Workers, StoreDecision(w) PROVE CacheInv'
  <2> DEFINE k == decisionCacheKey(info[w])
             e == [allowed |-> allowed[w], expiry |-> Expiry, info |-> info[w],
                   from |-> basis[w].from, to |-> basis[w].to, written |-> now]
  <2>1. /\ UNCHANGED <<hist, conf, now>>
        /\ \A j \in Keys : cache'[j] = IF j = k THEN e ELSE cache[j]
    BY <1>1 DEF StoreDecision, TypeOK
  <2>2. Explained(allowed[w], info[w], basis[w].from, basis[w].to)
        /\ Span(basis[w].from, basis[w].to)
    BY <1>1 DEF StoreDecision, WorkerInv, EvaluationInv
  <2>3. EntryInv(k, e)
    BY <1>0, <2>2 DEF EntryInv, Expiry
  <2> HIDE DEF k, e
  <2> SUFFICES ASSUME NEW j \in Keys, cache'[j] # NoEntry
               PROVE  EntryInv(j, cache[j])'
    BY DEF CacheInv
  <2>4. CASE j = k
    BY <2>1, <2>3, <2>4 DEF EntryInv, Span, Explained, Outcome, PolicyAt
  <2>5. CASE j # k
    <3>1. EntryInv(j, cache[j]) /\ cache'[j] = cache[j]
      BY <2>1, <2>5 DEF CacheInv
    <3> QED
      BY <2>1, <3>1 DEF EntryInv, Span, Explained, Outcome, PolicyAt
  <2> QED BY <2>4, <2>5
<1>2. CASE Update
  BY <1>2, UpdateStep
<1>3. CASE ~Update /\ ~(\E w \in Workers : StoreDecision(w))
  <2>1. CASE Tick
    <3>1. UNCHANGED <<cache, hist, conf>> /\ now' = now + 1
      BY <2>1 DEF Tick
    <3> QED BY <1>0, <3>1, CacheInvStable
  <2>2. CASE ~Tick
    <3>1. UNCHANGED <<cache, hist, conf, now>>
      BY <1>3, <2>2 DEF Next, Finish, OpaReturns, Begin, ReadParams, ReadTenant,
           RLock, CacheHit, CacheMiss, OpaAnswer, OpaFail, RequestLock, Return, vars
    <3> QED BY <1>0, <3>1, CacheInvStable
  <2> QED BY <2>1, <2>2
<1> QED BY <1>1, <1>2, <1>3

LEMMA InductiveStep == IInv /\ [Next]_vars => IInv'
<1> SUFFICES ASSUME IInv, [Next]_vars PROVE IInv'
  OBVIOUS
<1>1. (\A w \in Workers : WorkerInv(w))'
  <2>1. CASE \E w \in Workers : (\E i \in Infos : Begin(w, i)) \/ Finish(w) \/ Return(w)
    BY <2>1, WorkerStep
  <2>2. CASE Update
    BY <2>2, UpdateStep
  <2>3. CASE Tick \/ UNCHANGED vars
    <3>1. UNCHANGED <<hist, conf>> /\ \A w \in Workers : SameLocals(w)
      BY <2>3 DEF Tick, vars, workVars, SameLocals
    <3> QED BY <3>1, BystanderInv DEF IInv
  <2> QED BY <2>1, <2>2, <2>3 DEF Next
<1> QED BY <1>1, TypeStep, HistoryStep, CacheStep DEF IInv

LEMMA InductiveInit == Init => IInv
<1> SUFFICES ASSUME Init PROVE IInv
  OBVIOUS
<1> USE DEF Init, NewDataStore
<1>1. TypeOK
  BY NoInfoType, EvaluatorAssumption, StoreAssumption
  DEF TypeOK, StoreTypeOK, TenantMaps, Places, Inputs, Bases, NoInput, NoBasis
<1>2. HistoryInv
  BY DEF HistoryInv
<1>3. ASSUME NEW w \in Workers PROVE WorkerInv(w)
  BY DEF WorkerInv, EvaluationInv, DecidedInv, Evaluating, Span, NoBasis
<1>4. CacheInv
  BY DEF CacheInv
<1> QED BY <1>1, <1>2, <1>3, <1>4 DEF IInv

\* Evaluate keeps its state well typed whatever the goroutines, the admin and
\* the clock do (main.go, compositeEvaluator.Evaluate).
THEOREM TypeCorrect == Spec => []TypeOK
<1>1. Spec => []IInv
  BY InductiveInit, InductiveStep, PTL DEF Spec
<1> QED BY <1>1, PTL DEF IInv

\* Every decision Evaluate returns has a legitimate source: schema, fail-closed
\* flag, the policy on this query with rules in force during the evaluation, or
\* the policy on a query with the same cache key with rules in force during the
\* evaluation that cached it (main.go, compositeEvaluator.Evaluate).
THEOREM DecisionsAreJustified == Spec => []DecisionJustified
<1>1. Spec => []IInv
  BY InductiveInit, InductiveStep, PTL DEF Spec
<1>2. IInv => DecisionJustified
  BY DEF IInv, WorkerInv, DecidedInv, DecisionJustified
<1> QED BY <1>1, <1>2, PTL

\* No decision is served from the cache a TTL or more after it was stored
\* (main.go, the expiry test of the cache lookup and the store).
THEOREM CacheIsFresh == Spec => []StaleForLessThanTTL
<1>1. Spec => []IInv
  BY InductiveInit, InductiveStep, PTL DEF Spec
<1>2. IInv => StaleForLessThanTTL
  BY DEF IInv, WorkerInv, DecidedInv, StaleForLessThanTTL
<1> QED BY <1>1, <1>2, PTL

\* In audit-only mode no query is turned away on the policy's account, be it
\* asked or answered from the cache (main.go, the two audit-only branches of
\* compositeEvaluator.Evaluate).
THEOREM AuditModeObserves == Spec => []AuditOnlyObserves
<1>1. Spec => []IInv
  BY InductiveInit, InductiveStep, PTL DEF Spec
<1>2. IInv => AuditOnlyObserves
  <2> SUFFICES ASSUME IInv, NEW w \in Workers, pc[w] = "decided", conf.auditOnly,
                      ~allowed[w], info[w] \notin SchemaRejects
               PROVE  "error" \in rec[w] /\ conf.failClosed
    BY DEF AuditOnlyObserves
  <2>1. DecidedInv(w)
    BY DEF IInv, WorkerInv
  <2>2. \A i, from, to : ~Explained(allowed[w], i, from, to)
    BY DEF Explained, Outcome
  <2>3. "error" \in rec[w]
    BY <2>1, <2>2 DEF DecidedInv
  <2>4. allowed[w] = ~conf.failClosed
    BY <2>1, <2>3 DEF DecidedInv
  <2>5. conf.failClosed
    BY <2>4, Zenon
  <2> QED BY <2>3, <2>5
<1> QED BY <1>1, <1>2, PTL

-----------------------------------------------------------------------------
(***************************************************************************)
(* The refinement of PolicyGate: which step of the gate each step of an    *)
(* evaluation is.                                                          *)
(***************************************************************************)

\* The places of an open question, and only they, are "asked".
LEMMA PhaseValues ==
  /\ PhaseOf("idle") = "idle" /\ PhaseOf("decided") = "done"
  /\ PhaseOf("store") = "keeping" /\ PhaseOf("writing") = "keeping"
  /\ \A p \in {"params", "tenant", "lookup", "reading", "opa"} : PhaseOf(p) = "asked"
BY DEF PhaseOf

\* A goroutine that goes to another place changes its phase and no other's.
LEMMA GotoPhase ==
  ASSUME TypeOK, NEW w \in Workers, NEW p, Goto(w, p)
  PROVE  /\ Phases[w] = PhaseOf(pc[w])
         /\ Phases' = [Phases EXCEPT ![w] = PhaseOf(p)]
BY DEF Goto, TypeOK, Phases

\* When the question of w is answered, and when w has none open, no other changes.
LEMMA GotoClosed ==
  ASSUME TypeOK, NEW w \in Workers, NEW p, Goto(w, p), PhaseOf(p) # "asked",
         \A x \in Workers \ {w} : basis'[x] = basis[x]
  PROVE  AskedIn' = [AskedIn EXCEPT ![w] = 0]
<1>1. pc'[w] = p /\ \A x \in Workers \ {w} : pc'[x] = pc[x]
  BY DEF Goto, TypeOK
<1> QED BY <1>1 DEF AskedIn

LEMMA NotOpen ==
  ASSUME NEW w \in Workers, PhaseOf(pc[w]) # "asked"
  PROVE  [AskedIn EXCEPT ![w] = 0] = AskedIn
BY DEF AskedIn

\* A step within the evaluation that leaves the question open is not seen.
LEMMA StillOpen ==
  ASSUME TypeOK, NEW w \in Workers, NEW p, Goto(w, p), PhaseOf(p) = PhaseOf(pc[w]),
         basis' = basis
  PROVE  Phases' = Phases /\ AskedIn' = AskedIn
<1>1. \A x \in Workers : PhaseOf(pc'[x]) = PhaseOf(pc[x])
  BY DEF Goto, TypeOK
<1> QED BY <1>1 DEF Phases, AskedIn

LEMMA GateBegin ==
  ASSUME IInv, NEW w \in Workers, NEW i \in Infos, Begin(w, i)
  PROVE  Gate!Ask(w, i)
<1> USE DEF IInv
<1>1. /\ pc[w] = "idle" /\ UNCHANGED <<conf, now, cache, hist>>
      /\ info' = [info EXCEPT ![w] = i]
      /\ basis' = [basis EXCEPT ![w] = [info |-> i, from |-> Len(hist),
                                        to |-> Len(hist), age |-> 0]]
      /\ allowed' = [allowed EXCEPT ![w] = FALSE]
  BY DEF Begin, Version
<1>2. Remembered' = Remembered
  BY <1>1 DEF Remembered
<1>3. \A x \in Workers \ {w} : basis'[x] = basis[x]
  BY <1>1 DEF TypeOK
<1>4. CASE i \in SchemaRejects
  <2>1. Goto(w, "decided")
    BY <1>4 DEF Begin
  <2>2. AskedIn' = AskedIn
    BY <1>1, <1>3, <2>1, GotoClosed, NotOpen, PhaseValues
  <2>3. Phases[w] = "idle" /\ Phases' = [Phases EXCEPT ![w] = "done"]
    BY <1>1, <2>1, GotoPhase, PhaseValues
  <2> QED BY <1>1, <1>2, <1>4, <2>2, <2>3 DEF Gate!Ask
<1>5. CASE i \notin SchemaRejects
  <2>1. Goto(w, "params")
    BY <1>5 DEF Begin
  <2>2. AskedIn' = [AskedIn EXCEPT ![w] = Len(hist)]
    <3>1. /\ PhaseOf(pc'[w]) = "asked" /\ basis'[w].from = Len(hist)
          /\ \A x \in Workers \ {w} : pc'[x] = pc[x]
      BY <1>1, <2>1, PhaseValues DEF Goto, TypeOK
    <3> QED BY <1>3, <3>1 DEF AskedIn
  <2>3. Phases[w] = "idle" /\ Phases' = [Phases EXCEPT ![w] = "asked"]
    BY <1>1, <2>1, GotoPhase, PhaseValues
  <2> QED BY <1>1, <1>2, <1>5, <2>2, <2>3 DEF Gate!Ask
<1> QED BY <1>4, <1>5

\* An answer to the open question of w, whoever gives it.
LEMMA GateAnswer ==
  ASSUME IInv, NEW w \in Workers, PhaseOf(pc[w]) = "asked",
         NEW p \in {"store", "decided"}, Goto(w, p),
         NEW a, allowed' = [allowed EXCEPT ![w] = a],
         UNCHANGED <<conf, now, cache, hist, info>>,
         \A x \in Workers \ {w} : basis'[x] = basis[x]
  PROVE  Gate!Answer(w, a, PhaseOf(p))
<1> USE DEF IInv
<1>1. Remembered' = Remembered
  BY DEF Remembered
<1>2. PhaseOf(p) # "asked"
  BY PhaseValues
<1>3. AskedIn' = [AskedIn EXCEPT ![w] = 0]
  BY <1>2, GotoClosed
<1>4. Phases[w] = "asked" /\ Phases' = [Phases EXCEPT ![w] = PhaseOf(p)]
  BY GotoPhase
<1> QED BY <1>1, <1>3, <1>4 DEF Gate!Answer

\* The policy's answer: what BuildInput read has been in force since the question.
LEMMA GateByPolicy ==
  ASSUME IInv, NEW w \in Workers, OpaAnswer(w)
  PROVE  Gate!ByPolicy(w)
<1> USE DEF IInv
<1>1. PICK v \in basis[w].from..Len(hist), u \in basis[w].from..Len(hist) :
        /\ v <= u
        /\ input[w].params = CopyOf(hist[v].params)
        /\ input[w].cfg = TenantConfig(info[w], hist[u].tenants)
  BY DEF OpaAnswer, WorkerInv, EvaluationInv, InputRead
<1>2. /\ pc[w] = "opa" /\ UNCHANGED <<conf, now, cache, hist, info>>
      /\ allowed' = [allowed EXCEPT ![w] = Outcome(Ask(w))]
      /\ \A x \in Workers \ {w} : basis'[x] = basis[x]
  BY DEF OpaAnswer, TypeOK
<1>3. PICK p \in {"store", "decided"} : Goto(w, p)
  BY DEF OpaAnswer, AfterAnswer
<1>4. Outcome(Ask(w))
        = (Permits(info[w], hist[v].params, hist[u].tenants) \/ conf.auditOnly)
  BY <1>1 DEF Outcome, Ask, Permits
<1>5. PhaseOf(pc[w]) = "asked" /\ PhaseOf(p) \in {"keeping", "done"}
  BY <1>2, PhaseValues
<1>6. AskedIn[w] = basis[w].from
  BY <1>5 DEF AskedIn
<1>7. Gate!Answer(w, Outcome(Ask(w)), PhaseOf(p))
  BY <1>2, <1>3, <1>5, GateAnswer
<1> QED BY <1>1, <1>4, <1>5, <1>6, <1>7 DEF Gate!ByPolicy

LEMMA GateByFlag ==
  ASSUME IInv, NEW w \in Workers, OpaFail(w)
  PROVE  Gate!ByFlag(w)
<1>1. /\ pc[w] = "opa" /\ Goto(w, "decided") /\ basis' = basis
      /\ UNCHANGED <<conf, now, cache, hist, info>>
      /\ allowed' = [allowed EXCEPT ![w] = ~conf.failClosed]
  BY DEF OpaFail, AfterFailure
<1>2. Gate!Answer(w, ~conf.failClosed, PhaseOf("decided"))
  BY <1>1, GateAnswer, PhaseValues
<1> QED BY <1>2, PhaseValues DEF Gate!ByFlag

\* A hit: what the cache holds went through audit-only mode when it was stored.
LEMMA GateFromMemory ==
  ASSUME IInv, NEW w \in Workers, CacheHit(w)
  PROVE  Gate!FromMemory(w)
<1> USE DEF IInv
<1> DEFINE k == decisionCacheKey(info[w])
<1>1. k \in Keys /\ cache[k] # NoEntry /\ now < cache[k].expiry
  BY EvaluatorAssumption DEF CacheHit, Hit, Live, TypeOK, decisionCacheKey
<1>2. cache[k] \in Entries /\ Explained(cache[k].allowed, cache[k].info,
                                        cache[k].from, cache[k].to)
  BY <1>1 DEF CacheInv, EntryInv, TypeOK
<1>3. Outcome(cache[k].allowed) = cache[k].allowed
  BY <1>2 DEF Explained, Outcome
<1>4. /\ pc[w] = "reading" /\ Goto(w, "decided")
      /\ UNCHANGED <<conf, now, cache, hist, info>>
      /\ allowed' = [allowed EXCEPT ![w] = Outcome(cache[k].allowed)]
      /\ \A x \in Workers \ {w} : basis'[x] = basis[x]
  BY DEF CacheHit, TypeOK
<1> HIDE DEF k
<1>5. Remembered[k] = [allowed |-> cache[k].allowed, until |-> cache[k].expiry]
  BY <1>1 DEF Remembered
<1>6. Gate!Answer(w, cache[k].allowed, PhaseOf("decided"))
  BY <1>3, <1>4, GateAnswer, PhaseValues
<1> QED BY <1>1, <1>5, <1>6, PhaseValues DEF Gate!FromMemory, k

LEMMA GateKeep ==
  ASSUME IInv, NEW w \in Workers, StoreDecision(w)
  PROVE  Gate!Keep(w)
<1> USE DEF IInv
<1> DEFINE k == decisionCacheKey(info[w])
           e == [allowed |-> allowed[w], expiry |-> Expiry, info |-> info[w],
                 from |-> basis[w].from, to |-> basis[w].to, written |-> now]
<1>1. /\ pc[w] = "writing" /\ Goto(w, "decided")
      /\ UNCHANGED <<conf, now, hist, info, allowed, basis>>
      /\ cache' = [cache EXCEPT ![k] = e]
  BY DEF StoreDecision
<1>2. e \in Entries /\ Expiry = now + conf.ttl
  BY EvaluatorAssumption DEF TypeOK, Bases, Entries, Expiry
<1>3. e # NoEntry
  BY <1>2, EntryAssumption
<1>4. Remembered' = [Remembered EXCEPT ![k] = [allowed |-> allowed[w],
                                               until |-> now + conf.ttl]]
  <2>1. \A j \in Keys : cache'[j] = IF j = k THEN e ELSE cache[j]
    BY <1>1 DEF TypeOK
  <2>2. e.allowed = allowed[w] /\ e.expiry = now + conf.ttl
    BY <1>2
  <2> HIDE DEF k, e
  <2> QED BY <1>3, <2>1, <2>2 DEF Remembered
<1>5. Phases[w] = "keeping" /\ Phases' = [Phases EXCEPT ![w] = "done"]
  BY <1>1, GotoPhase, PhaseValues
<1>6. AskedIn' = AskedIn
  BY <1>1, GotoClosed, NotOpen, PhaseValues
<1> QED BY <1>1, <1>4, <1>5, <1>6 DEF Gate!Keep

LEMMA GateLeave ==
  ASSUME IInv, NEW w \in Workers, Return(w)
  PROVE  Gate!Leave(w)
<1> USE DEF IInv
<1>1. /\ pc[w] = "decided" /\ Goto(w, "idle") /\ UNCHANGED <<conf, now, cache, hist>>
      /\ info' = [info EXCEPT ![w] = NoInfo]
      /\ allowed' = [allowed EXCEPT ![w] = FALSE]
      /\ \A x \in Workers \ {w} : basis'[x] = basis[x]
  BY DEF Return, TypeOK
<1>2. Remembered' = Remembered
  BY <1>1 DEF Remembered
<1>3. Phases[w] = "done" /\ Phases' = [Phases EXCEPT ![w] = "idle"]
  BY <1>1, GotoPhase, PhaseValues
<1>4. AskedIn' = AskedIn
  BY <1>1, GotoClosed, NotOpen, PhaseValues
<1> QED BY <1>1, <1>2, <1>3, <1>4 DEF Gate!Leave

\* Reading the store, looking for an entry and waiting for the lock is not seen.
LEMMA GateUnseen ==
  ASSUME IInv, NEW w \in Workers,
         ReadParams(w) \/ ReadTenant(w) \/ RLock(w) \/ CacheMiss(w) \/ RequestLock(w)
  PROVE  UNCHANGED Gate!vars
<1> USE DEF IInv
<1>1. /\ UNCHANGED <<conf, now, cache, hist, info, allowed, basis>>
      /\ \E p \in Places : Goto(w, p) /\ PhaseOf(p) = PhaseOf(pc[w])
  BY PhaseValues DEF ReadParams, ReadTenant, RLock, CacheMiss, RequestLock, Places
<1>2. Phases' = Phases /\ AskedIn' = AskedIn
  BY <1>1, StillOpen
<1>3. Remembered' = Remembered
  BY <1>1 DEF Remembered
<1> QED BY <1>1, <1>2, <1>3 DEF Gate!vars, Gate!callerVars

LEMMA GateStep == IInv /\ [Next]_vars => [Gate!Next]_(Gate!vars)
<1> SUFFICES ASSUME IInv, [Next]_vars PROVE [Gate!Next]_(Gate!vars)
  OBVIOUS
<1>1. ASSUME NEW w \in Workers, (\E i \in Infos : Begin(w, i)) \/ Finish(w) \/ Return(w)
      PROVE  [Gate!Next]_(Gate!vars)
  <2>1. CASE \E i \in Infos : Begin(w, i)
    BY <2>1, GateBegin DEF Gate!Next
  <2>2. CASE OpaAnswer(w)
    BY <2>2, GateByPolicy DEF Gate!Next
  <2>3. CASE OpaFail(w)
    BY <2>3, GateByFlag DEF Gate!Next
  <2>4. CASE CacheHit(w)
    BY <2>4, GateFromMemory DEF Gate!Next
  <2>5. CASE StoreDecision(w)
    BY <2>5, GateKeep DEF Gate!Next
  <2>6. CASE Return(w)
    BY <2>6, GateLeave DEF Gate!Next
  <2>7. CASE ReadParams(w) \/ ReadTenant(w) \/ RLock(w) \/ CacheMiss(w) \/ RequestLock(w)
    BY <2>7, GateUnseen
  <2> QED
    BY <1>1, <2>1, <2>2, <2>3, <2>4, <2>5, <2>6, <2>7 DEF Finish, OpaReturns
<1>2. CASE Update
  <2>1. UNCHANGED <<conf, now, Remembered, Phases, info, AskedIn, allowed>>
    BY <1>2 DEF Update, workVars, Remembered, Phases, AskedIn
  <2>2. /\ hist' = Append(hist, [params |-> params', tenants |-> tenants'])
        /\ [params |-> params', tenants |-> tenants']
             \in [params : Params \cup {NilParams}, tenants : TenantMaps]
    <3>1. TypeOK'
      BY TypeStep
    <3> QED BY <1>2, <3>1 DEF Update, TypeOK, StoreTypeOK
  <2>3. Gate!ChangeRules
    BY <2>1, <2>2 DEF Gate!ChangeRules, Gate!callerVars
  <2> QED BY <2>3 DEF Gate!Next
<1>3. CASE Tick
  <2>1. UNCHANGED <<Remembered, Phases, AskedIn>>
    BY <1>3 DEF Tick, workVars, Remembered, Phases, AskedIn
  <2>2. Gate!Tick
    BY <1>3, <2>1 DEF Tick, workVars, Gate!Tick, Gate!callerVars
  <2> QED BY <2>2 DEF Gate!Next
<1>4. CASE UNCHANGED vars
  BY <1>4 DEF vars, workVars, Remembered, Phases, AskedIn, Gate!vars, Gate!callerVars
<1> QED BY <1>1, <1>2, <1>3, <1>4 DEF Next

LEMMA GateInit == Init => Gate!Init
<1> SUFFICES ASSUME Init PROVE Gate!Init
  OBVIOUS
<1>1. TypeOK
  BY InductiveInit DEF IInv
<1>2. [params |-> params, tenants |-> tenants]
        \in [params : Params \cup {NilParams}, tenants : TenantMaps]
  BY <1>1 DEF TypeOK, StoreTypeOK
<1>3. Remembered = [k \in Keys |-> [allowed |-> FALSE, until |-> 0]]
  BY DEF Init, Remembered
<1>4. /\ Phases = [w \in Workers |-> "idle"]
      /\ AskedIn = [w \in Workers |-> 0]
  BY PhaseValues DEF Init, Phases, AskedIn
<1> QED BY <1>2, <1>3, <1>4 DEF Init, Gate!Init

\* For all goroutines, queries, policies, digests and settings, the evaluation in
\* steps implements the gate that answers in one: with the policy on rules in force
\* since the question, with the flag, or with an answer of the policy under the same
\* key that is less than a TTL old (main.go, compositeEvaluator.Evaluate; input.go,
\* BuildInput).
THEOREM EvaluatorIsPolicyGate == Spec => ImplementsPolicyGate
<1>1. Spec => []IInv
  BY InductiveInit, InductiveStep, PTL DEF Spec
<1> QED
  BY <1>1, GateInit, GateStep, PTL DEF Spec, ImplementsPolicyGate, Gate!Spec

=============================================================================
