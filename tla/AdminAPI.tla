------------------------------ MODULE AdminAPI ------------------------------
(***************************************************************************)
(* The admin API of cmd/server/main.go (requireAdminAuth, adminMux): HTTP  *)
(* handlers that run concurrently, one goroutine per request, over the     *)
(* shared DataStore and the active-tenants gauge.  Every call of a store   *)
(* method is a step, as is the store into the gauge.                       *)
(*                                                                         *)
(* A request is a record                                                   *)
(*   route   "rules", "update", "tenants", "tenant", "stats" or "health"   *)
(*   method  "GET", "POST", "DELETE" or "OTHER" (PUT is like POST)         *)
(*   auth    its token: "none", "wrong" or "right"                         *)
(*   valid   its body is within the limit and decodes                      *)
(*   tenant  the tenant in the path of "tenant", NoTenant if empty         *)
(*   value   what the body decodes to                                      *)
(*                                                                         *)
(* clock, acked, began, touched, shared and alone are history.             *)
(***************************************************************************)
EXTENDS DataStore

CONSTANTS
  Handlers,   \* handler goroutines
  Requests,   \* the requests that may arrive
  TokenSet,   \* --admin-token is not empty
  Embedded,   \* the evaluator is an EmbeddedEvaluator
  NoTenant,   \* an empty tenant ID
  NoRequest,  \* the handler has no request
  MaxClock    \* no request arrives after this many arrivals and answers

ASSUME AdminAssumption ==
  /\ TokenSet \in BOOLEAN /\ Embedded \in BOOLEAN
  /\ IsFiniteSet(Tenants) /\ NoTenant \notin Tenants
  /\ MaxClock \in Nat

\* What a path and a body decode to.
ASSUME RequestAssumption ==
  \A r \in Requests :
    /\ r.route = "update" => r.value \in Params \cup {NilParams}
    /\ r.route = "tenant" => r.tenant \in Tenants \cup {NoTenant}
    /\ r.route = "tenant" /\ r.method = "POST" => r.value \in TenantCfgs \cup {NilCfg}

VARIABLES
  gauge,    \* metrics.ActiveTenants
  reloads,  \* metrics.ConfigReloads
  pc,       \* where each handler is
  req,      \* its request
  count,    \* the tenant count it has read
  status,   \* the status it answers with
  clock,    \* history: orders the arrivals and the answers
  began,    \* history: when the handler's request arrived
  acked,    \* history: the updates answered with success
  touched,  \* history: the handler has written to the store
  shared,   \* history: its tenant update ran beside another
  alone     \* history: the tenant update answered last ran by itself

ghostVars == <<clock, began, acked, touched, shared, alone>>
vars == <<storeVars, gauge, reloads, pc, req, count, status, ghostVars>>

Writes == {"setParams", "setAgain", "reload", "setTenant", "deleteTenant"}

TenantSteps == {"setTenant", "deleteTenant", "count", "gauge"}

\* Mutant: any token will do.
MutAuth(r) ==
  IF ~TokenSet \/ r.route = "health" \/ r.auth # "none" THEN 200 ELSE 401

\* requireAdminAuth: the status of a request that is turned away, or 200.
\* Without a token configured, and for /admin/health, nobody is.
Auth(r) ==
  IF ~TokenSet \/ r.route = "health" \/ r.auth = "right" THEN 200
  ELSE IF r.auth = "none" THEN 401 ELSE 403

\* The checks at the head of a handler, in order: its status, if it ends there.
Check(r) ==
  IF Auth(r) # 200 THEN Auth(r)
  ELSE IF r.route = "update" /\ r.method # "POST" THEN 405
  ELSE IF r.route = "update" /\ ~r.valid THEN 400
  ELSE IF r.route = "tenant" /\ r.tenant = NoTenant THEN 400
  ELSE IF r.route = "tenant" /\ r.method = "OTHER" THEN 405
  ELSE IF r.route = "tenant" /\ r.method = "POST" /\ ~r.valid THEN 400
  ELSE 200

\* The first step of a handler whose checks passed.
FirstStep(r) ==
  CASE r.route = "update" -> "setParams"
    [] r.route = "tenant" /\ r.method = "POST" -> "setTenant"
    [] r.route = "tenant" /\ r.method = "DELETE" -> "deleteTenant"
    [] OTHER -> "read"

Goto(h, step) == pc' = [pc EXCEPT ![h] = step]

Answer(h, code) ==
  /\ Goto(h, "answered")
  /\ status' = [status EXCEPT ![h] = code]

Receive(h, r) ==
  /\ pc[h] = "idle"
  /\ clock < MaxClock
  /\ req' = [req EXCEPT ![h] = r]
  /\ IF Check(r) # 200 THEN Answer(h, Check(r))
                       ELSE Goto(h, FirstStep(r)) /\ UNCHANGED status
  /\ clock' = clock + 1
  /\ began' = [began EXCEPT ![h] = clock + 1]
  /\ LET beside == {g \in Handlers : pc[g] \in TenantSteps}
         joins == Check(r) = 200 /\ FirstStep(r) \in TenantSteps
     IN shared' = [g \in Handlers |->
                     IF g = h THEN joins /\ beside # {}
                     ELSE shared[g] \/ (joins /\ g \in beside)]
  /\ UNCHANGED <<storeVars, gauge, reloads, count, acked, touched, alone>>

\* The handlers that only read: GetParams, ListTenants, GetTenant, CountTenants.
Read(h) ==
  /\ pc[h] = "read"
  /\ Answer(h, 200)
  /\ UNCHANGED <<storeVars, gauge, reloads, req, count, ghostVars>>

Touch(h) ==
  /\ touched' = [touched EXCEPT ![h] = TRUE]
  /\ UNCHANGED <<clock, began, acked, shared, alone>>

\* store.SetParams, after which the embedded evaluator is told as well ...
UpdateParams(h) ==
  /\ pc[h] = "setParams"
  /\ SetParams(req[h].value)
  /\ Goto(h, IF Embedded THEN "setAgain" ELSE "reload")
  /\ Touch(h)
  /\ UNCHANGED <<gauge, reloads, req, count, status>>

\* ... which sets the parameters of the same store a second time.
UpdateEvaluator(h) ==
  /\ pc[h] = "setAgain"
  /\ SetParams(req[h].value)
  /\ Goto(h, "reload")
  /\ Touch(h)
  /\ UNCHANGED <<gauge, reloads, req, count, status>>

CountReload(h) ==
  /\ pc[h] = "reload"
  /\ reloads' = reloads + 1
  /\ Answer(h, 200)
  /\ UNCHANGED <<storeVars, gauge, req, count, ghostVars>>

PutTenant(h) ==
  /\ pc[h] = "setTenant"
  /\ SetTenant(req[h].tenant, req[h].value)
  /\ Goto(h, "count")
  /\ Touch(h)
  /\ UNCHANGED <<gauge, reloads, req, count, status>>

RemoveTenant(h) ==
  /\ pc[h] = "deleteTenant"
  /\ DeleteTenant(req[h].tenant)
  /\ Goto(h, "count")
  /\ Touch(h)
  /\ UNCHANGED <<gauge, reloads, req, count, status>>

\* metrics.ActiveTenants.Set(float64(store.CountTenants())): the count is read
\* under the store's lock, the gauge is set after it.
ReadCount(h) ==
  /\ pc[h] = "count"
  /\ count' = [count EXCEPT ![h] = CountTenants]
  /\ Goto(h, "gauge")
  /\ UNCHANGED <<storeVars, gauge, reloads, req, status, ghostVars>>

\* Mutant: the gauge is counted up instead of being set.
MutGaugeValue(h) == gauge + 1

GaugeValue(h) == count[h]

SetGauge(h) ==
  /\ pc[h] = "gauge"
  /\ gauge' = GaugeValue(h)
  /\ Answer(h, 200)
  /\ alone' = ~shared[h]
  /\ UNCHANGED <<storeVars, reloads, req, count, clock, began, acked, touched, shared>>

\* What an update writes: which register, the one of the parameters belonging
\* to no tenant, and the value.
Register(r) == IF r.route = "update" THEN NoTenant ELSE r.tenant
Written(r) == IF r.method = "DELETE" THEN Absent ELSE r.value

\* The answer reaches the client.
Return(h) ==
  /\ pc[h] = "answered"
  /\ Goto(h, "idle")
  /\ clock' = clock + 1
  /\ acked' = IF touched[h]
              THEN acked \cup {[register |-> Register(req[h]),
                                value |-> Written(req[h]),
                                began |-> began[h], ended |-> clock + 1]}
              ELSE acked
  /\ req' = [req EXCEPT ![h] = NoRequest]
  /\ count' = [count EXCEPT ![h] = 0]
  /\ status' = [status EXCEPT ![h] = 0]
  /\ began' = [began EXCEPT ![h] = 0]
  /\ touched' = [touched EXCEPT ![h] = FALSE]
  /\ shared' = [shared EXCEPT ![h] = FALSE]
  /\ UNCHANGED <<storeVars, gauge, reloads, alone>>

Init ==
  /\ NewDataStore
  /\ gauge = 0
  /\ reloads = 0
  /\ pc = [h \in Handlers |-> "idle"]
  /\ req = [h \in Handlers |-> NoRequest]
  /\ count = [h \in Handlers |-> 0]
  /\ status = [h \in Handlers |-> 0]
  /\ clock = 0
  /\ began = [h \in Handlers |-> 0]
  /\ acked = {}
  /\ touched = [h \in Handlers |-> FALSE]
  /\ shared = [h \in Handlers |-> FALSE]
  /\ alone = TRUE

Next ==
  \E h \in Handlers :
    \/ \E r \in Requests : Receive(h, r)
    \/ Read(h)
    \/ UpdateParams(h) \/ UpdateEvaluator(h) \/ CountReload(h)
    \/ PutTenant(h) \/ RemoveTenant(h) \/ ReadCount(h) \/ SetGauge(h)
    \/ Return(h)

Spec == Init /\ [][Next]_vars

-----------------------------------------------------------------------------

TypeOK ==
  /\ StoreTypeOK
  /\ gauge \in 0..Cardinality(Tenants)
  /\ reloads \in Nat
  /\ pc \in [Handlers -> {"idle", "read", "answered"} \cup Writes \cup TenantSteps]
  /\ req \in [Handlers -> Requests \cup {NoRequest}]
  /\ count \in [Handlers -> 0..Cardinality(Tenants)]
  /\ status \in [Handlers -> {0, 200, 400, 401, 403, 405}]

Content(x) == IF x = NoTenant THEN params ELSE tenants[x]

Initially(x) == IF x = NoTenant THEN EmptyParams ELSE Absent

\* The acknowledged updates of x that no later one, begun after their
\* acknowledgement, has been acknowledged after.
Latest(x) ==
  LET done == {u \in acked : u.register = x}
  IN {u \in done : ~\E v \in done : v.began > u.ended}

InFlight(x) == {h \in Handlers : touched[h] /\ Register(req[h]) = x}

\* An acknowledged update is not lost: what the store holds for the parameters
\* or for a tenant was written by an update still in flight or by an
\* acknowledged one that nobody has replaced since.  The second SetParams of an
\* update, in particular, does not bring back parameters that an update begun
\* after its acknowledgement replaced (adminMux, update and tenants/).
NoUpdateIsLost ==
  \A x \in Tenants \cup {NoTenant} :
    \/ \E h \in InFlight(x) : Content(x) = Written(req[h])
    \/ \E u \in Latest(x) : Content(x) = u.value
    \/ Latest(x) = {} /\ Content(x) = Initially(x)

\* A request that is answered with an error has changed nothing, and one that
\* has changed something had the token, an updating method and a sound body
\* (requireAdminAuth, adminMux).
RejectedLeavesNoTrace ==
  \A h \in Handlers :
    /\ status[h] >= 400 => ~touched[h]
    /\ touched[h] =>
         /\ TokenSet => req[h].auth = "right"
         /\ req[h].method \in {"POST", "DELETE"}
         /\ req[h].method = "POST" => req[h].valid

Quiet == \A h \in Handlers : pc[h] \notin TenantSteps

\* A tenant update that runs by itself leaves the gauge right, whatever
\* overlapping updates did to it before (adminMux, tenants/).
LoneUpdateRepairsGauge == (Quiet /\ alone) => gauge = CountTenants

=============================================================================
