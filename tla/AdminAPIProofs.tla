--------------------------- MODULE AdminAPIProofs ---------------------------
(***************************************************************************)
(* The admin API's invariants for every set of handlers, requests and      *)
(* tenants: its type invariant, that a rejected request leaves no trace,   *)
(* that an acknowledged update is not lost, and that a tenant update which *)
(* runs by itself leaves the gauge right.                                  *)
(***************************************************************************)
EXTENDS AdminAPI, FiniteSetTheorems, TLAPS

Registers == Tenants \cup {NoTenant}

GhostTypeOK ==
  /\ clock \in Nat
  /\ began \in [Handlers -> Nat]
  /\ touched \in [Handlers -> BOOLEAN]
  /\ shared \in [Handlers -> BOOLEAN]
  /\ alone \in BOOLEAN

Accepted(r) == Check(r) = 200 /\ FirstStep(r) # "read"

\* Where a handler is tells what its request is and whether it has written.
HandlerInv(h) ==
  /\ pc[h] # "idle" => req[h] \in Requests /\ began[h] <= clock
  /\ pc[h] \in {"setParams", "setAgain", "reload"} => FirstStep(req[h]) = "setParams"
  /\ pc[h] = "setTenant" => FirstStep(req[h]) = "setTenant"
  /\ pc[h] = "deleteTenant" => FirstStep(req[h]) = "deleteTenant"
  /\ pc[h] \in {"count", "gauge"} => FirstStep(req[h]) \in {"setTenant", "deleteTenant"}
  /\ pc[h] \in Writes \cup TenantSteps => Check(req[h]) = 200
  /\ touched[h] =>
       /\ pc[h] \in {"setAgain", "reload", "count", "gauge", "answered"}
       /\ Accepted(req[h])
       /\ status[h] \in {0, 200}
  /\ status[h] # 0 => pc[h] = "answered"

HandlersInv == \A h \in Handlers : HandlerInv(h)

IInv == TypeOK /\ GhostTypeOK /\ HandlersInv

\* What the checks at the head of a handler have established when it writes.
LEMMA AcceptedRequest ==
  ASSUME NEW r \in Requests, Accepted(r)
  PROVE  /\ TokenSet => r.auth = "right"
         /\ FirstStep(r) = "setParams" =>
              /\ r.method = "POST" /\ r.valid
              /\ Register(r) = NoTenant /\ Written(r) = r.value
              /\ r.value \in Params \cup {NilParams}
         /\ FirstStep(r) = "setTenant" =>
              /\ r.method = "POST" /\ r.valid /\ r.tenant \in Tenants
              /\ Register(r) = r.tenant /\ Written(r) = r.value
              /\ r.value \in TenantCfgs \cup {NilCfg}
         /\ FirstStep(r) = "deleteTenant" =>
              /\ r.method = "DELETE" /\ r.tenant \in Tenants
              /\ Register(r) = r.tenant /\ Written(r) = Absent
         /\ FirstStep(r) \in {"setParams", "setTenant", "deleteTenant"}
<1>1. Check(r) = 200
  BY DEF Accepted
<1>2. FirstStep(r) = "setParams" \/ FirstStep(r) = "setTenant" \/ FirstStep(r) = "deleteTenant"
  BY DEF Accepted, FirstStep
<1>3. /\ FirstStep(r) = "setParams" => r.route = "update"
      /\ FirstStep(r) = "setTenant" => r.route = "tenant" /\ r.method = "POST"
      /\ FirstStep(r) = "deleteTenant" => r.route = "tenant" /\ r.method = "DELETE"
  BY DEF FirstStep
<1>4. Auth(r) = 200
  BY <1>1 DEF Check
<1>5. TokenSet => r.auth = "right"
  BY <1>2, <1>3, <1>4 DEF Auth
<1>6. r.route = "update" => r.method = "POST" /\ r.valid
  BY <1>1, <1>4 DEF Check
<1>7. r.route = "tenant" => r.tenant # NoTenant /\ (r.method = "POST" => r.valid)
  BY <1>1, <1>4 DEF Check
<1> QED
  BY <1>2, <1>3, <1>5, <1>6, <1>7, RequestAssumption DEF Register, Written

LEMMA CheckType ==
  ASSUME NEW r
  PROVE  Check(r) \in {200, 400, 401, 403, 405}
BY DEF Check, Auth

LEMMA FirstStepType ==
  ASSUME NEW r
  PROVE  FirstStep(r) \in {"setParams", "setTenant", "deleteTenant", "read"}
BY DEF FirstStep

\* There are never more tenants in the store than there are.
LEMMA CountType == CountTenants \in 0..Cardinality(Tenants)
<1>1. ListTenants \subseteq Tenants /\ IsFiniteSet(Tenants)
  BY AdminAssumption DEF ListTenants
<1>2. IsFiniteSet(ListTenants) /\ Cardinality(ListTenants) <= Cardinality(Tenants)
  BY <1>1, FS_Subset
<1>3. Cardinality(ListTenants) \in Nat /\ Cardinality(Tenants) \in Nat
  BY <1>1, <1>2, FS_CardinalityType
<1> QED BY <1>2, <1>3 DEF CountTenants

\* A handler that takes no step keeps what is known of it.
LEMMA Bystander ==
  ASSUME NEW g \in Handlers, HandlerInv(g), GhostTypeOK, clock' \in Nat, clock <= clock',
         pc'[g] = pc[g], req'[g] = req[g], status'[g] = status[g],
         began'[g] = began[g], touched'[g] = touched[g]
  PROVE  HandlerInv(g)'
BY DEF HandlerInv, GhostTypeOK, Accepted

LEMMA StoreStep ==
  ASSUME IInv, NEW h \in Handlers,
         UpdateParams(h) \/ UpdateEvaluator(h) \/ PutTenant(h) \/ RemoveTenant(h)
  PROVE  StoreTypeOK'
<1> USE DEF IInv
<1>1. HandlerInv(h)
  BY DEF HandlersInv
<1>2. CASE UpdateParams(h) \/ UpdateEvaluator(h)
  <2>1. pc[h] \in {"setParams", "setAgain"} /\ params' = req[h].value /\ tenants' = tenants
    BY <1>2 DEF UpdateParams, UpdateEvaluator, SetParams
  <2>2. req[h] \in Requests /\ Accepted(req[h]) /\ FirstStep(req[h]) = "setParams"
    BY <1>1, <2>1 DEF HandlerInv, Writes, Accepted
  <2>3. req[h].value \in Params \cup {NilParams}
    BY <2>2, AcceptedRequest
  <2> QED BY <2>1, <2>3 DEF StoreTypeOK, TypeOK, TenantMaps
<1>3. CASE PutTenant(h)
  <2>1. /\ pc[h] = "setTenant" /\ params' = params
        /\ tenants' = [tenants EXCEPT ![req[h].tenant] = req[h].value]
    BY <1>3 DEF PutTenant, SetTenant
  <2>2. req[h] \in Requests /\ Accepted(req[h]) /\ FirstStep(req[h]) = "setTenant"
    BY <1>1, <2>1 DEF HandlerInv, Writes, Accepted
  <2>3. req[h].value \in TenantCfgs \cup {NilCfg}
    BY <2>2, AcceptedRequest
  <2> QED BY <2>1, <2>3 DEF StoreTypeOK, TypeOK, TenantMaps
<1>4. CASE RemoveTenant(h)
  <2>1. params' = params /\ tenants' = [tenants EXCEPT ![req[h].tenant] = Absent]
    BY <1>4 DEF RemoveTenant, DeleteTenant
  <2> QED BY <2>1 DEF StoreTypeOK, TypeOK, TenantMaps
<1> QED BY <1>2, <1>3, <1>4

LEMMA AdminStep == IInv /\ [Next]_vars => IInv'
<1> SUFFICES ASSUME IInv, [Next]_vars PROVE IInv'
  OBVIOUS
<1> USE DEF IInv
<1>0. ASSUME NEW h \in Handlers PROVE HandlerInv(h)
  BY DEF HandlersInv
<1>1. ASSUME NEW h \in Handlers, NEW r \in Requests, Receive(h, r) PROVE IInv'
  <2> USE CheckType, FirstStepType
  <2> DEFINE step == IF Check(r) # 200 THEN "answered" ELSE FirstStep(r)
             code == IF Check(r) # 200 THEN Check(r) ELSE status[h]
  <2>1. /\ pc' = [pc EXCEPT ![h] = step]
        /\ status' = [status EXCEPT ![h] = code]
        /\ req' = [req EXCEPT ![h] = r]
        /\ clock' = clock + 1 /\ began' = [began EXCEPT ![h] = clock + 1]
        /\ pc[h] = "idle"
        /\ UNCHANGED <<storeVars, gauge, reloads, count, acked, touched, alone>>
    BY <1>1 DEF Receive, Answer, Goto, TypeOK
  <2>2. shared' \in [Handlers -> BOOLEAN]
    BY <1>1 DEF Receive, GhostTypeOK
  <2>3. ~touched[h] /\ status[h] = 0
    BY <1>0, <2>1 DEF HandlerInv, GhostTypeOK
  <2>4. TypeOK'
    BY <2>1, <2>3 DEF TypeOK, storeVars, StoreTypeOK, Writes, TenantSteps
  <2>5. GhostTypeOK'
    <3>1. clock' \in Nat /\ began' \in [Handlers -> Nat]
      BY <2>1 DEF GhostTypeOK
    <3>2. touched' \in [Handlers -> BOOLEAN] /\ alone' \in BOOLEAN
      BY <2>1 DEF GhostTypeOK
    <3> QED BY <2>2, <3>1, <3>2 DEF GhostTypeOK
  <2>6. HandlerInv(h)'
    <3>1. /\ pc'[h] = step /\ status'[h] = code /\ req'[h] = r
          /\ clock' = clock + 1 /\ began'[h] = clock + 1 /\ touched'[h] = FALSE
      BY <2>1, <2>3 DEF TypeOK, GhostTypeOK
    <3>2. CASE Check(r) # 200
      BY <3>1, <3>2, <2>3 DEF HandlerInv, GhostTypeOK, Writes, TenantSteps
    <3>3. CASE Check(r) = 200
      BY <3>1, <3>3, <2>3 DEF HandlerInv, GhostTypeOK, Writes, TenantSteps
    <3> QED BY <3>2, <3>3
  <2>7. ASSUME NEW g \in Handlers, g # h PROVE HandlerInv(g)'
    BY <1>0, <2>1, <2>7, Bystander DEF TypeOK, GhostTypeOK
  <2> QED BY <2>4, <2>5, <2>6, <2>7 DEF HandlersInv
<1>2. ASSUME NEW h \in Handlers, Read(h) PROVE IInv'
  <2>1. /\ pc' = [pc EXCEPT ![h] = "answered"]
        /\ status' = [status EXCEPT ![h] = 200]
        /\ pc[h] = "read"
        /\ UNCHANGED <<storeVars, gauge, reloads, req, count, ghostVars>>
    BY <1>2 DEF Read, Answer, Goto
  <2>4. TypeOK'
    BY <2>1 DEF TypeOK, storeVars, StoreTypeOK
  <2>5. GhostTypeOK'
    BY <2>1 DEF GhostTypeOK, ghostVars
  <2>6. HandlerInv(h)'
    BY <1>0, <2>1 DEF HandlerInv, GhostTypeOK, TypeOK, ghostVars, Writes, TenantSteps
  <2>7. ASSUME NEW g \in Handlers, g # h PROVE HandlerInv(g)'
    BY <1>0, <2>1, <2>7, Bystander DEF TypeOK, GhostTypeOK, ghostVars
  <2> QED BY <2>4, <2>5, <2>6, <2>7 DEF HandlersInv
<1>3. ASSUME NEW h \in Handlers,
             UpdateParams(h) \/ UpdateEvaluator(h) \/ PutTenant(h) \/ RemoveTenant(h)
      PROVE  IInv'
  <2>1. PICK step \in {"setAgain", "reload", "count"} :
          /\ pc' = [pc EXCEPT ![h] = step]
          /\ touched' = [touched EXCEPT ![h] = TRUE]
          /\ pc[h] \in {"setParams", "setAgain", "setTenant", "deleteTenant"}
          /\ step = "count" <=> pc[h] \in {"setTenant", "deleteTenant"}
          /\ UNCHANGED <<clock, began, acked, shared, alone>>
          /\ UNCHANGED <<gauge, reloads, req, count, status>>
    BY <1>3 DEF UpdateParams, UpdateEvaluator, PutTenant, RemoveTenant, Goto, Touch
  <2>4. TypeOK'
    BY <1>3, <2>1, StoreStep DEF TypeOK, Writes, TenantSteps
  <2>5. GhostTypeOK'
    BY <2>1 DEF GhostTypeOK
  <2>6. HandlerInv(h)'
    <3>1. pc'[h] = step /\ touched'[h] = TRUE
      BY <2>1 DEF TypeOK, GhostTypeOK
    <3>2. /\ req[h] \in Requests /\ began[h] <= clock /\ Accepted(req[h])
          /\ step # "count" => FirstStep(req[h]) = "setParams"
          /\ step = "count" => FirstStep(req[h]) \in {"setTenant", "deleteTenant"}
          /\ status[h] = 0
      BY <1>0, <2>1 DEF HandlerInv, Accepted, Writes, TenantSteps
    <3> QED BY <2>1, <3>1, <3>2 DEF HandlerInv, Accepted
  <2>7. ASSUME NEW g \in Handlers, g # h PROVE HandlerInv(g)'
    <3>1. /\ pc'[g] = pc[g] /\ req'[g] = req[g] /\ status'[g] = status[g]
          /\ began'[g] = began[g] /\ touched'[g] = touched[g]
      BY <2>1, <2>7 DEF TypeOK, GhostTypeOK
    <3>2. clock' \in Nat /\ clock <= clock'
      BY <2>1 DEF GhostTypeOK
    <3> QED BY <1>0, <3>1, <3>2, Bystander
  <2> QED BY <2>4, <2>5, <2>6, <2>7 DEF HandlersInv
<1>4. ASSUME NEW h \in Handlers, ReadCount(h) PROVE IInv'
  <2>1. /\ pc[h] = "count" /\ pc' = [pc EXCEPT ![h] = "gauge"]
        /\ count' = [count EXCEPT ![h] = CountTenants]
        /\ UNCHANGED <<storeVars, gauge, reloads, req, status, ghostVars>>
    BY <1>4 DEF ReadCount, Goto
  <2>4. TypeOK'
    BY <2>1, CountType DEF TypeOK, storeVars, StoreTypeOK, TenantSteps
  <2>5. GhostTypeOK'
    BY <2>1 DEF GhostTypeOK, ghostVars
  <2>6. HandlerInv(h)'
    BY <1>0, <2>1 DEF HandlerInv, GhostTypeOK, TypeOK, ghostVars, Writes, TenantSteps, Accepted
  <2>7. ASSUME NEW g \in Handlers, g # h PROVE HandlerInv(g)'
    BY <1>0, <2>1, <2>7, Bystander DEF TypeOK, GhostTypeOK, ghostVars
  <2> QED BY <2>4, <2>5, <2>6, <2>7 DEF HandlersInv
<1>5. ASSUME NEW h \in Handlers, CountReload(h) \/ SetGauge(h) PROVE IInv'
  <2>1. /\ pc[h] \in {"reload", "gauge"} /\ pc' = [pc EXCEPT ![h] = "answered"]
        /\ status' = [status EXCEPT ![h] = 200]
        /\ UNCHANGED <<storeVars, req, count, clock, began, acked, touched, shared>>
    BY <1>5 DEF CountReload, SetGauge, Answer, Goto, ghostVars
  <2>2. gauge' \in 0..Cardinality(Tenants) /\ reloads' \in Nat
    BY <1>5 DEF CountReload, SetGauge, GaugeValue, TypeOK
  <2>3. alone' \in BOOLEAN
    BY <1>5 DEF CountReload, SetGauge, ghostVars, GhostTypeOK
  <2>4. TypeOK'
    BY <2>1, <2>2 DEF TypeOK, storeVars, StoreTypeOK
  <2>5. GhostTypeOK'
    BY <2>1, <2>3 DEF GhostTypeOK
  <2>6. HandlerInv(h)'
    BY <1>0, <2>1 DEF HandlerInv, GhostTypeOK, TypeOK, Writes, TenantSteps, Accepted
  <2>7. ASSUME NEW g \in Handlers, g # h PROVE HandlerInv(g)'
    BY <1>0, <2>1, <2>7, Bystander DEF TypeOK, GhostTypeOK
  <2> QED BY <2>4, <2>5, <2>6, <2>7 DEF HandlersInv
<1>6. ASSUME NEW h \in Handlers, Return(h) PROVE IInv'
  <2>1. /\ pc' = [pc EXCEPT ![h] = "idle"] /\ status' = [status EXCEPT ![h] = 0]
        /\ req' = [req EXCEPT ![h] = NoRequest] /\ count' = [count EXCEPT ![h] = 0]
        /\ began' = [began EXCEPT ![h] = 0] /\ clock' = clock + 1
        /\ touched' = [touched EXCEPT ![h] = FALSE]
        /\ shared' = [shared EXCEPT ![h] = FALSE]
        /\ UNCHANGED <<storeVars, gauge, reloads, alone>>
    BY <1>6 DEF Return, Goto
  <2>2. Cardinality(Tenants) \in Nat
    BY AdminAssumption, FS_CardinalityType
  <2>4. TypeOK'
    BY <2>1, <2>2 DEF TypeOK, storeVars, StoreTypeOK
  <2>5. GhostTypeOK'
    BY <2>1 DEF GhostTypeOK
  <2>6. HandlerInv(h)'
    BY <2>1 DEF HandlerInv, GhostTypeOK, TypeOK, Writes, TenantSteps
  <2>7. ASSUME NEW g \in Handlers, g # h PROVE HandlerInv(g)'
    <3>1. /\ pc'[g] = pc[g] /\ req'[g] = req[g] /\ status'[g] = status[g]
          /\ began'[g] = began[g] /\ touched'[g] = touched[g]
      BY <2>1, <2>7 DEF TypeOK, GhostTypeOK
    <3>2. clock' \in Nat /\ clock <= clock'
      BY <2>1 DEF GhostTypeOK
    <3> QED BY <1>0, <3>1, <3>2, Bystander
  <2> QED BY <2>4, <2>5, <2>6, <2>7 DEF HandlersInv
<1>7. CASE UNCHANGED vars
  <2>1. UNCHANGED <<gauge, reloads, pc, req, count, status, clock, began, touched, shared,
                    alone, params, tenants>>
    BY <1>7 DEF vars, ghostVars, storeVars
  <2> QED BY <2>1 DEF TypeOK, StoreTypeOK, TenantMaps, GhostTypeOK, HandlersInv, HandlerInv, Accepted
<1> QED BY <1>1, <1>2, <1>3, <1>4, <1>5, <1>6, <1>7 DEF Next

LEMMA AdminInit == Init => IInv
<1> SUFFICES ASSUME Init PROVE IInv
  OBVIOUS
<1>1. Cardinality(Tenants) \in Nat
  BY AdminAssumption, FS_CardinalityType
<1>2. StoreTypeOK
  BY StoreAssumption DEF Init, NewDataStore, StoreTypeOK, TenantMaps
<1>3. TypeOK
  BY <1>1, <1>2 DEF Init, TypeOK
<1>4. GhostTypeOK
  BY DEF Init, GhostTypeOK
<1>5. HandlersInv
  BY DEF Init, HandlersInv, HandlerInv, Writes, TenantSteps
<1> QED BY <1>3, <1>4, <1>5 DEF IInv

LEMMA AdminInvariant == Spec => []IInv
BY AdminInit, AdminStep, PTL DEF Spec

\* The store holds what a body can decode to, and the gauge never shows more
\* tenants than there are (cmd/server/main.go, adminMux; store.go).
THEOREM AdminTypeCorrect == Spec => []TypeOK
<1>1. IInv => TypeOK
  BY DEF IInv
<1> QED BY AdminInvariant, <1>1, PTL

\* Whatever requests arrive and however their handlers interleave, a request
\* answered with an error has written nothing, and one that has written had the
\* token, an updating method and a sound body (requireAdminAuth, adminMux).
THEOREM RejectionsLeaveNoTrace == Spec => []RejectedLeavesNoTrace
<1>1. IInv => RejectedLeavesNoTrace
  <2> SUFFICES ASSUME IInv, NEW h \in Handlers
               PROVE  /\ status[h] >= 400 => ~touched[h]
                      /\ touched[h] =>
                           /\ TokenSet => req[h].auth = "right"
                           /\ req[h].method \in {"POST", "DELETE"}
                           /\ req[h].method = "POST" => req[h].valid
    BY DEF RejectedLeavesNoTrace
  <2>1. HandlerInv(h)
    BY DEF IInv, HandlersInv
  <2>2. status[h] >= 400 => ~touched[h]
    BY <2>1 DEF HandlerInv
  <2>3. ASSUME touched[h]
        PROVE  /\ TokenSet => req[h].auth = "right"
               /\ req[h].method \in {"POST", "DELETE"}
               /\ req[h].method = "POST" => req[h].valid
    <3>1. req[h] \in Requests /\ Accepted(req[h])
      BY <2>1, <2>3 DEF HandlerInv
    <3> QED BY <3>1, AcceptedRequest
  <2> QED BY <2>2, <2>3
<1> QED BY AdminInvariant, <1>1, PTL

-----------------------------------------------------------------------------

\* Tenant updates that overlap know of it, and one that runs by itself has
\* counted what the store still holds.
OverlapInv ==
  \A g, h \in Handlers :
    g # h /\ pc[g] \in TenantSteps /\ pc[h] \in TenantSteps => shared[h]

CountInv ==
  \A h \in Handlers : pc[h] = "gauge" /\ ~shared[h] => count[h] = CountTenants

GaugeInv == IInv /\ OverlapInv /\ CountInv /\ LoneUpdateRepairsGauge

LEMMA OverlapKept ==
  ASSUME OverlapInv,
         \A g \in Handlers : pc'[g] \in TenantSteps =>
           pc[g] \in TenantSteps /\ shared'[g] = shared[g]
  PROVE  OverlapInv'
BY DEF OverlapInv

LEMMA OverlapStep == GaugeInv /\ [Next]_vars => OverlapInv'
<1> SUFFICES ASSUME GaugeInv, [Next]_vars PROVE OverlapInv'
  OBVIOUS
<1> USE DEF GaugeInv, IInv
<1>1. ASSUME NEW h \in Handlers, NEW r \in Requests, Receive(h, r) PROVE OverlapInv'
  <2> DEFINE beside == {g \in Handlers : pc[g] \in TenantSteps}
             joins == Check(r) = 200 /\ FirstStep(r) \in TenantSteps
  <2>1. shared' = [g \in Handlers |-> IF g = h THEN joins /\ beside # {}
                                      ELSE shared[g] \/ (joins /\ g \in beside)]
    BY <1>1 DEF Receive
  <2>2. /\ pc[h] = "idle"
        /\ pc'[h] = IF Check(r) # 200 THEN "answered" ELSE FirstStep(r)
        /\ \A g \in Handlers \ {h} : pc'[g] = pc[g]
    BY <1>1 DEF Receive, Answer, Goto, TypeOK
  <2>3. pc'[h] \in TenantSteps => joins
    BY <2>2 DEF TenantSteps
  <2> HIDE DEF joins
  <2> SUFFICES ASSUME NEW g \in Handlers, NEW k \in Handlers, g # k,
                      pc'[g] \in TenantSteps, pc'[k] \in TenantSteps
               PROVE  shared'[k]
    BY DEF OverlapInv
  <2>4. CASE k = h
    <3>1. joins /\ g \in beside
      BY <2>2, <2>3, <2>4
    <3> QED BY <2>1, <2>4, <3>1
  <2>5. CASE g = h
    <3>1. joins /\ k \in beside /\ k # h
      BY <2>2, <2>3, <2>5
    <3> QED BY <2>1, <3>1
  <2>6. CASE k # h /\ g # h
    <3>1. shared[k]
      BY <2>2, <2>6 DEF OverlapInv
    <3> QED BY <2>1, <2>6, <3>1
  <2> QED BY <2>4, <2>5, <2>6
<1>2. ASSUME NEW h \in Handlers,
             \/ Read(h) \/ CountReload(h) \/ SetGauge(h)
             \/ UpdateParams(h) \/ UpdateEvaluator(h)
             \/ PutTenant(h) \/ RemoveTenant(h) \/ ReadCount(h)
      PROVE  OverlapInv'
  <2>1. shared' = shared /\ (pc'[h] \in TenantSteps => pc[h] \in TenantSteps)
    BY <1>2 DEF Read, CountReload, SetGauge, UpdateParams, UpdateEvaluator, PutTenant,
       RemoveTenant, ReadCount, Touch, ghostVars, Answer, Goto, TenantSteps, TypeOK
  <2>2. \A g \in Handlers \ {h} : pc'[g] = pc[g]
    BY <1>2 DEF Read, CountReload, SetGauge, UpdateParams, UpdateEvaluator, PutTenant,
       RemoveTenant, ReadCount, Answer, Goto, TypeOK
  <2> QED BY <2>1, <2>2, OverlapKept
<1>3. ASSUME NEW h \in Handlers, Return(h) PROVE OverlapInv'
  <2>1. pc'[h] \notin TenantSteps
    BY <1>3 DEF Return, Goto, TenantSteps, TypeOK
  <2>2. \A g \in Handlers \ {h} : pc'[g] = pc[g] /\ shared'[g] = shared[g]
    BY <1>3 DEF Return, Goto, TypeOK, GhostTypeOK
  <2> QED BY <2>1, <2>2, OverlapKept
<1>4. CASE UNCHANGED vars
  BY <1>4, OverlapKept DEF vars, ghostVars
<1> QED BY <1>1, <1>2, <1>3, <1>4 DEF Next

LEMMA SameTenants == ASSUME tenants' = tenants PROVE CountTenants' = CountTenants
BY DEF CountTenants, ListTenants

LEMMA CountStep == GaugeInv /\ [Next]_vars => CountInv'
<1> SUFFICES ASSUME GaugeInv, [Next]_vars,
                    NEW k \in Handlers, pc'[k] = "gauge", ~shared'[k]
             PROVE  count'[k] = CountTenants'
  BY DEF CountInv
<1> USE DEF GaugeInv, IInv
<1>1. ASSUME tenants' = tenants, pc[k] = "gauge", ~shared[k], count'[k] = count[k]
      PROVE  count'[k] = CountTenants'
  BY <1>1, SameTenants DEF CountInv
<1>2. ASSUME NEW h \in Handlers, NEW r \in Requests, Receive(h, r)
      PROVE  count'[k] = CountTenants'
  <2>1. h # k
    <3>1. pc'[h] = "answered" \/ pc'[h] = FirstStep(r)
      BY <1>2 DEF Receive, Answer, Goto, TypeOK
    <3> QED BY <3>1, FirstStepType
  <2>2. pc[k] = "gauge" /\ tenants' = tenants /\ count' = count
    BY <1>2, <2>1 DEF Receive, Answer, Goto, TypeOK, storeVars
  <2>3. ~shared[k]
    BY <1>2, <2>1 DEF Receive
  <2> QED BY <1>1, <2>2, <2>3
<1>3. ASSUME NEW h \in Handlers,
             Read(h) \/ CountReload(h) \/ SetGauge(h) \/ UpdateParams(h) \/ UpdateEvaluator(h)
      PROVE  count'[k] = CountTenants'
  <2>1. pc'[h] # "gauge" /\ pc' = [pc EXCEPT ![h] = pc'[h]]
    BY <1>3 DEF Read, CountReload, SetGauge, UpdateParams, UpdateEvaluator, Answer, Goto, TypeOK
  <2>2. tenants' = tenants /\ count' = count /\ shared' = shared
    BY <1>3 DEF Read, CountReload, SetGauge, UpdateParams, UpdateEvaluator, SetParams, Touch,
       storeVars, ghostVars
  <2>3. pc[k] = "gauge"
    BY <2>1 DEF TypeOK
  <2> QED BY <1>1, <2>2, <2>3
<1>4. ASSUME NEW h \in Handlers, PutTenant(h) \/ RemoveTenant(h)
      PROVE  count'[k] = CountTenants'
  <2>1. pc[h] \in TenantSteps /\ pc' = [pc EXCEPT ![h] = "count"] /\ shared' = shared
    BY <1>4 DEF PutTenant, RemoveTenant, Goto, Touch, TenantSteps
  <2>2. k # h /\ pc[k] \in TenantSteps
    BY <2>1 DEF TypeOK, TenantSteps
  <2>3. shared[k]
    BY <2>1, <2>2 DEF OverlapInv
  <2> QED BY <2>1, <2>3
<1>5. ASSUME NEW h \in Handlers, ReadCount(h) PROVE count'[k] = CountTenants'
  <2>1. /\ tenants' = tenants /\ shared' = shared /\ pc' = [pc EXCEPT ![h] = "gauge"]
        /\ count' = [count EXCEPT ![h] = CountTenants]
    BY <1>5 DEF ReadCount, Goto, storeVars, ghostVars
  <2>2. CASE k = h
    BY <2>1, <2>2, SameTenants DEF TypeOK
  <2>3. CASE k # h
    BY <1>1, <2>1, <2>3 DEF TypeOK
  <2> QED BY <2>2, <2>3
<1>6. ASSUME NEW h \in Handlers, Return(h) PROVE count'[k] = CountTenants'
  <2>1. h # k
    BY <1>6 DEF Return, Goto, TypeOK
  <2>2. pc[k] = "gauge" /\ tenants' = tenants /\ count'[k] = count[k] /\ shared'[k] = shared[k]
    BY <1>6, <2>1, ZenonT(30) DEF Return, Goto, TypeOK, GhostTypeOK, storeVars
  <2> QED BY <1>1, <2>2
<1>7. CASE UNCHANGED vars
  BY <1>1, <1>7 DEF vars, ghostVars, storeVars
<1> QED BY <1>2, <1>3, <1>4, <1>5, <1>6, <1>7 DEF Next

LEMMA LoneStep == GaugeInv /\ [Next]_vars => LoneUpdateRepairsGauge'
<1> SUFFICES ASSUME GaugeInv, [Next]_vars, Quiet', alone' PROVE gauge' = CountTenants'
  BY DEF LoneUpdateRepairsGauge
<1> USE DEF GaugeInv, IInv
<1>1. ASSUME UNCHANGED <<tenants, gauge, alone>>, Quiet PROVE gauge' = CountTenants'
  BY <1>1, SameTenants DEF LoneUpdateRepairsGauge
<1>2. ASSUME NEW h \in Handlers, NEW r \in Requests, Receive(h, r)
      PROVE  gauge' = CountTenants'
  <2>1. Quiet
    <3>1. pc[h] = "idle" /\ \A g \in Handlers \ {h} : pc'[g] = pc[g]
      BY <1>2 DEF Receive, Answer, Goto, TypeOK
    <3> QED BY <3>1 DEF Quiet, TenantSteps
  <2> QED BY <1>1, <1>2, <2>1 DEF Receive, storeVars
<1>3. ASSUME NEW h \in Handlers,
             Read(h) \/ CountReload(h) \/ UpdateParams(h) \/ UpdateEvaluator(h) \/ Return(h)
      PROVE  gauge' = CountTenants'
  <2>1. pc[h] \notin TenantSteps
    BY <1>3 DEF Read, CountReload, UpdateParams, UpdateEvaluator, Return, TenantSteps
  <2>2. Quiet
    <3>1. \A g \in Handlers \ {h} : pc'[g] = pc[g]
      <4>1. \E step : pc' = [pc EXCEPT ![h] = step]
        BY <1>3 DEF Read, CountReload, UpdateParams, UpdateEvaluator, Return, Answer, Goto
      <4> QED BY <4>1 DEF TypeOK
    <3> QED BY <2>1, <3>1 DEF Quiet
  <2>3. UNCHANGED <<tenants, gauge, alone>>
    BY <1>3 DEF Read, CountReload, UpdateParams, UpdateEvaluator, Return, SetParams, Touch,
       storeVars, ghostVars
  <2> QED BY <1>1, <2>2, <2>3
<1>4. ASSUME NEW h \in Handlers, PutTenant(h) \/ RemoveTenant(h) \/ ReadCount(h) PROVE FALSE
  <2>1. pc'[h] \in TenantSteps
    BY <1>4 DEF PutTenant, RemoveTenant, ReadCount, Goto, TypeOK, TenantSteps
  <2> QED BY <2>1 DEF Quiet
<1>5. ASSUME NEW h \in Handlers, SetGauge(h) PROVE gauge' = CountTenants'
  <2>1. pc[h] = "gauge" /\ ~shared[h] /\ gauge' = count[h] /\ tenants' = tenants
    BY <1>5 DEF SetGauge, GaugeValue, storeVars
  <2> QED BY <2>1, SameTenants DEF CountInv
<1>6. CASE UNCHANGED vars
  <2>1. Quiet /\ UNCHANGED <<tenants, gauge, alone>>
    BY <1>6 DEF vars, ghostVars, storeVars, Quiet
  <2> QED BY <1>1, <2>1
<1> QED BY <1>2, <1>3, <1>4, <1>5, <1>6 DEF Next

\* For every number of handlers, a tenant update that nothing overlapped leaves
\* the gauge equal to the number of tenants in the store (adminMux, tenants/).
THEOREM LoneUpdatesRepairTheGauge == Spec => []LoneUpdateRepairsGauge
<1>1. Init => GaugeInv
  <2> SUFFICES ASSUME Init PROVE GaugeInv
    OBVIOUS
  <2>1. CountTenants = 0
    <3>1. ListTenants = {}
      BY DEF Init, NewDataStore, ListTenants
    <3> QED BY <3>1, FS_EmptySet DEF CountTenants
  <2> QED BY <2>1, AdminInit
     DEF Init, GaugeInv, OverlapInv, CountInv, LoneUpdateRepairsGauge, TenantSteps
<1>2. GaugeInv /\ [Next]_vars => GaugeInv'
  BY AdminStep, OverlapStep, CountStep, LoneStep DEF GaugeInv
<1>3. GaugeInv => LoneUpdateRepairsGauge
  BY DEF GaugeInv
<1> QED BY <1>1, <1>2, <1>3, PTL DEF Spec

-----------------------------------------------------------------------------

AckedInv ==
  \A u \in acked : u.began \in Nat /\ u.ended \in Nat /\ u.began <= clock /\ u.ended <= clock

\* Update u is the last of x to be acknowledged: every acknowledged update of x,
\* and every one in flight that has written, began before that.
Settles(u, x) ==
  /\ u.register = x
  /\ Content(x) = u.value
  /\ \A v \in acked : v.register = x => v.began <= u.ended
  /\ \A h \in InFlight(x) : began[h] <= u.ended

Untouched(x) ==
  /\ \A u \in acked : u.register # x
  /\ InFlight(x) = {}
  /\ Content(x) = Initially(x)

\* Whoever wrote x last is in flight, or its acknowledgement is later than the
\* beginning of every update of x that has written.
WriterInv(x) ==
  \/ \E h \in InFlight(x) : Content(x) = Written(req[h])
  \/ \E u \in acked : Settles(u, x)
  \/ Untouched(x)

LostInv == IInv /\ AckedInv /\ \A x \in Registers : WriterInv(x)

\* What is known of x stays when neither x nor those who wrote it change.
LEMMA WriterKept ==
  ASSUME NEW x, WriterInv(x), acked' = acked, Content(x)' = Content(x),
         InFlight(x)' = InFlight(x),
         \A h \in InFlight(x) : req'[h] = req[h] /\ began'[h] = began[h]
  PROVE  WriterInv(x)'
<1>1. CASE \E h \in InFlight(x) : Content(x) = Written(req[h])
  <2>1. PICK h \in InFlight(x) : Content(x) = Written(req[h])
    BY <1>1
  <2>2. h \in InFlight(x)' /\ Content(x)' = Written(req'[h])
    BY <2>1
  <2> QED BY <2>2 DEF WriterInv, Written
<1>2. CASE \E u \in acked : Settles(u, x)
  <2>1. PICK u \in acked : Settles(u, x)
    BY <1>2
  <2>2. /\ u \in acked' /\ u.register = x /\ Content(x)' = u.value
        /\ \A v \in acked' : v.register = x => v.began <= u.ended
        /\ \A h \in InFlight(x)' : began'[h] <= u.ended
    BY <2>1 DEF Settles
  <2> QED BY <2>2 DEF WriterInv, Settles
<1>3. CASE Untouched(x)
  <2>1. /\ \A u \in acked' : u.register # x
        /\ InFlight(x)' = {} /\ Content(x)' = Initially(x)
    BY <1>3 DEF Untouched
  <2> QED BY <2>1 DEF WriterInv, Untouched, Initially
<1> QED BY <1>1, <1>2, <1>3 DEF WriterInv

\* A write is the last of its register, and of no other.
LEMMA WriteStep ==
  ASSUME IInv, NEW x \in Registers, WriterInv(x), NEW h \in Handlers,
         UpdateParams(h) \/ UpdateEvaluator(h) \/ PutTenant(h) \/ RemoveTenant(h)
  PROVE  WriterInv(x)'
<1> USE DEF IInv
<1>1. /\ touched' = [touched EXCEPT ![h] = TRUE]
      /\ UNCHANGED <<began, acked, req>>
  BY DEF UpdateParams, UpdateEvaluator, PutTenant, RemoveTenant, Touch
<1>2. HandlerInv(h)
  BY DEF HandlersInv
<1>3. req[h] \in Requests /\ Accepted(req[h])
  BY <1>2 DEF HandlerInv, UpdateParams, UpdateEvaluator, PutTenant, RemoveTenant, Writes, Accepted
<1>4. /\ x = Register(req[h]) => Content(x)' = Written(req[h])
      /\ x # Register(req[h]) => Content(x)' = Content(x)
  <2>1. CASE UpdateParams(h) \/ UpdateEvaluator(h)
    <3>1. FirstStep(req[h]) = "setParams" /\ params' = req[h].value /\ tenants' = tenants
      BY <1>2, <2>1 DEF HandlerInv, UpdateParams, UpdateEvaluator, SetParams
    <3>2. Register(req[h]) = NoTenant /\ Written(req[h]) = req[h].value
      BY <1>3, <3>1, AcceptedRequest
    <3> QED BY <3>1, <3>2 DEF Content
  <2>2. CASE PutTenant(h)
    <3>1. /\ FirstStep(req[h]) = "setTenant" /\ params' = params
          /\ tenants' = [tenants EXCEPT ![req[h].tenant] = req[h].value]
      BY <1>2, <2>2 DEF HandlerInv, PutTenant, SetTenant
    <3>2. /\ Register(req[h]) = req[h].tenant /\ Written(req[h]) = req[h].value
          /\ req[h].tenant \in Tenants /\ req[h].tenant # NoTenant
      BY <1>3, <3>1, AcceptedRequest, AdminAssumption
    <3> QED BY <3>1, <3>2 DEF Content, TypeOK, StoreTypeOK, TenantMaps, Registers
  <2>3. CASE RemoveTenant(h)
    <3>1. /\ FirstStep(req[h]) = "deleteTenant" /\ params' = params
          /\ tenants' = [tenants EXCEPT ![req[h].tenant] = Absent]
      BY <1>2, <2>3 DEF HandlerInv, RemoveTenant, DeleteTenant
    <3>2. /\ Register(req[h]) = req[h].tenant /\ Written(req[h]) = Absent
          /\ req[h].tenant \in Tenants /\ req[h].tenant # NoTenant
      BY <1>3, <3>1, AcceptedRequest, AdminAssumption
    <3> QED BY <3>1, <3>2 DEF Content, TypeOK, StoreTypeOK, TenantMaps, Registers
  <2> QED BY <2>1, <2>2, <2>3
<1>5. CASE x = Register(req[h])
  <2>1. h \in InFlight(x)'
    BY <1>1, <1>5 DEF InFlight, GhostTypeOK, Register
  <2>2. Content(x)' = Written(req'[h])
    BY <1>1, <1>4, <1>5
  <2> QED BY <2>1, <2>2 DEF WriterInv, Written
<1>6. CASE x # Register(req[h])
  <2>1. InFlight(x)' = InFlight(x)
    BY <1>1, <1>6 DEF InFlight, GhostTypeOK, Register
  <2> QED BY <1>1, <1>4, <1>6, <2>1, WriterKept
<1> QED BY <1>5, <1>6

\* The acknowledgement of the last writer is later than all that began; that of
\* another leaves the last writer the last.
LEMMA ReturnStep ==
  ASSUME LostInv, NEW x \in Registers, NEW h \in Handlers, Return(h)
  PROVE  WriterInv(x)'
<1> USE DEF LostInv, IInv
<1> DEFINE v == [register |-> Register(req[h]), value |-> Written(req[h]),
                 began |-> began[h], ended |-> clock + 1]
<1>1. /\ acked' = IF touched[h] THEN acked \cup {v} ELSE acked
      /\ touched' = [touched EXCEPT ![h] = FALSE]
      /\ req' = [req EXCEPT ![h] = NoRequest]
      /\ began' = [began EXCEPT ![h] = 0]
      /\ UNCHANGED <<params, tenants>>
      /\ pc[h] = "answered"
  BY DEF Return, storeVars
<1>2. Content(x)' = Content(x) /\ WriterInv(x)
  BY <1>1 DEF Content
<1>3. InFlight(x)' = InFlight(x) \ {h}
  BY <1>1 DEF InFlight, GhostTypeOK, TypeOK, Register
<1>4. \A g \in Handlers \ {h} : req'[g] = req[g] /\ began'[g] = began[g]
  BY <1>1 DEF GhostTypeOK, TypeOK
<1>5. InFlight(x) \subseteq Handlers
  BY DEF InFlight
<1>6. CASE h \notin InFlight(x)
  <2>1. InFlight(x)' = InFlight(x)
    BY <1>3, <1>6
  <2>2. \A u \in acked' : u.register = x => u \in acked
    BY <1>1, <1>6 DEF InFlight
  <2>3. acked \subseteq acked'
    BY <1>1
  <2>4. CASE \E g \in InFlight(x) : Content(x) = Written(req[g])
    <3>1. PICK g \in InFlight(x) : Content(x) = Written(req[g])
      BY <2>4
    <3>2. g \in InFlight(x)' /\ Content(x)' = Written(req'[g])
      BY <1>2, <1>4, <1>5, <1>6, <2>1, <3>1
    <3> QED BY <3>2 DEF WriterInv, Written
  <2>5. CASE \E u \in acked : Settles(u, x)
    <3>1. PICK u \in acked : Settles(u, x)
      BY <2>5
    <3>2. /\ u \in acked' /\ u.register = x /\ Content(x)' = u.value
          /\ \A w \in acked' : w.register = x => w.began <= u.ended
          /\ \A g \in InFlight(x)' : began'[g] <= u.ended
      BY <1>2, <1>4, <1>5, <1>6, <2>1, <2>2, <2>3, <3>1 DEF Settles
    <3> QED BY <3>2 DEF WriterInv, Settles
  <2>6. CASE Untouched(x)
    <3>1. /\ \A u \in acked' : u.register # x
          /\ InFlight(x)' = {} /\ Content(x)' = Initially(x)
      BY <1>2, <2>1, <2>2, <2>6 DEF Untouched
    <3> QED BY <3>1 DEF WriterInv, Untouched, Initially
  <2> QED BY <1>2, <2>4, <2>5, <2>6 DEF WriterInv
<1>7. CASE h \in InFlight(x)
  <2>1. touched[h] /\ Register(req[h]) = x
    BY <1>7 DEF InFlight
  <2>2. acked' = acked \cup {v} /\ v.register = x /\ v.began = began[h] /\ v.ended = clock + 1
    BY <1>1, <2>1
  <2> HIDE DEF v
  <2>3. CASE Content(x) = Written(req[h])
    <3>1. v \in acked' /\ Content(x)' = v.value
      BY <1>2, <2>2, <2>3 DEF v
    <3>2. \A w \in acked' : w.register = x => w.began <= v.ended
      <4>1. began[h] \in Nat /\ began[h] <= clock /\ clock \in Nat
        BY <1>1 DEF GhostTypeOK, HandlersInv, HandlerInv
      <4>2. \A w \in acked : w.began <= v.ended
        BY <2>2, <4>1 DEF AckedInv
      <4> QED BY <2>2, <4>1, <4>2
    <3>3. \A g \in InFlight(x)' : began'[g] <= v.ended
      <4>1. \A g \in InFlight(x) : began[g] \in Nat /\ began[g] <= clock
        <5> SUFFICES ASSUME NEW g \in InFlight(x) PROVE began[g] \in Nat /\ began[g] <= clock
          OBVIOUS
        <5>1. g \in Handlers /\ touched[g]
          BY DEF InFlight
        <5>2. HandlerInv(g)
          BY <5>1 DEF HandlersInv
        <5> QED BY <5>1, <5>2 DEF HandlerInv, GhostTypeOK
      <4> QED BY <1>3, <1>4, <1>5, <2>2, <4>1 DEF GhostTypeOK
    <3> QED BY <2>2, <3>1, <3>2, <3>3 DEF WriterInv, Settles
  <2>4. CASE \E g \in InFlight(x) : g # h /\ Content(x) = Written(req[g])
    <3>1. PICK g \in InFlight(x) : g # h /\ Content(x) = Written(req[g])
      BY <2>4
    <3>2. g \in InFlight(x)' /\ Content(x)' = Written(req'[g])
      BY <1>2, <1>3, <1>4, <1>5, <3>1
    <3> QED BY <3>2 DEF WriterInv, Written
  <2>5. CASE \E u \in acked : Settles(u, x)
    <3>1. PICK u \in acked : Settles(u, x)
      BY <2>5
    <3>2. /\ u \in acked' /\ u.register = x /\ Content(x)' = u.value
          /\ \A w \in acked' : w.register = x => w.began <= u.ended
          /\ \A g \in InFlight(x)' : began'[g] <= u.ended
      BY <1>2, <1>3, <1>4, <1>5, <1>7, <2>2, <3>1 DEF Settles
    <3> QED BY <3>2 DEF WriterInv, Settles
  <2>6. ~Untouched(x)
    BY <1>7 DEF Untouched
  <2> QED BY <1>2, <2>3, <2>4, <2>5, <2>6 DEF WriterInv
<1> QED BY <1>6, <1>7

LEMMA LostStep == LostInv /\ [Next]_vars => LostInv'
<1> SUFFICES ASSUME LostInv, [Next]_vars PROVE LostInv'
  OBVIOUS
<1> USE DEF LostInv
<1>1. IInv'
  BY AdminStep
<1>2. AckedInv'
  <2>1. ASSUME acked' = acked, clock' \in Nat, clock <= clock' PROVE AckedInv'
    BY <2>1 DEF AckedInv, IInv, GhostTypeOK
  <2>2. ASSUME NEW h \in Handlers, NEW r \in Requests, Receive(h, r) PROVE AckedInv'
    BY <2>1, <2>2 DEF Receive, IInv, GhostTypeOK
  <2>3. ASSUME NEW h \in Handlers, Return(h) PROVE AckedInv'
    <3>1. began[h] \in Nat /\ began[h] <= clock /\ clock \in Nat
      BY <2>3 DEF Return, IInv, GhostTypeOK, HandlersInv, HandlerInv
    <3>2. \A u \in acked' : u \in acked \/ (u.began = began[h] /\ u.ended = clock + 1)
      BY <2>3 DEF Return
    <3>3. clock' = clock + 1
      BY <2>3 DEF Return
    <3> QED BY <3>1, <3>2, <3>3 DEF AckedInv
  <2>4. ASSUME NEW h \in Handlers,
               \/ Read(h) \/ CountReload(h) \/ SetGauge(h) \/ ReadCount(h)
               \/ UpdateParams(h) \/ UpdateEvaluator(h) \/ PutTenant(h) \/ RemoveTenant(h)
        PROVE  AckedInv'
    <3>1. acked' = acked /\ clock' = clock
      BY <2>4 DEF Read, CountReload, SetGauge, ReadCount, UpdateParams, UpdateEvaluator, PutTenant,
         RemoveTenant, Touch, ghostVars
    <3> QED BY <2>1, <3>1 DEF IInv, GhostTypeOK
  <2>5. CASE UNCHANGED vars
    BY <2>1, <2>5 DEF vars, ghostVars, IInv, GhostTypeOK
  <2> QED BY <2>2, <2>3, <2>4, <2>5 DEF Next
<1>3. ASSUME NEW x \in Registers PROVE WriterInv(x)'
  <2>0. WriterInv(x)
    OBVIOUS
  <2>1. ASSUME UNCHANGED <<params, tenants, acked, touched>>,
               \A h \in Handlers : touched[h] => req'[h] = req[h] /\ began'[h] = began[h]
        PROVE  WriterInv(x)'
    <3>1. Content(x)' = Content(x)
      BY <2>1 DEF Content
    <3>2. InFlight(x)' = InFlight(x)
      BY <2>1 DEF InFlight, Register
    <3>3. \A h \in InFlight(x) : req'[h] = req[h] /\ began'[h] = began[h]
      BY <2>1 DEF InFlight
    <3> QED BY <2>0, <2>1, <3>1, <3>2, <3>3, WriterKept
  <2>2. ASSUME NEW h \in Handlers, NEW r \in Requests, Receive(h, r) PROVE WriterInv(x)'
    <3>1. /\ UNCHANGED <<params, tenants, acked, touched>>
          /\ req' = [req EXCEPT ![h] = r] /\ began' = [began EXCEPT ![h] = clock + 1]
          /\ pc[h] = "idle"
      BY <2>2 DEF Receive, storeVars
    <3>2. ~touched[h]
      BY <3>1 DEF IInv, HandlersInv, HandlerInv
    <3>3. \A g \in Handlers : touched[g] => req'[g] = req[g] /\ began'[g] = began[g]
      BY <3>1, <3>2 DEF IInv, TypeOK, GhostTypeOK
    <3> QED BY <2>1, <3>1, <3>3
  <2>3. ASSUME NEW h \in Handlers, Read(h) \/ CountReload(h) \/ SetGauge(h) \/ ReadCount(h)
        PROVE  WriterInv(x)'
    <3>1. UNCHANGED <<params, tenants, acked, touched, req, began>>
      BY <2>3 DEF Read, CountReload, SetGauge, ReadCount, storeVars, ghostVars
    <3> QED BY <2>1, <3>1
  <2>4. ASSUME NEW h \in Handlers,
               UpdateParams(h) \/ UpdateEvaluator(h) \/ PutTenant(h) \/ RemoveTenant(h)
        PROVE  WriterInv(x)'
    BY <2>0, <2>4, WriteStep
  <2>5. ASSUME NEW h \in Handlers, Return(h) PROVE WriterInv(x)'
    BY <2>5, ReturnStep
  <2>6. CASE UNCHANGED vars
    <3>1. UNCHANGED <<params, tenants, acked, touched, req, began>>
      BY <2>6 DEF vars, storeVars, ghostVars
    <3> QED BY <2>1, <3>1
  <2> QED BY <2>2, <2>3, <2>4, <2>5, <2>6 DEF Next
<1> QED BY <1>1, <1>2, <1>3

\* For every number of concurrent admin requests: what the store holds was
\* written by an update still in flight or by an acknowledged one that no update
\* begun later has replaced; the second SetParams of an update in particular
\* brings back nothing (adminMux, update and tenants/).
THEOREM NoUpdatesAreLost == Spec => []NoUpdateIsLost
<1>1. Init => LostInv
  <2> SUFFICES ASSUME Init PROVE LostInv
    OBVIOUS
  <2>1. ASSUME NEW x \in Registers PROVE Untouched(x)
    <3>1. acked = {} /\ InFlight(x) = {}
      BY DEF Init, InFlight
    <3>2. Content(x) = Initially(x)
      BY DEF Init, NewDataStore, Content, Initially, Registers
    <3> QED BY <3>1, <3>2 DEF Untouched
  <2>2. AckedInv
    BY DEF Init, AckedInv
  <2> QED BY <2>1, <2>2, AdminInit DEF LostInv, WriterInv
<1>2. LostInv => NoUpdateIsLost
  <2> SUFFICES ASSUME LostInv, NEW x \in Registers
               PROVE  \/ \E h \in InFlight(x) : Content(x) = Written(req[h])
                      \/ \E u \in Latest(x) : Content(x) = u.value
                      \/ Latest(x) = {} /\ Content(x) = Initially(x)
    BY DEF NoUpdateIsLost, Registers
  <2>1. ASSUME NEW u \in acked, Settles(u, x) PROVE u \in Latest(x) /\ Content(x) = u.value
    BY <2>1 DEF Settles, Latest, LostInv, AckedInv
  <2>2. ASSUME Untouched(x) PROVE Latest(x) = {} /\ Content(x) = Initially(x)
    BY <2>2 DEF Untouched, Latest
  <2> QED BY <2>1, <2>2 DEF LostInv, WriterInv
<1> QED BY <1>1, LostStep, <1>2, PTL DEF Spec

=============================================================================
