----------------------------- MODULE DataStore -----------------------------
(***************************************************************************)
(* opa.DataStore (internal/opa/store.go): the policy parameters and the    *)
(* per-tenant configurations that the admin API writes and that every      *)
(* evaluation reads.  Each method takes the store's mutex for its whole    *)
(* body, so each is one atomic step here; a caller that needs two of them  *)
(* takes two steps.                                                        *)
(*                                                                         *)
(* Configurations are opaque values.  A JSON body "null" decodes to a nil  *)
(* map, which the store keeps: NilParams and NilCfg stand for it.          *)
(***************************************************************************)
EXTENDS FiniteSets, Naturals

CONSTANTS
  Params,       \* parameter maps the admin can install
  NilParams,    \* the nil map, what a "null" body decodes to
  EmptyParams,  \* the empty map, what NewDataStore starts with
  Tenants,      \* tenant identifiers
  TenantCfgs,   \* tenant configurations the admin can install
  NilCfg,       \* a nil tenant configuration
  Absent        \* "no such key" in the tenants map

ASSUME StoreAssumption ==
  /\ EmptyParams \in Params
  /\ NilParams \notin Params
  /\ NilCfg \notin TenantCfgs
  /\ Absent \notin TenantCfgs \cup {NilCfg}

VARIABLES params, tenants

storeVars == <<params, tenants>>

TenantMaps == [Tenants -> TenantCfgs \cup {NilCfg, Absent}]

StoreTypeOK ==
  /\ params \in Params \cup {NilParams}
  /\ tenants \in TenantMaps

NewDataStore ==
  /\ params = EmptyParams
  /\ tenants = [t \in Tenants |-> Absent]

SetParams(p) ==
  /\ params' = p
  /\ UNCHANGED tenants

\* A copy is never nil: copying a nil map gives an empty one.
CopyOf(p) == IF p = NilParams THEN EmptyParams ELSE p

\* Mutant: the map itself is handed out, nil included.
MutGetParams == params

GetParams == CopyOf(params)

SetTenant(t, c) ==
  /\ tenants' = [tenants EXCEPT ![t] = c]
  /\ UNCHANGED params

\* Mutant: the configuration is emptied, the key stays.
MutDeleteTenant(t) ==
  /\ tenants' = [tenants EXCEPT ![t] = NilCfg]
  /\ UNCHANGED params

DeleteTenant(t) ==
  /\ tenants' = [tenants EXCEPT ![t] = Absent]
  /\ UNCHANGED params

\* nil both for a missing tenant and for one whose configuration is nil.
CfgIn(map, t) == IF map[t] = Absent THEN NilCfg ELSE map[t]

GetTenant(t) == CfgIn(tenants, t)

ListTenants == {t \in Tenants : tenants[t] # Absent}

CountTenants == Cardinality(ListTenants)

=============================================================================
