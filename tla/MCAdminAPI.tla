---------------------------- MODULE MCAdminAPI ----------------------------
(***************************************************************************)
(* Instances of AdminAPI for TLC: two concurrent handlers, three requests  *)
(* in all, drawn from updates of the parameters and of two tenants and     *)
(* from one request for each way of being turned away.                     *)
(***************************************************************************)
EXTENDS AdminAPI

CONSTANTS empty, strict, cfg, t1, t2

Request(route, method, auth, valid, tenant, value) ==
  [route |-> route, method |-> method, auth |-> auth, valid |-> valid,
   tenant |-> tenant, value |-> value]

Updates ==
  { Request("update", "POST", "right", TRUE, NoTenant, p) : p \in {strict, NilParams} }
  \cup { Request("tenant", "POST", "right", TRUE, t, c) :
           t \in {t1, t2}, c \in {cfg, NilCfg} }
  \cup { Request("tenant", "DELETE", "right", TRUE, t1, NilCfg) }

Reads == { Request("rules", "GET", "right", TRUE, NoTenant, NilCfg) }

TurnedAway ==
  { Request("update", "POST", "none", TRUE, NoTenant, strict),
    Request("tenant", "DELETE", "wrong", TRUE, t1, NilCfg),
    Request("update", "GET", "right", TRUE, NoTenant, strict),
    Request("update", "POST", "right", FALSE, NoTenant, strict),
    Request("tenant", "OTHER", "right", TRUE, t1, cfg),
    Request("tenant", "POST", "right", FALSE, t1, cfg),
    Request("tenant", "POST", "right", TRUE, NoTenant, cfg) }

MCRequests == Updates \cup Reads \cup TurnedAway

=============================================================================
