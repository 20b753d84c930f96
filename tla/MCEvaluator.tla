---------------------------- MODULE MCEvaluator ----------------------------
(***************************************************************************)
(* Instances of Evaluator for TLC: two request goroutines, two queries     *)
(* that share a shape and so a cache key (one of a tenant, one without),   *)
(* and one the schema rejects; for isolation, the same query of two        *)
(* tenants.  The policy denies everything under the "strict" parameters,   *)
(* and a tenant whose configuration is "deny".                             *)
(***************************************************************************)
EXTENDS Evaluator

CONSTANTS strict, deny, empty, t1, t2

MCInfos == { [shape |-> "users", detail |-> "plain", tenant |-> t1],
             [shape |-> "users", detail |-> "plain", tenant |-> NoTenant],
             [shape |-> "bogus", detail |-> "plain", tenant |-> NoTenant] }

TwoTenants == { [shape |-> "users", detail |-> "plain", tenant |-> t] : t \in {t1, t2} }

MCRejects == {i \in Infos : i.shape = "bogus"}

MCKeyOfShape == [s \in {"users", "bogus"} |-> s]

MCPolicy(i, p, c) == p # strict /\ c # deny

Conf(ttl, closed, audit) ==
  [ttl |-> ttl, failClosed |-> closed, auditOnly |-> audit]

MCConfs == { Conf(0, TRUE, FALSE), Conf(1, FALSE, FALSE), Conf(1, TRUE, TRUE) }

Enforcing == {Conf(1, TRUE, FALSE)}

=============================================================================
