------------------------------ MODULE MCProxy ------------------------------
(***************************************************************************)
(* Instances of Proxy for TLC: every kind of request, with up to two       *)
(* queries, each empty, unparsable or sound.                               *)
(***************************************************************************)
EXTENDS Proxy

MCParses(q) == q = "good"

Queries == {"", "bad", "good"}

Batches == {<<>>} \cup {<<q>> : q \in Queries} \cup {<<p, q>> : p, q \in Queries}

\* No key, a plain one, a tenant with a key number, one that has nothing before
\* its underscore, and one that ends in an underscore.
ApiKeys ==
  { <<>>, <<"x">>, <<"x", "_", "x">>, <<"_", "x">>, <<"x", "_">>,
    <<"x", "_", "x", "_", "x">> }

Singles == {<<q>> : q \in Queries}

Request(graphql, method, json, body, batch, varsOk, apiKey, items) ==
  [graphql |-> graphql, method |-> method, json |-> json, body |-> body,
   batch |-> batch, varsOk |-> varsOk, apiKey |-> apiKey, items |-> items]

Bodies == {"ok", "malformed", "trailing", "closer", "toolarge", "broken"}

Posts ==
  { Request(TRUE, "POST", TRUE, body, FALSE, TRUE, key, items) :
      body \in Bodies, key \in ApiKeys, items \in Singles }
  \cup
  { Request(TRUE, "POST", TRUE, body, TRUE, TRUE, key, items) :
      body \in Bodies, key \in ApiKeys, items \in Batches }

Gets ==
  { Request(TRUE, "GET", json, "ok", FALSE, v, key, items) :
      json \in BOOLEAN, v \in BOOLEAN, key \in ApiKeys, items \in Singles }

Refused ==
  { Request(TRUE, "POST", FALSE, "ok", FALSE, TRUE, NoTenant, <<"good">>),
    Request(TRUE, "OTHER", TRUE, "ok", FALSE, TRUE, NoTenant, <<"good">>) }

Others ==
  { Request(FALSE, m, TRUE, "ok", FALSE, TRUE, NoTenant, <<"good">>) :
      m \in {"GET", "POST", "OTHER"} }

\* Statuses of which two are also the handler's own.
MCStatuses == {200, 403, 500}

MCRequests == Posts \cup Gets \cup Refused \cup Others

=============================================================================
