--------------------------- MODULE OpaEvaluators ---------------------------
(***************************************************************************)
(* internal/opa: the input document (input.go) and the two evaluators that *)
(* have a policy judge it, in-process (embed.go) and over HTTP             *)
(* (sidecar.go).                                                           *)
(*                                                                         *)
(* A policy package evaluates to a document, a partial function of the     *)
(* names of its rules; the evaluators differ in which names they read.     *)
(***************************************************************************)
EXTENDS Policy

CONSTANT NonBoolean  \* a value of a rule that is not a boolean

\* encoding/json leaves out a field tagged omitempty that holds its zero value.
OmitZero(n) == IF n = 0 THEN Undef ELSE n
OmitEmpty(s) == IF s = "" THEN Undef ELSE s

\* The input as OPA sees it, with the store's parameters and the tenant's
\* configuration.  The fields that the shipped policy does not read are left out.
BuildInput(info, params, config) ==
  [operation_type |-> info.operationType,
   operation_name |-> OmitEmpty(info.operationName),
   depth |-> info.depth,
   field_count |-> info.fieldCount,
   field_paths |-> {info.fieldPaths[i] : i \in DOMAIN info.fieldPaths},
   directives |-> OmitZero(info.directives),
   batch_size |-> OmitZero(info.batchSize),
   argument_depth |-> OmitZero(info.argumentDepth),
   lists_requested |-> OmitZero(info.listsRequested),
   fragment_spread_count |-> OmitZero(info.fragmentSpreadCount),
   query_hash |-> OmitEmpty(info.queryHash),
   params |-> params,
   tenant_config |-> config]

\* What the shipped package evaluates to.
ShippedDocument(in) == [allow |-> allow(in), deny |-> deny(in)]

Result(a, reason) == [allowed |-> a, reason |-> reason, error |-> FALSE]

Error == [allowed |-> FALSE, reason |-> "", error |-> TRUE]

\* EmbeddedEvaluator.Evaluate: the query data.graphql.allow, and if it denies
\* data.graphql.deny for the reason.
EmbeddedEvaluate(doc) ==
  LET a == Get(doc, "allow")
      reasons == Elements(Get(doc, "deny"))
  IN IF a = Undef THEN Result(FALSE, "no result")
     ELSE IF a = NonBoolean THEN Result(FALSE, "non-boolean result")
     ELSE IF a THEN Result(TRUE, "")
     ELSE Result(FALSE, IF reasons = {} THEN "blocked by OPA policy"
                                        ELSE CHOOSE r \in reasons : TRUE)

\* How the call of the sidecar can end.
Replies == {"unreachable", "bad status", "undecodable", "ok"}

\* SidecarClient.Evaluate: what decoding does not find in the reply keeps its
\* zero value.
SidecarEvaluate(endpoint, reply, doc) ==
  IF endpoint = "" THEN Result(TRUE, "")
  ELSE IF reply # "ok" THEN Error
  ELSE Result(Get(doc, "allowed") = TRUE,
              IF Get(doc, "reason") = Undef THEN "" ELSE Get(doc, "reason"))

=============================================================================
