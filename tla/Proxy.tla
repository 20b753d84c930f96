------------------------------- MODULE Proxy -------------------------------
(***************************************************************************)
(* internal/proxy/proxy.go: the life of one HTTP request in Handler, from  *)
(* ServeHTTP to the answer, with the goroutines parseQueryWithTimeout      *)
(* starts.  The evaluator is what the handler sees of it, a verdict per    *)
(* query; the upstream is the world behind httputil.ReverseProxy.          *)
(*                                                                         *)
(* A request is a record                                                   *)
(*   graphql  its path ends in /graphql                                    *)
(*   method   "POST", "GET" or "OTHER"                                     *)
(*   json     it has a JSON content type                                   *)
(*   body     what reading and decoding the body meets                     *)
(*   batch    the body is a JSON array                                     *)
(*   varsOk   the variables parameter of a GET is valid JSON               *)
(*   apiKey   its X-API-Key, a sequence of "x", "_" and " "                *)
(*   items    the queries the handler reads: all of a batch's, a single    *)
(*            request's one, and of a GET the first query parameter.       *)
(*                                                                         *)
(* A GET goes upstream with its URL as it came: query parameters after the *)
(* first (handleGraphQLGet reads none of them) are the upstream's to read  *)
(* or to ignore, and are not in the model.                                 *)
(***************************************************************************)
EXTENDS Naturals, Sequences

CONSTANTS
  Requests,    \* the requests that may arrive
  EmptyQuery,  \* the query ""
  Parses(_),   \* parser.Parse accepts this query
  UpstreamStatuses \* the statuses the upstream may answer with

ASSUME ProxyAssumption ==
  \A r \in Requests :
    /\ r.items \in Seq({r.items[i] : i \in DOMAIN r.items})
    /\ r.batch \in BOOLEAN
    /\ ~r.batch => Len(r.items) = 1
    /\ r.batch => r.method = "POST"

VARIABLES
  req,      \* the request
  pc,       \* where its handler is
  idx,      \* the index of the item in hand
  parsers,  \* per item, its parse goroutine
  chan,     \* per item, the content of the goroutine's result channel
  evals,    \* the evaluations made, in order
  sent,     \* the body sent upstream, or "none"
  status,   \* the status line written to the client, 0 before that
  outcomes, \* the RecordRequest calls, in order
  blocks,   \* the number of RecordBlock calls, the evaluator's included
  ruleEvals, \* the number of RecordRuleEval calls
  panicked  \* recoverPanic has caught a panic

vars == <<req, pc, idx, parsers, chan, evals, sent, status, outcomes, blocks,
          ruleEvals, panicked>>

\* What Evaluate does: it allows; it denies, having recorded the block itself
\* (schema or policy) or not (a cached denial, fail-closed); it returns an
\* error; it panics.
Verdicts == {"allow", "deny_recorded", "deny", "error", "panic"}

Denies(v) == v \in {"deny_recorded", "deny"}

Items == DOMAIN req.items

Init ==
  /\ req \in Requests
  /\ pc = "serve"
  /\ idx = 1
  /\ parsers = [i \in Items |-> "none"]
  /\ chan = [i \in Items |-> "empty"]
  /\ evals = <<>>
  /\ sent = "none"
  /\ status = 0
  /\ outcomes = <<>>
  /\ blocks = 0
  /\ ruleEvals = 0
  /\ panicked = FALSE

\* metrics.RecordRequest: the counter of the outcome goes up.
RecordRequest(outcome) == outcomes' = Append(outcomes, outcome)

\* metrics.RecordRuleEval, which the loop over a batch does not call.
RecordRuleEval == ruleEvals' = IF req.batch THEN ruleEvals ELSE ruleEvals + 1

\* Mutant: the error is not recorded.
MutFail(code) ==
  /\ pc' = "done"
  /\ status' = code
  /\ UNCHANGED outcomes

\* The handler writes an error response, records it and returns.
Fail(code) ==
  /\ pc' = "done"
  /\ status' = code
  /\ RecordRequest("error")

\* ServeHTTP: other paths go straight upstream; a wrong content type or method
\* is refused without being recorded.
Serve ==
  /\ pc = "serve"
  /\ \/ /\ ~req.graphql
        /\ pc' = "upstream" /\ sent' = "original"
        /\ UNCHANGED status
     \/ /\ req.graphql /\ req.method = "POST" /\ ~req.json
        /\ pc' = "done" /\ status' = 415
        /\ UNCHANGED sent
     \/ /\ req.graphql /\ req.method = "OTHER"
        /\ pc' = "done" /\ status' = 405
        /\ UNCHANGED sent
     \/ /\ req.graphql /\ req.method = "POST" /\ req.json
        /\ pc' = "read"
        /\ UNCHANGED <<status, sent>>
     \/ /\ req.graphql /\ req.method = "GET"
        /\ pc' = "item"
        /\ UNCHANGED <<status, sent>>
  /\ UNCHANGED <<req, idx, parsers, chan, evals, outcomes, blocks, ruleEvals, panicked>>

\* The bodies that decode.
Decodable(batch) == IF batch THEN {"ok"} ELSE {"ok", "closer"}

\* handleGraphQL up to the first query, and the head of handleGraphQLBatch: the
\* body is read within the size limit and decoded.  Trailing data is refused,
\* except after a single request if it begins with a closing bracket ("closer"),
\* where Decoder.More sees none; json.Unmarshal refuses that too in a batch.
ReadBody ==
  /\ pc = "read"
  /\ \/ req.body = "toolarge" /\ Fail(413)
     \/ req.body \notin Decodable(req.batch) \cup {"toolarge"} /\ Fail(400)
     \/ req.body \in Decodable(req.batch) /\ req.items = <<>> /\ Fail(400)
     \/ /\ req.body \in Decodable(req.batch) /\ req.items # <<>>
        /\ pc' = "item"
        /\ UNCHANGED <<status, outcomes>>
  /\ UNCHANGED <<req, idx, parsers, chan, evals, sent, blocks, ruleEvals, panicked>>

\* The next query is refused if it is empty, else handed to a parse goroutine.
StartParse ==
  /\ pc = "item"
  /\ \/ /\ req.items[idx] = EmptyQuery
        /\ Fail(400)
        /\ UNCHANGED parsers
     \/ /\ req.items[idx] # EmptyQuery
        /\ parsers' = [parsers EXCEPT ![idx] = "running"]
        /\ pc' = "parsing"
        /\ UNCHANGED <<status, outcomes>>
  /\ UNCHANGED <<req, idx, chan, evals, sent, blocks, ruleEvals, panicked>>

\* Mutant: the channel is unbuffered, so a send needs a receiver.
MutCanSend(i) == pc = "parsing" /\ idx = i

\* ch <- result: the channel has room for it, whether or not the handler is
\* still there to receive.
CanSend(i) == chan[i] = "empty"

ParserSends(i) ==
  /\ parsers[i] = "running"
  /\ CanSend(i)
  /\ chan' = [chan EXCEPT ![i] = IF Parses(req.items[i]) THEN "info" ELSE "err"]
  /\ parsers' = [parsers EXCEPT ![i] = "ended"]
  /\ UNCHANGED <<req, pc, idx, evals, sent, status, outcomes, blocks, ruleEvals, panicked>>

\* case r := <-ch
ParseReturns ==
  /\ pc = "parsing"
  /\ chan[idx] # "empty"
  /\ chan' = [chan EXCEPT ![idx] = "empty"]
  /\ \/ /\ chan[idx] = "err"
        /\ Fail(400)
     \/ /\ chan[idx] = "info"
        /\ pc' = "evaluate"
        /\ UNCHANGED <<status, outcomes>>
  /\ UNCHANGED <<req, idx, parsers, evals, sent, blocks, ruleEvals, panicked>>

\* Mutant: the timeout is only noticed once the parser has answered.
MutParseTimesOut ==
  /\ pc = "parsing"
  /\ chan[idx] # "empty"
  /\ Fail(400)
  /\ UNCHANGED <<req, idx, parsers, chan, evals, sent, blocks, ruleEvals, panicked>>

\* case <-time.After(timeout), possibly with a result waiting as well.
ParseTimesOut ==
  /\ pc = "parsing"
  /\ Fail(400)
  /\ UNCHANGED <<req, idx, parsers, chan, evals, sent, blocks, ruleEvals, panicked>>

\* The empty TenantID.
NoTenant == <<>>

hasLeadingContent(s) == \E i \in DOMAIN s : s[i] \notin {"_", " "}

\* The places where the key may be cut: an underscore that is not the last
\* character and has content before it.
Cuts(key) ==
  {i \in 1..(Len(key) - 1) : key[i] = "_" /\ hasLeadingContent(SubSeq(key, 1, i - 1))}

\* The tenant an API key names: the key up to its last such underscore, or all
\* of it.
extractTenantID(key) ==
  IF Cuts(key) = {} THEN key
  ELSE LET last == CHOOSE i \in Cuts(key) : \A j \in Cuts(key) : j <= i
       IN  SubSeq(key, 1, last - 1)

\* evaluateAndForward sets the tenant; the loop over a batch does not.
TenantOf(r) == IF r.batch THEN NoTenant ELSE extractTenantID(r.apiKey)

\* What goes upstream: the bytes received, or for a GET a body rebuilt from the
\* query, which is empty when the variables do not marshal.
ForwardBody(r) ==
  IF r.method = "POST" THEN "original"
  ELSE IF r.varsOk THEN "rebuilt" ELSE "empty"

\* Mutant: only the first query of a batch is evaluated.
MutFirstOnly == TRUE

\* Mutant: the loop runs one item too far.
MutOneTooFar == idx > Len(req.items)

LastItem == idx = Len(req.items)

Evaluate(v) ==
  /\ pc = "evaluate"
  /\ evals' = Append(evals, [item |-> idx, tenant |-> TenantOf(req), verdict |-> v])
  /\ RecordRuleEval
  /\ \/ /\ v = "allow" /\ ~LastItem
        /\ idx' = idx + 1
        /\ pc' = "item"
        /\ UNCHANGED <<sent, status, outcomes, blocks, panicked>>
     \/ /\ v = "allow" /\ LastItem
        /\ RecordRequest("allowed")
        /\ sent' = ForwardBody(req)
        /\ pc' = "upstream"
        /\ UNCHANGED <<idx, status, blocks, panicked>>
     \/ /\ Denies(v)
        /\ status' = 403
        /\ blocks' = blocks + (IF v = "deny_recorded" THEN 2 ELSE 1)
        /\ RecordRequest("blocked")
        /\ pc' = "done"
        /\ UNCHANGED <<idx, sent, panicked>>
     \/ /\ v = "error"
        /\ Fail(500)
        /\ UNCHANGED <<idx, sent, blocks, panicked>>
     \/ /\ v = "panic"
        /\ Fail(500)
        /\ panicked' = TRUE
        /\ UNCHANGED <<idx, sent, blocks>>
  /\ UNCHANGED <<req, parsers, chan>>

\* The upstream's answer is relayed, whatever its status, or 502 when there is
\* none.
UpstreamAnswers ==
  /\ pc = "upstream"
  /\ status' \in UpstreamStatuses \cup {502}
  /\ pc' = "done"
  /\ UNCHANGED <<req, idx, parsers, chan, evals, sent, outcomes, blocks, ruleEvals, panicked>>

\* The upstream breaks off in the middle of its answer: ReverseProxy panics with
\* http.ErrAbortHandler, and recoverPanic finds the status line already sent.
UpstreamAborts ==
  /\ pc = "upstream"
  /\ status' \in UpstreamStatuses
  /\ panicked' = TRUE
  /\ RecordRequest("error")
  /\ pc' = "done"
  /\ UNCHANGED <<req, idx, parsers, chan, evals, sent, blocks, ruleEvals>>

Handle == Serve \/ ReadBody \/ StartParse \/ ParseReturns
          \/ \E v \in Verdicts : Evaluate(v)

Next ==
  \/ Handle \/ ParseTimesOut
  \/ \E i \in Items : ParserSends(i)
  \/ UpstreamAnswers \/ UpstreamAborts

Spec == Init /\ [][Next]_vars

\* The handler runs and evaluation ends.  The upstream owes nothing: the handler
\* sets no deadline on it.
FairSpec == Spec /\ WF_vars(Handle)

\* Parsing terminates; the timer fires.  Each liveness property assumes what it
\* needs of the two and not the other.
ParsingEnds == WF_vars(\E i \in Items : ParserSends(i))
TimerFires == WF_vars(ParseTimesOut)

-----------------------------------------------------------------------------

TypeOK ==
  /\ req \in Requests
  /\ pc \in {"serve", "read", "item", "parsing", "evaluate", "upstream", "done"}
  /\ idx = 1 \/ idx \in Items
  /\ parsers \in [Items -> {"none", "running", "ended"}]
  /\ chan \in [Items -> {"empty", "info", "err"}]
  /\ evals \in Seq([item : Items, tenant : {TenantOf(req)}, verdict : Verdicts])
  /\ sent \in {"none", "original", "rebuilt", "empty"}
  /\ status \in {0, 400, 403, 405, 413, 415, 500, 502} \cup UpstreamStatuses
  /\ outcomes \in Seq({"error", "allowed", "blocked"})
  /\ blocks \in 0..2
  /\ ruleEvals \in 0..1
  /\ panicked \in BOOLEAN

\* A GraphQL request reaches the upstream only if each query the handler reads
\* in it, every item of a batch included, is not empty, parses, and was evaluated
\* and allowed, once and in order (handleGraphQL, handleGraphQLBatch,
\* handleGraphQLGet).
ForwardedOnlyIfAllAllowed ==
  (req.graphql /\ sent # "none") =>
    /\ req.method \in {"GET", "POST"}
    /\ req.items # <<>>
    /\ evals = [i \in Items |-> [item |-> i, tenant |-> TenantOf(req),
                                 verdict |-> "allow"]]
    /\ \A i \in Items : req.items[i] # EmptyQuery /\ Parses(req.items[i])

Recorded(outcome) == \E n \in DOMAIN outcomes : outcomes[n] = outcome

\* What happened to a request, what was recorded of it and what the client was
\* told agree: it is recorded as allowed if and only if it went upstream, and as
\* blocked if and only if its last evaluation was a denial; and of those that
\* did not go upstream, the ones the client sees answered 403 are the ones
\* recorded as blocked, and the ones answered 400, 413 or 500 are recorded as
\* errors and nothing else (handleGraphQL, handleGraphQLBatch,
\* evaluateAndForward, recoverPanic).  It asks nothing of the requests that are
\* refused by their method or content type, nor how often a block is counted.
AnswerMatchesRecord ==
  (pc = "done" /\ req.graphql) =>
    /\ Recorded("allowed") <=> sent # "none"
    /\ Recorded("blocked") <=> evals # <<>> /\ Denies(evals[Len(evals)].verdict)
    /\ sent = "none" =>
         /\ status = 403 <=> Recorded("blocked")
         /\ status \in {400, 413, 500} => outcomes = <<"error">>

\* If the timer fires, every request is answered or handed to the upstream, even
\* when a parser never comes back (parseQueryWithTimeout).
EveryRequestLeavesTheHandler == TimerFires => <>(pc \in {"upstream", "done"})

\* If parsing terminates, a parse goroutine ends, also when the handler has
\* stopped waiting for it: the result channel is buffered
\* (parseQueryWithTimeout).
NoParserLeaks == ParsingEnds => []<>(\A i \in Items : parsers[i] # "running")

\* README.md:172, "Each tenant (identified via `X-API-Key` header) can have its
\* own rules configuration": a query is evaluated for its request's tenant.
EvaluatedForTenant ==
  \A n \in DOMAIN evals : evals[n].tenant = extractTenantID(req.apiKey)

=============================================================================
