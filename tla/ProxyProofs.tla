---------------------------- MODULE ProxyProofs ----------------------------
(***************************************************************************)
(* For every request, batches of every length included, every parser and   *)
(* every evaluator: the upstream sees a GraphQL request only after each of *)
(* its queries has been parsed, evaluated and allowed.                     *)
(***************************************************************************)
EXTENDS Proxy, SequenceTheorems, TLAPS

\* The handler has not come to a decision.
Undecided == {"serve", "read", "item", "parsing", "evaluate"}

Allowed(i) == [item |-> i, tenant |-> TenantOf(req), verdict |-> "allow"]

\* The items before the one in hand have been evaluated, in order, and allowed.
Progress ==
  /\ idx \in Nat \ {0}
  /\ evals \in Seq({Allowed(i) : i \in Items})
  /\ Len(evals) = idx - 1
  /\ \A n \in 1..Len(evals) : evals[n] = Allowed(n)
  /\ \A n \in 1..Len(evals) : req.items[n] # EmptyQuery /\ Parses(req.items[n])

AtItem ==
  /\ req.graphql
  /\ req.method \in {"GET", "POST"}
  /\ idx \in Items

IInv ==
  /\ req \in Requests
  /\ chan \in [Items -> {"empty", "info", "err"}]
  /\ \A i \in Items : chan[i] = "info" => Parses(req.items[i])
  /\ pc \in Undecided => sent = "none" /\ Progress
  /\ pc \in {"serve", "read"} => idx = 1
  /\ pc = "read" => req.graphql /\ req.method = "POST"
  /\ pc \in {"item", "parsing", "evaluate"} => AtItem
  /\ pc \in {"parsing", "evaluate"} => req.items[idx] # EmptyQuery
  /\ pc = "evaluate" => Parses(req.items[idx])
  /\ ForwardedOnlyIfAllAllowed

LEMMA ItemsRange ==
  ASSUME req \in Requests
  PROVE  Len(req.items) \in Nat /\ Items = 1..Len(req.items)
BY ProxyAssumption DEF Items

LEMMA ProxyInit == Init => IInv
<1> SUFFICES ASSUME Init PROVE IInv
  OBVIOUS
<1>1. Progress
  BY DEF Init, Progress
<1>2. pc = "serve" /\ sent = "none" /\ idx = 1 /\ req \in Requests
  BY DEF Init
<1>3. /\ chan \in [Items -> {"empty", "info", "err"}]
      /\ \A i \in Items : chan[i] = "empty"
  BY DEF Init
<1> QED BY <1>1, <1>2, <1>3 DEF IInv, ForwardedOnlyIfAllAllowed

\* A step that ends the handler without sending anything upstream.
LEMMA EndsUnsent ==
  ASSUME IInv, pc \in Undecided, pc' = "done",
         UNCHANGED <<req, sent>>,
         chan' \in [Items -> {"empty", "info", "err"}],
         \A i \in Items : chan'[i] = "info" => Parses(req.items[i])
  PROVE  IInv'
BY DEF IInv, Undecided, ForwardedOnlyIfAllAllowed, Items

LEMMA ProxyStep == IInv /\ [Next]_vars => IInv'
<1> SUFFICES ASSUME IInv, [Next]_vars PROVE IInv'
  OBVIOUS
<1>0. Len(req.items) \in Nat /\ Items = 1..Len(req.items)
  BY ItemsRange DEF IInv
<1>1. CASE Serve
  <2>1. UNCHANGED <<req, idx, chan, evals>> /\ pc = "serve" /\ Progress /\ idx = 1
    BY <1>1 DEF Serve, IInv, Undecided
  <2>2. Progress'
    BY <2>1 DEF Progress, Items, Allowed, TenantOf
  <2>3. CASE pc' = "upstream" /\ ~req.graphql
    BY <2>1, <2>3 DEF IInv, Undecided, ForwardedOnlyIfAllAllowed, Items
  <2>4. CASE pc' = "done" /\ sent' = sent
    BY <1>1, <2>1, <2>4, EndsUnsent DEF IInv, Undecided
  <2>5. CASE pc' = "read" /\ sent' = sent /\ req.graphql /\ req.method = "POST"
    BY <2>1, <2>2, <2>5 DEF IInv, Undecided, ForwardedOnlyIfAllAllowed, Items
  <2>6. CASE pc' = "item" /\ sent' = sent /\ req.graphql /\ req.method = "GET"
    <3>0. req \in Requests
      BY DEF IInv
    <3>1. 1 \in Items
      <4>1. ~req.batch
        BY <2>6, <3>0, ProxyAssumption
      <4>2. Len(req.items) = 1
        BY <3>0, <4>1, ProxyAssumption
      <4> QED BY <1>0, <4>2
    <3> QED
      BY <2>1, <2>2, <2>6, <3>1
      DEF IInv, Undecided, ForwardedOnlyIfAllAllowed, Items, AtItem
  <2> QED BY <1>1, <2>3, <2>4, <2>5, <2>6 DEF Serve
<1>2. CASE ReadBody
  <2>1. /\ UNCHANGED <<req, idx, chan, evals, sent>> /\ pc = "read" /\ Progress
        /\ idx = 1 /\ req.graphql /\ req.method = "POST"
    BY <1>2 DEF ReadBody, IInv, Undecided
  <2>2. Progress'
    BY <2>1 DEF Progress, Items, Allowed, TenantOf
  <2>3. CASE pc' = "done"
    BY <2>1, <2>3, EndsUnsent DEF IInv, Undecided
  <2>4. CASE pc' = "item" /\ req.items # <<>>
    <3>1. 1 \in Items
      BY <1>0, <2>4, ProxyAssumption DEF IInv
    <3> QED
      BY <2>1, <2>2, <2>4, <3>1
      DEF IInv, Undecided, ForwardedOnlyIfAllAllowed, Items, AtItem
  <2> QED BY <1>2, <2>3, <2>4 DEF ReadBody, Fail
<1>3. CASE StartParse
  <2>1. UNCHANGED <<req, idx, chan, evals, sent>> /\ pc = "item" /\ Progress /\ AtItem
    BY <1>3 DEF StartParse, IInv, Undecided
  <2>2. Progress' /\ AtItem'
    BY <2>1 DEF Progress, Items, Allowed, TenantOf, AtItem
  <2>3. CASE pc' = "done"
    BY <2>1, <2>3, EndsUnsent DEF IInv, Undecided
  <2>4. CASE pc' = "parsing" /\ req.items[idx] # EmptyQuery
    BY <2>1, <2>2, <2>4 DEF IInv, Undecided, ForwardedOnlyIfAllAllowed, Items
  <2> QED BY <1>3, <2>3, <2>4 DEF StartParse, Fail
<1>4. ASSUME NEW i \in Items, ParserSends(i) PROVE IInv'
  <2>1. UNCHANGED <<req, pc, idx, evals, sent>>
    BY <1>4 DEF ParserSends
  <2>2. /\ chan' \in [Items -> {"empty", "info", "err"}]
        /\ \A j \in Items : chan'[j] = "info" => Parses(req.items[j])
    BY <1>4 DEF ParserSends, IInv
  <2> QED
    BY <2>1, <2>2 DEF IInv, Progress, AtItem, ForwardedOnlyIfAllAllowed, Items,
                      Allowed, TenantOf
<1>5. CASE ParseReturns
  <2>1. /\ UNCHANGED <<req, idx, evals, sent>> /\ pc = "parsing" /\ Progress /\ AtItem
        /\ req.items[idx] # EmptyQuery
    BY <1>5 DEF ParseReturns, IInv, Undecided
  <2>2. Progress' /\ AtItem'
    BY <2>1 DEF Progress, Items, Allowed, TenantOf, AtItem
  <2>3. /\ chan' \in [Items -> {"empty", "info", "err"}]
        /\ \A j \in Items : chan'[j] = "info" => Parses(req.items[j])
    BY <1>5 DEF ParseReturns, IInv
  <2>4. CASE pc' = "done"
    BY <2>1, <2>3, <2>4, EndsUnsent DEF Undecided
  <2>5. CASE pc' = "evaluate" /\ chan[idx] = "info"
    <3>1. Parses(req.items[idx])
      BY <2>1, <2>5 DEF IInv, AtItem
    <3> QED
      BY <2>1, <2>2, <2>3, <2>5, <3>1
      DEF IInv, Undecided, ForwardedOnlyIfAllAllowed, Items
  <2> QED BY <1>5, <2>4, <2>5 DEF ParseReturns, Fail
<1>6. CASE ParseTimesOut
  BY <1>6, EndsUnsent DEF ParseTimesOut, Fail, IInv, Undecided
<1>7. ASSUME NEW v \in Verdicts, Evaluate(v) PROVE IInv'
  <2>1. /\ UNCHANGED <<req, chan>> /\ pc = "evaluate" /\ Progress /\ AtItem
        /\ req.items[idx] # EmptyQuery /\ Parses(req.items[idx]) /\ sent = "none"
    BY <1>7 DEF Evaluate, IInv, Undecided
  <2>2. CASE v = "allow"
    <3>1. evals' = Append(evals, Allowed(idx))
      BY <1>7, <2>2 DEF Evaluate, Allowed
    <3>2. /\ evals' \in Seq({Allowed(i) : i \in Items})
          /\ Len(evals') = idx
          /\ \A n \in 1..idx : evals'[n] = Allowed(n)
      BY <2>1, <3>1 DEF Progress, AtItem
    <3>3. \A n \in 1..idx : req.items[n] # EmptyQuery /\ Parses(req.items[n])
      BY <2>1 DEF Progress
    <3>4. CASE pc' = "item" /\ idx' = idx + 1 /\ ~LastItem /\ sent' = sent
      <4>1. idx' \in Items
        BY <1>0, <2>1, <3>4 DEF AtItem, LastItem
      <4>2. Progress'
        BY <2>1, <3>2, <3>3, <3>4 DEF Progress, Items, Allowed, TenantOf
      <4> QED
        BY <2>1, <3>4, <4>1, <4>2
        DEF IInv, Undecided, AtItem, ForwardedOnlyIfAllAllowed, Items
    <3>5. CASE pc' = "upstream" /\ LastItem
      <4>1. idx = Len(req.items)
        BY <3>5 DEF LastItem
      <4>2. evals' = [i \in Items |-> Allowed(i)]
        BY <1>0, <3>2, <4>1
      <4>3. req.items # <<>>
        BY <2>1, <4>1 DEF Progress
      <4>4. ForwardedOnlyIfAllAllowed'
        BY <1>0, <2>1, <3>3, <4>1, <4>2, <4>3
        DEF ForwardedOnlyIfAllAllowed, AtItem, Items, Allowed, TenantOf
      <4> QED BY <2>1, <3>5, <4>4 DEF IInv, Undecided, Items
    <3> QED BY <1>7, <2>2, <3>4, <3>5 DEF Evaluate, Denies
  <2>3. CASE v # "allow"
    <3>1. pc' = "done" /\ sent' = sent
      BY <1>7, <2>3 DEF Evaluate, Fail
    <3> QED BY <2>1, <3>1, EndsUnsent DEF IInv, Undecided
  <2> QED BY <2>2, <2>3
<1>8. CASE UpstreamAnswers \/ UpstreamAborts
  <2>1. UNCHANGED <<req, chan, evals, sent>> /\ pc' = "done"
    BY <1>8 DEF UpstreamAnswers, UpstreamAborts
  <2> QED
    BY <2>1 DEF IInv, Undecided, ForwardedOnlyIfAllAllowed, Items, TenantOf
<1>9. CASE UNCHANGED vars
  BY <1>9 DEF vars, IInv, Progress, AtItem, ForwardedOnlyIfAllAllowed, Items,
              Allowed, TenantOf
<1> QED
  BY <1>1, <1>2, <1>3, <1>4, <1>5, <1>6, <1>7, <1>8, <1>9 DEF Next, Handle

\* A GraphQL request reaches the upstream only after every one of its queries,
\* however many a batch has, was parsed, evaluated and allowed (proxy.go,
\* handleGraphQL, handleGraphQLBatch, handleGraphQLGet).
THEOREM NothingUncheckedIsForwarded == Spec => []ForwardedOnlyIfAllAllowed
<1>1. IInv => ForwardedOnlyIfAllAllowed
  BY DEF IInv
<1> QED BY <1>1, ProxyInit, ProxyStep, PTL DEF Spec

-----------------------------------------------------------------------------

NoDenial == evals = <<>> \/ ~Denies(evals[Len(evals)].verdict)

\* Nothing has been answered.
Unanswered == status = 0 /\ blocks = 0 /\ panicked = FALSE /\ NoDenial

\* The ways a GraphQL request ends.
TurnedAway ==
  /\ status \in {405, 415} /\ outcomes = <<>> /\ sent = "none"
  /\ blocks = 0 /\ panicked = FALSE /\ NoDenial

Failed ==
  /\ status \in {400, 413, 500} /\ outcomes = <<"error">> /\ sent = "none"
  /\ blocks = 0 /\ (panicked => status = 500) /\ NoDenial

Blocked ==
  /\ status = 403 /\ outcomes = <<"blocked">> /\ sent = "none"
  /\ blocks \in 1..2 /\ panicked = FALSE /\ ~NoDenial

Relayed ==
  /\ outcomes = <<"allowed">> /\ sent # "none"
  /\ blocks = 0 /\ panicked = FALSE /\ NoDenial

Aborted ==
  /\ outcomes = <<"allowed", "error">> /\ sent # "none"
  /\ blocks = 0 /\ panicked = TRUE /\ NoDenial

Ending == TurnedAway \/ Failed \/ Blocked \/ Relayed \/ Aborted

\* What the client and the metrics have been told follows from where the
\* handler is.
StoryInv ==
  /\ pc \in Undecided => Unanswered /\ outcomes = <<>> /\ ruleEvals = 0
  /\ pc = "upstream" =>
       /\ Unanswered /\ sent # "none"
       /\ outcomes = IF req.graphql THEN <<"allowed">> ELSE <<>>
  /\ pc = "done" /\ req.graphql => Ending

FullInv == IInv /\ TypeOK /\ StoryInv

LEMMA AppendToNone == ASSUME NEW e PROVE Append(<<>>, e) = <<e>>
OBVIOUS

LEMMA AppendToOne == ASSUME NEW e, NEW f PROVE Append(<<e>>, f) = <<e, f>>
<1> DEFINE s == Append(<<e>>, f)
<1>1. s \in Seq({e, f}) /\ Len(s) = 2 /\ s[1] = e /\ s[2] = f
  OBVIOUS
<1>2. <<e, f>> \in Seq({e, f}) /\ Len(<<e, f>>) = 2
  OBVIOUS
<1> HIDE DEF s
<1>3. s = <<e, f>>
  BY <1>1, <1>2, SeqEqual
<1> QED BY <1>3 DEF s

\* A step that fails the request before anything was sent.
LEMMA FailStory ==
  ASSUME FullInv, pc \in Undecided, NEW code \in {400, 413, 500}, Fail(code),
         UNCHANGED <<req, sent, blocks>>, panicked' => code = 500, NoDenial'
  PROVE  StoryInv'
<1>1. outcomes = <<>> /\ blocks = 0 /\ sent = "none"
  BY DEF FullInv, StoryInv, Unanswered, IInv
<1>2. pc' = "done" /\ status' = code /\ outcomes' = <<"error">>
  BY <1>1, AppendToNone DEF Fail, RecordRequest
<1>3. Failed'
  BY <1>1, <1>2 DEF Failed
<1> QED BY <1>2, <1>3 DEF StoryInv, Undecided, Ending

LEMMA SameDenial == ASSUME evals' = evals, NoDenial PROVE NoDenial'
BY DEF NoDenial, Denies

LEMMA LastEval ==
  ASSUME FullInv, NEW v \in Verdicts, Evaluate(v)
  PROVE  /\ NoDenial' <=> ~Denies(v)
         /\ evals' \in Seq([item : Items, tenant : {TenantOf(req)}, verdict : Verdicts])
<1> DEFINE e == [item |-> idx, tenant |-> TenantOf(req), verdict |-> v]
           S == [item : Items, tenant : {TenantOf(req)}, verdict : Verdicts]
<1>1. evals \in Seq(S) /\ idx \in Items /\ evals' = Append(evals, e)
  BY DEF FullInv, TypeOK, IInv, AtItem, Evaluate
<1>2. e \in S /\ e.verdict = v
  BY <1>1
<1> HIDE DEF e, S
<1>3. evals' \in Seq(S) /\ evals' # <<>> /\ evals'[Len(evals')] = e
  BY <1>1, <1>2
<1>4. NoDenial' <=> ~Denies(v)
  BY <1>2, <1>3 DEF NoDenial, Denies
<1> QED BY <1>3, <1>4 DEF S

LEMMA StoryStep == FullInv /\ [Next]_vars => StoryInv'
<1> SUFFICES ASSUME FullInv, [Next]_vars PROVE StoryInv'
  OBVIOUS
<1>1. CASE Serve
  <2>1. /\ pc = "serve" /\ Unanswered /\ outcomes = <<>> /\ ruleEvals = 0 /\ sent = "none"
        /\ UNCHANGED <<req, evals, outcomes, blocks, ruleEvals, panicked>>
    BY <1>1 DEF Serve, FullInv, StoryInv, IInv, Undecided
  <2>2. NoDenial'
    BY <2>1, SameDenial DEF Unanswered
  <2>3. CASE ~req.graphql /\ pc' = "upstream" /\ sent' = "original" /\ status' = status
    BY <2>1, <2>2, <2>3 DEF StoryInv, Unanswered, Undecided
  <2>4. CASE pc' = "done" /\ status' \in {405, 415} /\ sent' = sent
    <3>1. TurnedAway'
      BY <2>1, <2>2, <2>4 DEF TurnedAway, Unanswered
    <3> QED BY <2>4, <3>1 DEF StoryInv, Undecided, Ending
  <2>5. CASE pc' \in {"read", "item"} /\ UNCHANGED <<status, sent>>
    BY <2>1, <2>2, <2>5 DEF StoryInv, Unanswered, Undecided
  <2> QED BY <1>1, <2>3, <2>4, <2>5 DEF Serve
<1>2. CASE ReadBody
  <2>1. /\ pc = "read" /\ Unanswered /\ outcomes = <<>> /\ ruleEvals = 0
        /\ UNCHANGED <<req, evals, sent, blocks, ruleEvals, panicked>>
    BY <1>2 DEF ReadBody, FullInv, StoryInv, Undecided
  <2>2. NoDenial'
    BY <2>1, SameDenial DEF Unanswered
  <2>3. ASSUME NEW code \in {400, 413}, Fail(code) PROVE StoryInv'
    BY <2>1, <2>2, <2>3, FailStory DEF Undecided, Unanswered
  <2>4. CASE pc' = "item" /\ UNCHANGED <<status, outcomes>>
    BY <2>1, <2>2, <2>4 DEF StoryInv, Unanswered, Undecided
  <2> QED BY <1>2, <2>3, <2>4 DEF ReadBody
<1>3. CASE StartParse
  <2>1. /\ pc = "item" /\ Unanswered /\ outcomes = <<>> /\ ruleEvals = 0
        /\ UNCHANGED <<req, evals, sent, blocks, ruleEvals, panicked>>
    BY <1>3 DEF StartParse, FullInv, StoryInv, Undecided
  <2>2. NoDenial'
    BY <2>1, SameDenial DEF Unanswered
  <2>3. CASE Fail(400)
    BY <2>1, <2>2, <2>3, FailStory DEF Undecided, Unanswered
  <2>4. CASE pc' = "parsing" /\ UNCHANGED <<status, outcomes>>
    BY <2>1, <2>2, <2>4 DEF StoryInv, Unanswered, Undecided
  <2> QED BY <1>3, <2>3, <2>4 DEF StartParse
<1>4. ASSUME NEW i \in Items, ParserSends(i) PROVE StoryInv'
  <2>1. UNCHANGED <<req, pc, evals, sent, status, outcomes, blocks, ruleEvals, panicked>>
    BY <1>4 DEF ParserSends
  <2> QED BY <2>1 DEF FullInv, StoryInv, Unanswered, Ending, TurnedAway, Failed, Blocked,
                     Relayed, Aborted, NoDenial
<1>5. CASE ParseReturns \/ ParseTimesOut
  <2>1. /\ pc = "parsing" /\ Unanswered /\ outcomes = <<>> /\ ruleEvals = 0
        /\ UNCHANGED <<req, evals, sent, blocks, ruleEvals, panicked>>
    BY <1>5 DEF ParseReturns, ParseTimesOut, FullInv, StoryInv, Undecided
  <2>2. NoDenial'
    BY <2>1, SameDenial DEF Unanswered
  <2>3. CASE Fail(400)
    BY <2>1, <2>2, <2>3, FailStory DEF Undecided, Unanswered
  <2>4. CASE pc' = "evaluate" /\ UNCHANGED <<status, outcomes>>
    BY <2>1, <2>2, <2>4 DEF StoryInv, Unanswered, Undecided
  <2> QED BY <1>5, <2>3, <2>4 DEF ParseReturns, ParseTimesOut
<1>6. ASSUME NEW v \in Verdicts, Evaluate(v) PROVE StoryInv'
  <2>1. /\ pc = "evaluate" /\ Unanswered /\ outcomes = <<>> /\ ruleEvals = 0
        /\ sent = "none" /\ AtItem /\ req' = req /\ req \in Requests
    BY <1>6 DEF Evaluate, FullInv, StoryInv, IInv, Undecided
  <2>2. NoDenial' <=> ~Denies(v)
    BY <1>6, LastEval
  <2>3. CASE v = "allow" /\ ~LastItem
    <3>1. NoDenial'
      BY <2>2, <2>3 DEF Denies
    <3>2. pc' = "item" /\ UNCHANGED <<sent, status, outcomes, blocks, panicked>>
      BY <1>6, <2>3 DEF Evaluate, Denies
    <3>3. req.batch
      <4>1. Len(req.items) \in Nat /\ Items = 1..Len(req.items) /\ idx \in Items
        BY <2>1, ItemsRange DEF AtItem
      <4>2. Len(req.items) # 1
        <5> DEFINE n == Len(req.items)
        <5>1. idx # n
          BY <2>3 DEF LastItem
        <5>2. idx \in 1..n /\ n \in Nat
          BY <4>1
        <5> HIDE DEF n
        <5>3. n # 1
          BY <5>1, <5>2
        <5> QED BY <5>3 DEF n
      <4> QED BY <2>1, <4>2, ProxyAssumption
    <3>4. ruleEvals' = 0
      BY <1>6, <2>1, <3>3 DEF Evaluate, RecordRuleEval
    <3> QED BY <2>1, <3>1, <3>2, <3>4 DEF StoryInv, Unanswered, Undecided
  <2>4. CASE v = "allow" /\ LastItem
    <3>1. NoDenial'
      BY <2>2, <2>4 DEF Denies
    <3>2. /\ pc' = "upstream" /\ UNCHANGED <<status, blocks, panicked>>
          /\ outcomes' = <<"allowed">> /\ sent' = ForwardBody(req)
      BY <1>6, <2>1, <2>4, AppendToNone DEF Evaluate, Denies, RecordRequest
    <3>3. sent' # "none"
      BY <3>2 DEF ForwardBody
    <3> QED BY <2>1, <3>1, <3>2, <3>3 DEF StoryInv, Unanswered, Undecided, AtItem
  <2>5. CASE Denies(v)
    <3>1. /\ pc' = "done" /\ status' = 403 /\ UNCHANGED <<sent, panicked>>
          /\ outcomes' = <<"blocked">> /\ blocks' \in 1..2
      BY <1>6, <2>1, <2>5, AppendToNone DEF Evaluate, Denies, RecordRequest, Unanswered
    <3>2. Blocked'
      BY <2>1, <2>2, <2>5, <3>1 DEF Blocked, Unanswered
    <3> QED BY <3>1, <3>2 DEF StoryInv, Undecided, Ending
  <2>6. CASE v \in {"error", "panic"}
    <3>1. NoDenial'
      BY <2>2, <2>6 DEF Denies
    <3>2. Fail(500) /\ UNCHANGED <<sent, blocks>>
      BY <1>6, <2>6 DEF Evaluate, Denies
    <3> QED BY <2>1, <3>1, <3>2, FailStory DEF Undecided
  <2> QED BY <2>3, <2>4, <2>5, <2>6 DEF Verdicts, Denies
<1>7. CASE UpstreamAnswers
  <2>1. /\ pc' = "done" /\ Unanswered /\ sent # "none"
        /\ outcomes = IF req.graphql THEN <<"allowed">> ELSE <<>>
        /\ UNCHANGED <<req, evals, sent, outcomes, blocks, panicked>>
    BY <1>7 DEF UpstreamAnswers, FullInv, StoryInv
  <2>2. req.graphql => Relayed'
    BY <2>1, SameDenial DEF Relayed, Unanswered
  <2> QED BY <2>1, <2>2 DEF StoryInv, Undecided, Ending
<1>8. CASE UpstreamAborts
  <2>1. /\ pc' = "done" /\ Unanswered /\ sent # "none" /\ panicked' = TRUE
        /\ outcomes = IF req.graphql THEN <<"allowed">> ELSE <<>>
        /\ outcomes' = Append(outcomes, "error")
        /\ UNCHANGED <<req, evals, sent, blocks>>
    BY <1>8 DEF UpstreamAborts, RecordRequest, FullInv, StoryInv
  <2>2. req.graphql => Aborted'
    BY <2>1, SameDenial, AppendToOne DEF Aborted, Unanswered
  <2> QED BY <2>1, <2>2 DEF StoryInv, Undecided, Ending
<1>9. CASE UNCHANGED vars
  <2>1. UNCHANGED <<req, pc, evals, sent, status, outcomes, blocks, ruleEvals, panicked>>
    BY <1>9 DEF vars
  <2> QED BY <2>1 DEF FullInv, StoryInv, Unanswered, Ending, TurnedAway, Failed, Blocked,
                     Relayed, Aborted, NoDenial
<1> QED
  BY <1>1, <1>2, <1>3, <1>4, <1>5, <1>6, <1>7, <1>8, <1>9 DEF Next, Handle

LEMMA ProxyTypeStep == FullInv /\ [Next]_vars => TypeOK'
<1> SUFFICES ASSUME FullInv, [Next]_vars PROVE TypeOK'
  OBVIOUS
<1> USE DEF FullInv
<1> DEFINE O == {"error", "allowed", "blocked"}
           E == [item : Items, tenant : {TenantOf(req)}, verdict : Verdicts]
<1>0. TypeOK
  OBVIOUS
<1>1. req' = req
  BY DEF Next, Handle, Serve, ReadBody, StartParse, ParserSends, ParseReturns, ParseTimesOut,
         Evaluate, UpstreamAnswers, UpstreamAborts, vars
<1>2. Items' = Items /\ TenantOf(req)' = TenantOf(req)
  BY <1>1 DEF Items, TenantOf
<1>3. outcomes' \in Seq(O)
  <2>1. outcomes \in Seq(O)
    BY <1>0 DEF TypeOK
  <2>2. outcomes' = outcomes \/ \E o \in O : outcomes' = Append(outcomes, o)
    BY ZenonT(30)
    DEF Next, Handle, Serve, ReadBody, StartParse, ParserSends, ParseReturns, ParseTimesOut,
        Evaluate, UpstreamAnswers, UpstreamAborts, vars, Fail, RecordRequest
  <2> HIDE DEF O
  <2> QED BY <2>1, <2>2
<1>4. evals' \in Seq(E)
  <2>1. evals \in Seq(E)
    BY <1>0 DEF TypeOK
  <2>2. evals' = evals \/ \E v \in Verdicts : Evaluate(v)
    BY DEF Next, Handle, Serve, ReadBody, StartParse, ParserSends, ParseReturns, ParseTimesOut,
           UpstreamAnswers, UpstreamAborts, vars
  <2> QED BY <2>1, <2>2, LastEval
<1>5. idx' = 1 \/ idx' \in Items
  <2>1. CASE idx' = idx
    BY <1>0, <2>1 DEF TypeOK
  <2>2. CASE idx' # idx
    <3>1. PICK v \in Verdicts : Evaluate(v)
      BY <2>2 DEF Next, Handle, Serve, ReadBody, StartParse, ParserSends, ParseReturns,
                  ParseTimesOut, UpstreamAnswers, UpstreamAborts, vars
    <3>2. idx' = idx + 1 /\ ~LastItem /\ idx \in Items
      BY <2>2, <3>1 DEF Evaluate, IInv, AtItem
    <3>3. Len(req.items) \in Nat /\ Items = 1..Len(req.items)
      BY ItemsRange DEF IInv
    <3> QED BY <3>2, <3>3 DEF LastItem
  <2> QED BY <2>1, <2>2
<1>6. parsers' \in [Items -> {"none", "running", "ended"}]
  <2>1. \/ parsers' = parsers
        \/ parsers' = [parsers EXCEPT ![idx] = "running"]
        \/ \E i \in Items : parsers' = [parsers EXCEPT ![i] = "ended"]
    BY DEF Next, Handle, Serve, ReadBody, StartParse, ParserSends, ParseReturns, ParseTimesOut,
           Evaluate, UpstreamAnswers, UpstreamAborts, vars
  <2> QED BY <1>0, <2>1 DEF TypeOK
<1>7. chan' \in [Items -> {"empty", "info", "err"}]
  BY <1>2, ProxyStep DEF IInv
<1>8. sent' \in {"none", "original", "rebuilt", "empty"}
  <2>1. sent' = sent \/ sent' = "original" \/ sent' = ForwardBody(req)
    BY ZenonT(30)
    DEF Next, Handle, Serve, ReadBody, StartParse, ParserSends, ParseReturns, ParseTimesOut,
        Evaluate, UpstreamAnswers, UpstreamAborts, vars
  <2> QED BY <1>0, <2>1 DEF TypeOK, ForwardBody
<1>9. /\ status' \in {0, 400, 403, 405, 413, 415, 500, 502} \cup UpstreamStatuses
      /\ pc' \in {"serve", "read", "item", "parsing", "evaluate", "upstream", "done"}
  <2> USE <1>0 DEF TypeOK
  <2>1. CASE Serve
    BY <2>1 DEF Serve
  <2>2. CASE ReadBody \/ StartParse \/ ParseReturns \/ ParseTimesOut
    BY <2>2 DEF ReadBody, StartParse, ParseReturns, ParseTimesOut, Fail
  <2>3. ASSUME NEW v \in Verdicts, Evaluate(v)
        PROVE  /\ status' \in {0, 400, 403, 405, 413, 415, 500, 502} \cup UpstreamStatuses
               /\ pc' \in {"serve", "read", "item", "parsing", "evaluate", "upstream", "done"}
    BY <2>3 DEF Evaluate, Fail
  <2>4. CASE \/ UpstreamAnswers \/ UpstreamAborts \/ UNCHANGED vars
             \/ \E i \in Items : ParserSends(i)
    BY <2>4 DEF UpstreamAnswers, UpstreamAborts, ParserSends, vars
  <2> QED BY <2>1, <2>2, <2>3, <2>4 DEF Next, Handle
<1>10. blocks' \in 0..2 /\ ruleEvals' \in 0..1
  <2>1. \/ blocks' = blocks /\ ruleEvals' = ruleEvals
        \/ /\ pc = "evaluate"
           /\ blocks' \in {blocks, blocks + 1, blocks + 2}
           /\ ruleEvals' \in {ruleEvals, ruleEvals + 1}
    BY ZenonT(30)
    DEF Next, Handle, Serve, ReadBody, StartParse, ParserSends, ParseReturns, ParseTimesOut,
        Evaluate, RecordRuleEval, UpstreamAnswers, UpstreamAborts, vars
  <2>2. pc = "evaluate" => blocks = 0 /\ ruleEvals = 0
    BY DEF StoryInv, Undecided, Unanswered
  <2> QED BY <1>0, <2>1, <2>2 DEF TypeOK
<1>11. panicked' \in BOOLEAN
  <2>1. panicked' = panicked \/ panicked' = TRUE
    BY DEF Next, Handle, Serve, ReadBody, StartParse, ParserSends, ParseReturns, ParseTimesOut,
           Evaluate, UpstreamAnswers, UpstreamAborts, vars
  <2> QED BY <1>0, <2>1, ZenonT(30) DEF TypeOK
<1> QED
  BY <1>0, <1>1, <1>2, <1>3, <1>4, <1>5, <1>6, <1>7, <1>8, <1>9, <1>10, <1>11 DEF TypeOK

LEMMA FullInvariant == Spec => []FullInv
<1>1. Init => FullInv
  <2> SUFFICES ASSUME Init PROVE FullInv
    OBVIOUS
  <2>1. TypeOK
    <3>1. parsers \in [Items -> {"none", "running", "ended"}]
      BY DEF Init
    <3>2. chan \in [Items -> {"empty", "info", "err"}]
      BY DEF Init
    <3>3. /\ outcomes \in Seq({"error", "allowed", "blocked"})
          /\ evals \in Seq([item : Items, tenant : {TenantOf(req)}, verdict : Verdicts])
      BY DEF Init
    <3>4. /\ req \in Requests /\ pc = "serve" /\ idx = 1 /\ sent = "none"
          /\ status = 0 /\ blocks = 0 /\ ruleEvals = 0 /\ panicked \in BOOLEAN
      BY DEF Init
    <3> QED BY <3>1, <3>2, <3>3, <3>4 DEF TypeOK
  <2>2. StoryInv
    BY DEF Init, StoryInv, Unanswered, NoDenial
  <2> QED BY <2>1, <2>2, ProxyInit DEF FullInv
<1>2. FullInv /\ [Next]_vars => FullInv'
  BY ProxyStep, ProxyTypeStep, StoryStep DEF FullInv
<1> QED BY <1>1, <1>2, PTL DEF Spec

\* The handler stays within its types: it blocks a request at most twice over,
\* records at most one rule evaluation and keeps its index inside the batch
\* (proxy.go, Handler).
THEOREM ProxyTypeCorrect == Spec => []TypeOK
<1>1. FullInv => TypeOK
  BY DEF FullInv
<1> QED BY FullInvariant, <1>1, PTL

\* For every request, parser, evaluator and upstream, with every timeout and
\* every panic: a request is recorded as allowed exactly if it went upstream and
\* as blocked exactly if it was denied, and an answer of the handler's own, 403 or
\* an error, is the one its record stands for (proxy.go, Handler, recoverPanic).
THEOREM AnswersMatchRecords == Spec => []AnswerMatchesRecord
<1>1. FullInv => AnswerMatchesRecord
  <2> SUFFICES ASSUME FullInv, pc = "done", req.graphql
      PROVE  /\ Recorded("allowed") <=> sent # "none"
             /\ Recorded("blocked") <=> ~NoDenial
             /\ sent = "none" =>
                  /\ status = 403 <=> Recorded("blocked")
                  /\ status \in {400, 413, 500} => outcomes = <<"error">>
    BY DEF AnswerMatchesRecord, NoDenial
  <2>1. Ending
    BY DEF FullInv, StoryInv
  <2>2. CASE TurnedAway
    BY <2>2 DEF TurnedAway, Recorded
  <2>3. CASE Failed
    BY <2>3 DEF Failed, Recorded
  <2>4. CASE Blocked
    BY <2>4 DEF Blocked, Recorded
  <2>5. CASE Relayed
    BY <2>5 DEF Relayed, Recorded
  <2>6. CASE Aborted
    BY <2>6 DEF Aborted, Recorded
  <2> QED BY <2>1, <2>2, <2>3, <2>4, <2>5, <2>6 DEF Ending
<1> QED BY FullInvariant, <1>1, PTL

=============================================================================
