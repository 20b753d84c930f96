----------------------------- MODULE PolicyGate -----------------------------
(***************************************************************************)
(* What Evaluate promises its callers, whatever it locks, caches and reads *)
(* on the way: a query is refused by the schema, or answered in one step   *)
(*                                                                         *)
(*  - by the policy, on parameters and a tenant configuration that were in *)
(*    force between the question and the answer;                           *)
(*  - by the fail-closed flag, when the policy cannot be asked; or         *)
(*  - from memory, with an answer the policy gave to a query of the same   *)
(*    key and that was committed to memory less than a TTL ago.            *)
(*                                                                         *)
(* Only the policy's answers are committed to memory.                      *)
(***************************************************************************)
EXTENDS Integers, Sequences

CONSTANTS
  Callers,           \* who asks, one question at a time
  Queries, NoQuery,  \* what is asked; the query of an idle caller
  Refused,           \* the queries that do not match the schema
  Keys, KeyOf(_),    \* under which key a query's answer is remembered
  Contents,          \* rules: [params, tenants]
  Permits(_, _, _),  \* the policy: query, parameters, tenant configurations
  Confs,             \* [ttl, failClosed, auditOnly]
  MaxTime

VARIABLES
  conf, now,
  rules,    \* the rules that have been in force, the present ones last
  memory,   \* per key, the answer that may be given again and until when
  phase,    \* of each caller: "idle", "asked", "keeping" or "done"
  query,    \* its query
  since,    \* the first rules that may decide it, 0 when it is not open
  allowed   \* its answer

callerVars == <<phase, query, since, allowed>>
vars == <<conf, now, rules, memory, callerVars>>

Init ==
  /\ conf \in Confs
  /\ now = 0
  /\ \E c \in Contents : rules = <<c>>
  /\ memory = [k \in Keys |-> [allowed |-> FALSE, until |-> 0]]
  /\ phase = [w \in Callers |-> "idle"]
  /\ query = [w \in Callers |-> NoQuery]
  /\ since = [w \in Callers |-> 0]
  /\ allowed = [w \in Callers |-> FALSE]

Ask(w, q) ==
  /\ phase[w] = "idle"
  /\ query' = [query EXCEPT ![w] = q]
  /\ allowed' = [allowed EXCEPT ![w] = FALSE]
  /\ IF q \in Refused
     THEN /\ phase' = [phase EXCEPT ![w] = "done"]
          /\ UNCHANGED since
     ELSE /\ phase' = [phase EXCEPT ![w] = "asked"]
          /\ since' = [since EXCEPT ![w] = Len(rules)]
  /\ UNCHANGED <<conf, now, rules, memory>>

\* The question of w is answered with a, and w goes on to place.
Answer(w, a, place) ==
  /\ phase[w] = "asked"
  /\ allowed' = [allowed EXCEPT ![w] = a]
  /\ phase' = [phase EXCEPT ![w] = place]
  /\ since' = [since EXCEPT ![w] = 0]
  /\ UNCHANGED <<conf, now, rules, memory, query>>

\* The parameters are no younger than the tenants' configurations.
ByPolicy(w) ==
  \E v, u \in since[w]..Len(rules), place \in {"keeping", "done"} :
    /\ v <= u
    /\ Answer(w, Permits(query[w], rules[v].params, rules[u].tenants) \/ conf.auditOnly,
              place)

ByFlag(w) == Answer(w, ~conf.failClosed, "done")

FromMemory(w) ==
  LET m == memory[KeyOf(query[w])] IN
  /\ now < m.until
  /\ Answer(w, m.allowed, "done")

Keep(w) ==
  /\ phase[w] = "keeping"
  /\ phase' = [phase EXCEPT ![w] = "done"]
  /\ memory' = [memory EXCEPT ![KeyOf(query[w])] =
                  [allowed |-> allowed[w], until |-> now + conf.ttl]]
  /\ UNCHANGED <<conf, now, rules, query, since, allowed>>

Leave(w) ==
  /\ phase[w] = "done"
  /\ phase' = [phase EXCEPT ![w] = "idle"]
  /\ query' = [query EXCEPT ![w] = NoQuery]
  /\ allowed' = [allowed EXCEPT ![w] = FALSE]
  /\ UNCHANGED <<conf, now, rules, memory, since>>

ChangeRules ==
  /\ \E c \in Contents : rules' = Append(rules, c)
  /\ UNCHANGED <<conf, now, memory, callerVars>>

Tick ==
  /\ now < MaxTime
  /\ now' = now + 1
  /\ UNCHANGED <<conf, rules, memory, callerVars>>

Next ==
  \/ \E w \in Callers :
       \/ \E q \in Queries : Ask(w, q)
       \/ ByPolicy(w) \/ ByFlag(w) \/ FromMemory(w) \/ Keep(w) \/ Leave(w)
  \/ ChangeRules
  \/ Tick

Spec == Init /\ [][Next]_vars

=============================================================================
