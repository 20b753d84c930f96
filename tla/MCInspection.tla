---------------------------- MODULE MCInspection ----------------------------
(***************************************************************************)
(* Instances of Inspection for TLC: every document of up to three          *)
(* selections over one or two operations and two fragments, whose          *)
(* selection sets are not empty, as the grammar asks, and many of four;    *)
(* fragments may be spread repeatedly, in cycles, or be missing.  Names,   *)
(* directives and arguments are fixed by a selection's position; the       *)
(* smaller documents come with aliases and without.                        *)
(***************************************************************************)
EXTENDS Inspection

Op(name, type) ==
  [name |-> name, type |-> type, dirs |-> 1, vars |-> 1, defaults |-> name = "Get"]

OpLists == { <<Op("", "query")>>, <<Op("Get", "mutation")>> }
OpPairs == { <<Op("Get", "query"), Op("Set", "query")>> }

\* Kinds, and the field name and the weights of the n-th selection.
Heads == { <<"field", "">>, <<"inline", "">>, <<"spread", "A">>, <<"spread", "B">> }
Names == <<"user", "posts", "posts", "users">>
Aliases == <<"user", "user", "users", "posts">>
Args == <<{}, {"list"}, {"int"}, {"object"}>>

Owners(ops, n) ==
  {<<"op", i>> : i \in DOMAIN ops} \cup {<<"frag", f>> : f \in {"A", "B"}}
    \cup {<<"sel", m>> : m \in 1..(n - 1)}

\* The ways to lay out n selections, each owned by an operation, a fragment, or
\* an earlier field or inline fragment, no operation or inline fragment empty.
Layouts(ops, heads, n) ==
  { c \in [1..n -> [head : heads, in : Owners(ops, n)]] :
      /\ \A i \in 1..n : c[i].in[1] = "sel" =>
           c[i].in[2] < i /\ c[c[i].in[2]].head[1] # "spread"
      /\ \A o \in DOMAIN ops : \E i \in 1..n : c[i].in = <<"op", o>>
      /\ \A i \in 1..n : c[i].head[1] = "inline" =>
           \E j \in 1..n : c[j].in = <<"sel", i>> }

\* The n-th selection, a field of it under its key of this list.
Selection(n, c, keys) ==
  [kind |-> c.head[1],
   name |-> IF c.head[1] = "field" THEN Names[n] ELSE c.head[2],
   alias |-> IF c.head[1] = "field" THEN keys[n] ELSE c.head[2],
   dirs |-> n \div 2, args |-> IF c.head[1] = "field" THEN Args[n] ELSE {}]

Defined(c) == {f \in {"A", "B"} : \E i \in DOMAIN c : c[i].in = <<"frag", f>>}

\* The type conditions of the fragments and of the inline fragments, which may
\* have none.
Conditions == { [A |-> "Query", B |-> "User", inline |-> NoType],
                [A |-> "User", B |-> "Query", inline |-> "User"] }

Inlines(c, t) ==
  {<<"sel", n>> : n \in {n \in DOMAIN c : c[n].head[1] = "inline" /\ t.inline # NoType}}

Doc(source, ops, c, keys, t) ==
  [source |-> source, ops |-> ops, frags |-> [f \in Defined(c) |-> 1],
   conds |-> [x \in {<<"frag", f>> : f \in Defined(c)} \cup Inlines(c, t) |->
                IF x[1] = "frag" THEN t[x[2]] ELSE t.inline],
   sets |-> [x \in {c[n].in : n \in DOMAIN c} |->
               SelectSeq([n \in DOMAIN c |-> n], LAMBDA n : c[n].in = x)],
   sels |-> [n \in DOMAIN c |-> Selection(n, c[n], keys)]]

DocsOver(lists, n, keys) ==
  UNION { {Doc("ok", ops, c, keys, t) : c \in Layouts(ops, Heads, n), t \in Conditions} :
          ops \in lists }

Bare(source, ops) ==
  [source |-> source, ops |-> ops, frags |-> <<>>, conds |-> <<>>, sets |-> <<>>,
   sels |-> <<>>]

Refused ==
  { Bare("empty", <<>>), Bare("malformed", <<>>), Bare("ok", <<>>),
    Bare("ok", <<Op("Get", "query"), Op("", "query")>>) }

\* Four selections, without inline fragments, of which the first is the
\* operation's and every fragment is spread: room for a fragment that is spread
\* at two depths, and for a cycle of two fragments with a field in it.
Deep ==
  LET ops == <<Op("", "query")>>
      heads == Heads \ {<<"inline", "">>}
  IN { Doc("ok", ops, c, Names, [A |-> "User", B |-> "User", inline |-> NoType]) :
         c \in {c \in Layouts(ops, heads, 4) :
                  /\ c[1].in = <<"op", 1>>
                  /\ \A f \in Defined(c) : \E i \in 1..4 : c[i].head = <<"spread", f>>} }

SmallDocs ==
  UNION {DocsOver(OpLists \cup OpPairs, n, keys) : n \in 1..2, keys \in {Names, Aliases}}

MCDocs == Refused \cup SmallDocs \cup DocsOver(OpLists \cup OpPairs, 3, Names) \cup Deep

MCNamePrefixes == {<<"user", "users">>}

MCPlural(name) == name \in {"posts", "users"}

MCValueChildren ==
  [int |-> {}, list |-> {"int"}, object |-> {"list", "int"}]

\* Mutations have no root type.
MCTypes ==
  [Query |-> [user |-> <<"User">>, posts |-> <<"list", "list", "Post">>],
   User |-> [posts |-> <<"list", "Post">>, users |-> <<"list", "User">>],
   Post |-> [users |-> <<"list", "User">>]]

MCRoots == [query |-> "Query", mutation |-> NoType, subscription |-> NoType]

Setting(schema, params, config) ==
  [schema |-> schema, params |-> params, config |-> config, mode |-> "embedded",
   reply |-> "ok", failClosed |-> FALSE]

Sidecar(reply) == [Setting(FALSE, <<>>, <<>>) EXCEPT !.mode = "sidecar", !.reply = reply]

MCSettings ==
  { Setting(TRUE, <<>>, <<>>),
    Setting(FALSE, [depth_limit |-> 1, max_fragment_spreads |-> 1],
                   [depth_limit |-> 2, max_field_count |-> 2]),
    Setting(FALSE, [max_field_count |-> 2, max_directives |-> 0,
                    field_allowlist |-> {}], <<>>),
    Setting(FALSE, [max_lists_requested |-> 0, cost_budget |-> 2], <<>>),
    Setting(FALSE, [field_allowlist |-> {<<"user">>}, max_batch_size |-> 1,
                    max_fragment_spreads |-> -1], <<>>),
    Setting(FALSE, [max_argument_depth |-> 1, field_blocklist |-> {<<"user">>}],
                   [field_blocklist |-> {<<"posts", "users">>}, max_directives |-> 0]),
    Sidecar("ok"), Sidecar("unreachable"),
    [Sidecar("bad status") EXCEPT !.failClosed = TRUE] }

\* The list of operation names, as --allowed-operation-names sets it.
Listed == { Setting(FALSE, [allowed_operation_names |-> {"Get"}], <<>>) }

Remote == {Sidecar("ok")}

=============================================================================
