------------------------------- MODULE Parser -------------------------------
(***************************************************************************)
(* internal/parser/parse.go: the analysis of one GraphQL document.         *)
(*                                                                         *)
(* A document is a record                                                  *)
(*   source  "empty", "malformed" (gqlparser refuses it) or "ok"           *)
(*   ops     its operations, [name, type, dirs, vars, defaults]            *)
(*   frags   its fragment definitions, a map from names to their number of *)
(*           directives                                                    *)
(*   sets    its selection sets: for <<"op", i>>, <<"frag", name>> and     *)
(*           <<"sel", n>> the numbers of their selections, in order        *)
(*   conds   the type conditions of its fragments: of <<"frag", name>>,    *)
(*           and of <<"sel", n>> if that inline fragment has one           *)
(*   sels    its selections, each with                                     *)
(*             kind   "field", "inline" or "spread"                        *)
(*             name   the field's name, the fragment a spread names        *)
(*             alias  the field's response key, which gqlparser sets to    *)
(*                    its name if no alias is given; else the name         *)
(*             dirs   its number of directives                             *)
(*             args   the values of its arguments                          *)
(*                                                                         *)
(* The recursion of walkSelections is a stack of the selections still to   *)
(* be visited, each with the path and the depth it is visited at.          *)
(* visits counts the selections visited for the operation in hand, and     *)
(* steers nothing.                                                         *)
(***************************************************************************)
EXTENDS Integers, Sequences, FiniteSets, FiniteSetsExt

CONSTANTS
  Docs,           \* the documents
  Plural(_),      \* this response key has two letters or more and ends in s
  ValueChildren,  \* the children of each argument value, a forest
  Hash            \* the digest of a text, never empty

\* A selection stands in one place of one selection set.
ASSUME DocAssumption ==
  \A d \in Docs :
    /\ d.ops \in Seq({d.ops[o] : o \in DOMAIN d.ops})
    /\ d.sels \in Seq({d.sels[n] : n \in DOMAIN d.sels})
    /\ \A x \in DOMAIN d.sets : d.sets[x] \in Seq(DOMAIN d.sels)
    /\ \A x, y \in DOMAIN d.sets :
         \A i \in DOMAIN d.sets[x], j \in DOMAIN d.sets[y] :
           d.sets[x][i] = d.sets[y][j] => x = y /\ i = j

VARIABLES
  doc,      \* the document
  pc,       \* where parseGraphQL is
  op,       \* the index of the operation in hand
  todo,     \* the selections to be visited, [sel, prefix, depth]
  visited,  \* the fragments entered for this operation
  cur,      \* currentInfo
  info,     \* the result
  visits

walkVars == <<todo, visited, cur, visits>>
parserVars == <<doc, pc, op, walkVars, info>>

Values == DOMAIN ValueChildren

\* There are finitely many values, and none is within itself.
ASSUME ValueAssumption ==
  /\ IsFiniteSet(Values)
  /\ \A v \in Values : ValueChildren[v] \subseteq Values
  /\ \E height \in [Values -> 0..(Cardinality(Values) - 1)] :
       \A v \in Values : \A c \in ValueChildren[v] : height[c] < height[v]

\* Every selection has an alias, if only its name.
ASSUME AliasAssumption ==
  \A d \in Docs :
    "sels" \in DOMAIN d /\ \A n \in DOMAIN d.sels : "alias" \in DOMAIN d.sels[n]

\* A fragment definition has a type condition, as the grammar wants.
ASSUME ConditionAssumption ==
  \A d \in Docs : \A x \in DOMAIN d.sets : x[1] = "frag" => x \in DOMAIN d.conds

\* What is counted is a number.
ASSUME WeightAssumption ==
  \A d \in Docs :
    /\ IsFiniteSet(DOMAIN d.frags) /\ \A f \in DOMAIN d.frags : d.frags[f] \in Nat
    /\ \A o \in DOMAIN d.ops : d.ops[o].dirs \in Nat /\ d.ops[o].vars \in Nat
    /\ \A n \in DOMAIN d.sels : d.sels[n].dirs \in Nat /\ d.sels[n].args \subseteq Values

\* The nesting of a value at a given depth.  The branch for a variable's default
\* is never taken: it asks for a link from the variable to its definition, which
\* only gqlparser's validator makes, and ParseQuery does not run it.
measureValueDepth[x \in Values \X Nat] ==
  LET v == x[1]  depth == x[2]
  IN Max({depth} \cup {measureValueDepth[<<c, depth + 1>>] : c \in ValueChildren[v]})

\* &QueryInfo{}
NewInfo ==
  [operationType |-> "", operationName |-> "", depth |-> 0, fieldCount |-> 0,
   fieldPaths |-> <<>>, directives |-> 0, batchSize |-> 0, argumentDepth |-> 0,
   listsRequested |-> 0, fragmentSpreadCount |-> 0, queryHash |-> "",
   variableCount |-> 0, hasDefaultVariables |-> FALSE,
   operationDirectives |-> 0, inlineFragmentTypesCount |-> 0,
   fragmentCount |-> 0]

\* Mutant: one measure is forgotten where the operations are put together.
MutMeasures == {"depth", "fieldCount", "directives", "argumentDepth",
                "fragmentSpreadCount", "variableCount", "operationDirectives",
                "inlineFragmentTypesCount"}

Measures == {"depth", "fieldCount", "directives", "argumentDepth",
             "listsRequested", "fragmentSpreadCount", "variableCount",
             "operationDirectives", "inlineFragmentTypesCount"}

Larger(m, n) == IF m > n THEN m ELSE n

Sels(d) == DOMAIN d.sels

\* The selection set of an owner, if it has one.
SelectionSet(d, owner) == IF owner \in DOMAIN d.sets THEN d.sets[owner] ELSE <<>>

\* The selection set of an owner as work to be done.
Pending(owner, prefix, depth) ==
  LET mine == SelectionSet(doc, owner)
  IN [i \in DOMAIN mine |-> [sel |-> mine[i], prefix |-> prefix, depth |-> depth]]

\* Several operations must all have names.
UnnamedAmongSeveral(d) ==
  Len(d.ops) > 1 /\ \E i \in DOMAIN d.ops : d.ops[i].name = ""

Parse ==
  /\ pc = "parse"
  /\ \/ /\ \/ doc.source # "ok"
           \/ doc.ops = <<>>
           \/ UnnamedAmongSeveral(doc)
        /\ pc' = "rejected"
        /\ UNCHANGED info
     \/ /\ doc.source = "ok" /\ doc.ops # <<>> /\ ~UnnamedAmongSeveral(doc)
        /\ pc' = "operation"
        /\ info' = [NewInfo EXCEPT !.batchSize = Len(doc.ops),
                                   !.queryHash = Hash,
                                   !.fragmentCount = Cardinality(DOMAIN doc.frags)]
  /\ UNCHANGED <<doc, op, walkVars>>

\* Mutant: the visited set is made once, for all operations.
MutNewVisited == visited

NewVisited == {}

BeginOperation ==
  LET o == doc.ops[op] IN
  /\ pc = "operation"
  /\ cur' = [NewInfo EXCEPT !.operationName = o.name,
                            !.operationType = o.type,
                            !.operationDirectives = o.dirs,
                            !.variableCount = o.vars,
                            !.hasDefaultVariables = o.defaults]
  /\ todo' = Pending(<<"op", op>>, <<>>, 0)
  /\ visited' = NewVisited
  /\ visits' = 0
  /\ pc' = "walk"
  /\ UNCHANGED <<doc, op, info>>

\* The next selection of the walk.
Item == Head(todo)
Sel == doc.sels[Item.sel]

Visit(kind) ==
  /\ pc = "walk" /\ todo # <<>>
  /\ Sel.kind = kind
  /\ visits' = visits + 1
  /\ UNCHANGED <<doc, pc, op, info>>

\* Mutant: only the paths of leaves are recorded.
MutRecordPath(path) ==
  IF Pending(<<"sel", Item.sel>>, path, 0) = <<>> THEN Append(cur.fieldPaths, path)
                                                  ELSE cur.fieldPaths

RecordPath(path) == Append(cur.fieldPaths, path)

\* A field goes by its response key.
VisitField ==
  LET path == Append(Item.prefix, Sel.alias)
      newDepth == Item.depth + 1
  IN /\ Visit("field")
     /\ cur' = [cur EXCEPT
          !.fieldCount = @ + 1,
          !.directives = @ + Sel.dirs,
          !.argumentDepth = Max({@} \cup {measureValueDepth[<<v, 1>>] : v \in Sel.args}),
          !.listsRequested = @ + (IF Plural(Sel.alias) THEN 1 ELSE 0),
          !.fieldPaths = RecordPath(path),
          !.depth = Larger(newDepth, @)]
     /\ todo' = Pending(<<"sel", Item.sel>>, path, newDepth) \o Tail(todo)
     /\ UNCHANGED visited

\* Mutant: the directives on a fragment are not counted.
MutCountFragment == [cur EXCEPT !.fragmentSpreadCount = @ + 1]

\* What both kinds of fragment add.
CountFragment == [cur EXCEPT !.fragmentSpreadCount = @ + 1, !.directives = @ + Sel.dirs]

\* The inline fragment in hand has a type condition.
Conditioned == <<"sel", Item.sel>> \in DOMAIN doc.conds

VisitInline ==
  /\ Visit("inline")
  /\ cur' = [CountFragment EXCEPT
               !.inlineFragmentTypesCount = @ + (IF Conditioned THEN 1 ELSE 0)]
  /\ todo' = Pending(<<"sel", Item.sel>>, Item.prefix, Item.depth) \o Tail(todo)
  /\ UNCHANGED visited

\* Mutant: a fragment is not marked when it is entered.
MutEntered(name) == visited

Entered(name) == visited \cup {name}

\* A fragment is entered once; a name without a definition has no selections.
VisitSpread ==
  /\ Visit("spread")
  /\ cur' = CountFragment
  /\ \/ /\ Sel.name \in visited
        /\ todo' = Tail(todo)
        /\ UNCHANGED visited
     \/ /\ Sel.name \notin visited
        /\ visited' = Entered(Sel.name)
        /\ todo' = Pending(<<"frag", Sel.name>>, Item.prefix, Item.depth) \o Tail(todo)

\* The directives on the fragment definitions count for every operation.
FragmentDirectives(d) == MapThenSumSet(LAMBDA f : d.frags[f], DOMAIN d.frags)

\* The first operation names the result; of every measure it has the largest.
Aggregate(total, one) ==
  [f \in DOMAIN total |->
     CASE f \in Measures -> Larger(one[f], total[f])
       [] f \in {"operationName", "operationType"} ->
            IF total[f] = "" THEN one[f] ELSE total[f]
       [] f = "hasDefaultVariables" -> total[f] \/ one[f]
       [] f = "fieldPaths" -> total[f] \o one[f]
       [] OTHER -> total[f]]

\* Mutant: the loop runs one operation too far.
MutMoreOperations == op <= Len(doc.ops)

MoreOperations == op < Len(doc.ops)

EndOperation ==
  /\ pc = "walk" /\ todo = <<>>
  /\ cur' = [cur EXCEPT !.directives = @ + FragmentDirectives(doc)]
  /\ info' = Aggregate(info, cur')
  /\ IF MoreOperations THEN op' = op + 1 /\ pc' = "operation"
                      ELSE op' = op /\ pc' = "parsed"
  /\ UNCHANGED <<doc, todo, visited, visits>>

ParserInit ==
  /\ doc \in Docs
  /\ pc = "parse"
  /\ op = 1
  /\ todo = <<>>
  /\ visited = {}
  /\ cur = NewInfo
  /\ info = NewInfo
  /\ visits = 0

ParserNext ==
  \/ Parse \/ BeginOperation
  \/ VisitField \/ VisitInline \/ VisitSpread
  \/ EndOperation

-----------------------------------------------------------------------------
(* What the analysis should find, defined on the document.                 *)

\* The selections n expands to directly.
Below(d, n) ==
  LET s == d.sels[n]
  IN Range(SelectionSet(d, IF s.kind = "spread" THEN <<"frag", s.name>> ELSE <<"sel", n>>))

Top(d, o) == Range(SelectionSet(d, <<"op", o>>))

\* R holds the top selections of operation o and what any of its own expand to.
Closed(d, o, R) == Top(d, o) \subseteq R /\ \A n \in R : Below(d, n) \subseteq R

\* The selections operation o of document d reaches, through fragments or not:
\* the smallest such set.
Reached(d, o) ==
  {n \in Sels(d) : \A R \in SUBSET Sels(d) : Closed(d, o, R) => n \in R}

\* Those of one of these kinds, and the fields among them that ask for a list.
OfKind(d, o, kinds) == {n \in Reached(d, o) : d.sels[n].kind \in kinds}
ListFields(d, o) == {n \in OfKind(d, o, {"field"}) : Plural(d.sels[n].alias)}

\* The path of response keys down to selection n, which stands below a path: a
\* fragment adds nothing to it.
PathAt(d, n, above) ==
  IF d.sels[n].kind = "field" THEN Append(above, d.sels[n].alias) ELSE above

\* The selections that are k or fewer steps below the top of operation o, every
\* spread expanded where it stands, each with a path it stands below.
Expansion(d, o, k) ==
  LET expand[j \in Nat] ==
        IF j = 0 THEN {<<n, <<>>>> : n \in Top(d, o)}
        ELSE LET e == expand[j - 1] IN
             e \cup UNION {{<<m, PathAt(d, x[1], x[2])>> : m \in Below(d, x[1])} : x \in e}
  IN expand[k]

\* The paths at which operation o requests fields; expansions of a cycle stop at
\* the number of selections.
Requested(d, o) ==
  {PathAt(d, x[1], x[2]) :
     x \in {x \in Expansion(d, o, Len(d.sels)) : d.sels[x[1]].kind = "field"}}

\* The document with every field under its own name; a document without aliases
\* is not changed by it.
Unalias(d) ==
  [d EXCEPT !.sels = [n \in DOMAIN d.sels |-> [d.sels[n] EXCEPT !.alias = d.sels[n].name]]]

Unaliased(d) == Unalias(d) = d

\* The paths of the fields that operation o requests of the upstream.
FieldPaths(d, o) == Requested(Unalias(d), o)

\* The values at nesting level k of the arguments of the selections ns.
ValuesAt(d, ns, k) ==
  LET level[j \in Nat] ==
        IF j = 0 THEN UNION {d.sels[n].args : n \in ns}
        ELSE UNION {ValueChildren[v] : v \in level[j - 1]}
  IN level[k - 1]

\* No fragment is spread at two places that operation o reaches.
SpreadOnce(d, o) ==
  \A m, n \in Reached(d, o) :
    (/\ d.sels[m].kind = "spread" /\ d.sels[n].kind = "spread"
     /\ d.sels[m].name = d.sels[n].name) => m = n

Recorded == {cur.fieldPaths[i] : i \in DOMAIN cur.fieldPaths}

\* The walk of the operation in hand is over and its results are in cur.
OperationWalked == pc = "walk" /\ todo = <<>>

ParserTypeOK ==
  /\ pc \in {"parse", "rejected", "operation", "walk", "parsed"}
  /\ op \in 1..Larger(1, Len(doc.ops))
  /\ \A i \in DOMAIN todo : /\ todo[i].sel \in Sels(doc)
                            /\ Len(todo[i].prefix) = todo[i].depth
  /\ visited \subseteq {doc.sels[n].name : n \in Sels(doc)}
  /\ \A m \in Measures : cur[m] \in Nat /\ info[m] \in Nat

\* The work for one operation is bounded by the size of the document, whatever
\* its fragments do: a fragment that spreads itself is entered once (the
\* visited set of walkSelections).  So parsing terminates.
LinearWork == visits <= Len(doc.sels)

\* Each operation is charged for every selection it reaches, once: the visited
\* set neither skips a fragment nor lets one count twice, and what one
\* operation has visited does not excuse the next (walkSelections, called once
\* per operation by parseGraphQL).
EverySelectionCountedOnce ==
  OperationWalked =>
    /\ cur.fieldCount = Cardinality(OfKind(doc, op, {"field"}))
    /\ cur.fragmentSpreadCount = Cardinality(OfKind(doc, op, {"inline", "spread"}))
    /\ cur.listsRequested = Cardinality(ListFields(doc, op))

\* So are its directives, and its arguments are as deep as the deepest it reaches
\* (walkSelections, measureValueDepth).
WeightsAreCounted ==
  OperationWalked =>
    /\ cur.directives = MapThenSumSet(LAMBDA n : doc.sels[n].dirs, Reached(doc, op))
    /\ cur.argumentDepth =
         Cardinality({k \in 1..Cardinality(Values) :
                        ValuesAt(doc, OfKind(doc, op, {"field"}), k) # {}})

\* The recorded paths are the paths of response keys at which the operation
\* requests a field, and all of them if no fragment is spread twice
\* (walkSelections).
PathsAreRequested ==
  OperationWalked =>
    /\ Recorded \subseteq Requested(doc, op)
    /\ SpreadOnce(doc, op) => Recorded = Requested(doc, op)

\* Every path of the result r stands after its parent's, and the depth is their
\* greatest length.
Rooted(r) ==
  /\ r.depth = Max({0} \cup {Len(r.fieldPaths[i]) : i \in DOMAIN r.fieldPaths})
  /\ \A i \in DOMAIN r.fieldPaths :
       LET p == r.fieldPaths[i] IN
       Len(p) > 1 => \E j \in 1..(i - 1) : r.fieldPaths[j] = SubSeq(p, 1, Len(p) - 1)

\* A field is recorded only below fields that are, for one operation and for all
\* together: a policy that forbids a path forbids all that is requested below
\* it; and the depth is that of the paths, through fragments and over the
\* operations (walkSelections, parseGraphQL).
PathsHaveParents == Rooted(cur) /\ Rooted(info)

=============================================================================
