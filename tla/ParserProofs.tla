---------------------------- MODULE ParserProofs ----------------------------
(***************************************************************************)
(* The walk of the parser, for every document: the work for one operation  *)
(* is bounded by the size of the document, and an operation is charged for *)
(* exactly the selections it reaches, each once.                           *)
(*                                                                         *)
(* The inductive invariant says that the walk is in the middle of a search *)
(* of the document: there is a set S of selections that have been visited, *)
(* the stack holds the frontier, S and the frontier are disjoint, closed   *)
(* under expansion but for the frontier, and within every closed set; and  *)
(* the counters are the cardinalities of parts of S, the sums and depths   *)
(* those of S, and the recorded paths those of its fields.                 *)
(***************************************************************************)
EXTENDS Inspection, SequenceTheorems, FiniteSetTheorems, Induction, TLAPS

\* The entries of the stack, and the selections in a stack t.
Paths(d) == Seq({d.sels[n].alias : n \in Sels(d)})
Work(d) == [sel : Sels(d), prefix : Paths(d), depth : Nat]
Waiting(t) == {t[i].sel : i \in DOMAIN t}

NoneTwice(t) == \A i, j \in DOMAIN t : t[i].sel = t[j].sel => i = j

\* The owners whose selections have been put on the stack.
Opened(o, v, S) ==
  {<<"op", o>>} \cup {<<"frag", f>> : f \in v} \cup {<<"sel", n>> : n \in S}

Stands(d, n, x) == n \in Range(SelectionSet(d, x))

\* The search of operation o with S visited, the stack t and the fragments v
\* entered.
StackInv(d, t, S) ==
  /\ t \in Seq(Work(d))
  /\ NoneTwice(t)
  /\ S \cap Waiting(t) = {}

OwnersInv(d, o, t, v, S) ==
  /\ \A n \in S \cup Waiting(t) : \E x \in Opened(o, v, S) : Stands(d, n, x)
  /\ Top(d, o) \subseteq S \cup Waiting(t)
  /\ \A f \in v : Range(SelectionSet(d, <<"frag", f>>)) \subseteq S \cup Waiting(t)
  /\ \A n \in S : Below(d, n) \subseteq S \cup Waiting(t)

MinimalInv(d, o, t, S) ==
  \A R \in SUBSET Sels(d) : Closed(d, o, R) => S \cup Waiting(t) \subseteq R

SearchInv(d, o, t, v, S) ==
  /\ StackInv(d, t, S)
  /\ OwnersInv(d, o, t, v, S)
  /\ MinimalInv(d, o, t, S)

\* The selections of S that are of one of these kinds, and the plural fields.
Those(d, S, kinds) == {n \in S : d.sels[n].kind \in kinds}
Lists(d, S) == {n \in Those(d, S, {"field"}) : Plural(d.sels[n].alias)}

CountInv(d, c, S) ==
  /\ {"fieldCount", "fragmentSpreadCount", "listsRequested"} \subseteq DOMAIN c
  /\ c.fieldCount = Cardinality(Those(d, S, {"field"}))
  /\ c.fragmentSpreadCount = Cardinality(Those(d, S, {"inline", "spread"}))
  /\ c.listsRequested = Cardinality(Lists(d, S))

\* The values of the arguments of the selections ns, and their greatest depth.
ArgsOf(d, ns) == UNION {d.sels[n].args : n \in ns}
Depths(d, ns) == {measureValueDepth[<<v, 1>>] : v \in ArgsOf(d, ns)}
Deepest(d, ns) == Max({0} \cup Depths(d, ns))

DirsOf(d, S) == MapThenSumSet(LAMBDA n : d.sels[n].dirs, S)

WeightInv(d, c, S) ==
  /\ {"directives", "argumentDepth"} \subseteq DOMAIN c
  /\ c.directives = DirsOf(d, S)
  /\ c.argumentDepth = Deepest(d, Those(d, S, {"field"}))

\* The paths of the fields among S, at gives what is above them.
PathsOf(d, at, S) == {PathAt(d, n, at[n]) : n \in Those(d, S, {"field"})}

\* at gives the path above each selection of the search; ps are the recorded
\* paths.  Every one of them is found in k steps, and where each fragment is
\* spread once, a selection's path is the one its owner has.
PlacedBy(d, o, t, v, ps, S, k, at) ==
  /\ \A i \in DOMAIN t : t[i].prefix = at[t[i].sel]
  /\ Range(ps) = PathsOf(d, at, S)
  /\ \A n \in S \cup Waiting(t) : <<n, at[n]>> \in Expansion(d, o, k)
  /\ \A n \in Top(d, o) : at[n] = <<>>
  /\ \A f \in v : \E n \in S : d.sels[n].kind = "spread" /\ d.sels[n].name = f
  /\ SpreadOnce(d, o) => \A n \in S : \A m \in Below(d, n) : at[m] = PathAt(d, n, at[n])

PlaceInv(d, o, t, v, ps, S, k) ==
  /\ ps \in Seq(Paths(d))
  /\ \E at \in [Sels(d) -> Paths(d)] : PlacedBy(d, o, t, v, ps, S, k, at)

WalkInv ==
  \E S \in SUBSET Sels(doc) :
    /\ visits = Cardinality(S)
    /\ SearchInv(doc, op, todo, visited, S)
    /\ CountInv(doc, cur, S)
    /\ WeightInv(doc, cur, S)
    /\ {"fieldPaths"} \subseteq DOMAIN cur
    /\ PlaceInv(doc, op, todo, visited, cur.fieldPaths, S, visits)

ParserInv ==
  /\ doc \in Docs
  /\ visits \in Nat /\ visits <= Len(doc.sels)
  /\ pc = "walk" => WalkInv

-----------------------------------------------------------------------------
(* The stack.                                                              *)

\* A stack without its top.
LEMMA Popped ==
  ASSUME NEW d, NEW t \in Seq(Work(d)), t # <<>>, NoneTwice(t)
  PROVE  /\ Head(t) \in Work(d)
         /\ Head(t).sel \in Waiting(t)
         /\ Tail(t) \in Seq(Work(d))
         /\ NoneTwice(Tail(t))
         /\ Waiting(Tail(t)) = Waiting(t) \ {Head(t).sel}
<1> DEFINE u == Tail(t)
<1>1. /\ Head(t) \in Work(d) /\ u \in Seq(Work(d)) /\ Len(u) = Len(t) - 1
      /\ \A i \in 1..Len(u) : u[i] = t[i + 1]
  BY HeadTailProperties
<1>2. Len(t) \in Nat /\ Len(t) > 0 /\ DOMAIN t = 1..Len(t) /\ DOMAIN u = 1..Len(u)
      /\ Head(t) = t[1]
  BY <1>1
<1> HIDE DEF u
<1>3. \A i \in 1..Len(u) : i + 1 \in 1..Len(t) /\ i + 1 # 1 /\ u[i] = t[i + 1]
  BY <1>1, <1>2
<1>4. NoneTwice(u)
  <2> SUFFICES ASSUME NEW i \in 1..Len(u), NEW j \in 1..Len(u), u[i].sel = u[j].sel
               PROVE  i = j
    BY <1>2 DEF NoneTwice
  <2>1. i + 1 = j + 1
    BY <1>2, <1>3 DEF NoneTwice
  <2> QED BY <2>1
<1>5. Head(t).sel \in Waiting(t)
  BY <1>2 DEF Waiting
<1>6. Waiting(u) \subseteq Waiting(t) \ {Head(t).sel}
  BY <1>2, <1>3 DEF Waiting, NoneTwice
<1>7. Waiting(t) \ {Head(t).sel} \subseteq Waiting(u)
  <2> SUFFICES ASSUME NEW k \in 1..Len(t), t[k].sel # t[1].sel
               PROVE  t[k].sel \in Waiting(u)
    BY <1>2 DEF Waiting
  <2>1. k # 1
    OBVIOUS
  <2>2. k - 1 \in 1..Len(u) /\ u[k - 1] = t[k]
    BY <1>1, <1>2, <2>1
  <2> QED BY <1>2, <2>2 DEF Waiting
<1> QED BY <1>1, <1>4, <1>5, <1>6, <1>7 DEF u

\* Two stacks with nothing in common, one on the other.
LEMMA Stacked ==
  ASSUME NEW d, NEW q \in Seq(Work(d)), NEW t \in Seq(Work(d)),
         NoneTwice(q), NoneTwice(t), Waiting(q) \cap Waiting(t) = {}
  PROVE  /\ q \o t \in Seq(Work(d))
         /\ NoneTwice(q \o t)
         /\ Waiting(q \o t) = Waiting(q) \cup Waiting(t)
<1> DEFINE u == q \o t
<1>1. /\ u \in Seq(Work(d))
      /\ Len(u) = Len(q) + Len(t)
      /\ \A i \in 1..Len(u) : u[i] = IF i <= Len(q) THEN q[i] ELSE t[i - Len(q)]
  BY ConcatProperties
<1>2. /\ Len(q) \in Nat /\ Len(t) \in Nat
      /\ DOMAIN q = 1..Len(q) /\ DOMAIN t = 1..Len(t) /\ DOMAIN u = 1..Len(u)
  BY <1>1
<1> HIDE DEF u
<1>3. \A i \in 1..Len(u) : \/ i \in 1..Len(q) /\ u[i] = q[i]
                           \/ i - Len(q) \in 1..Len(t) /\ u[i] = t[i - Len(q)]
  BY <1>1, <1>2
<1>4. \A i \in 1..Len(q) : i \in 1..Len(u) /\ u[i] = q[i]
  BY <1>1, <1>2
<1>5. \A i \in 1..Len(t) : i + Len(q) \in 1..Len(u) /\ u[i + Len(q)] = t[i]
  BY <1>1, <1>2
<1>6. Waiting(u) \subseteq Waiting(q) \cup Waiting(t)
  BY <1>2, <1>3 DEF Waiting
<1>7. Waiting(q) \cup Waiting(t) \subseteq Waiting(u)
  <2>1. Waiting(q) \subseteq Waiting(u)
    BY <1>2, <1>4 DEF Waiting
  <2>2. Waiting(t) \subseteq Waiting(u)
    BY <1>2, <1>5 DEF Waiting
  <2> QED BY <2>1, <2>2
<1>8. NoneTwice(u)
  <2> SUFFICES ASSUME NEW i \in 1..Len(u), NEW j \in 1..Len(u), u[i].sel = u[j].sel
               PROVE  i = j
    BY <1>2 DEF NoneTwice
  <2>1. \A k \in 1..Len(q), l \in 1..Len(t) : q[k].sel # t[l].sel
    BY <1>2 DEF Waiting
  <2>2. CASE i \in 1..Len(q) /\ u[i] = q[i]
    <3>1. j \in 1..Len(q) /\ u[j] = q[j]
      BY <1>3, <2>1, <2>2
    <3> QED BY <1>2, <2>2, <3>1 DEF NoneTwice
  <2>3. CASE i - Len(q) \in 1..Len(t) /\ u[i] = t[i - Len(q)]
    <3>1. j - Len(q) \in 1..Len(t) /\ u[j] = t[j - Len(q)]
      BY <1>2, <1>3, <2>1, <2>3
    <3>2. i - Len(q) = j - Len(q)
      BY <1>2, <2>3, <3>1 DEF NoneTwice
    <3> QED BY <1>2, <3>2
  <2> QED BY <1>3, <2>2, <2>3
<1> QED BY <1>1, <1>6, <1>7, <1>8 DEF u

LEMMA SelectionSetTyped ==
  ASSUME NEW d \in Docs, NEW x
  PROVE  SelectionSet(d, x) \in Seq(Sels(d))
<1>1. CASE x \in DOMAIN d.sets
  <2>1. d.sets[x] \in Seq(DOMAIN d.sels)
    BY <1>1, DocAssumption
  <2> QED BY <1>1, <2>1 DEF SelectionSet, Sels
<1>2. CASE x \notin DOMAIN d.sets
  BY <1>2 DEF SelectionSet
<1> QED BY <1>1, <1>2

\* A selection stands in the selection set of one owner.
LEMMA OneOwner ==
  ASSUME NEW d \in Docs, NEW n, NEW x, NEW y, Stands(d, n, x), Stands(d, n, y)
  PROVE  x = y
<1>1. x \in DOMAIN d.sets /\ y \in DOMAIN d.sets
  BY DEF Stands, SelectionSet, Range
<1>2. PICK i \in DOMAIN d.sets[x] : n = d.sets[x][i]
  BY <1>1 DEF Stands, SelectionSet, Range
<1>3. PICK j \in DOMAIN d.sets[y] : n = d.sets[y][j]
  BY <1>1 DEF Stands, SelectionSet, Range
<1> QED BY <1>1, <1>2, <1>3, DocAssumption

\* The selection set of an owner as a stack.
LEMMA PendingStack ==
  ASSUME doc \in Docs, NEW x,
         NEW prefix \in Paths(doc), NEW depth \in Nat
  PROVE  /\ Pending(x, prefix, depth) \in Seq(Work(doc))
         /\ NoneTwice(Pending(x, prefix, depth))
         /\ Waiting(Pending(x, prefix, depth)) = Range(SelectionSet(doc, x))
<1> DEFINE mine == SelectionSet(doc, x)
           q == Pending(x, prefix, depth)
<1>1. mine \in Seq(Sels(doc))
  BY SelectionSetTyped
<1>2. \A i, j \in DOMAIN mine : mine[i] = mine[j] => i = j
  <2>1. CASE x \in DOMAIN doc.sets
    <3>1. mine = doc.sets[x]
      BY <2>1 DEF SelectionSet
    <3>2. \A i \in DOMAIN doc.sets[x], j \in DOMAIN doc.sets[x] :
            doc.sets[x][i] = doc.sets[x][j] => i = j
      BY <2>1, DocAssumption
    <3> QED BY <3>1, <3>2
  <2>2. CASE x \notin DOMAIN doc.sets
    BY <2>2 DEF SelectionSet
  <2> QED BY <2>1, <2>2
<1>3. q = [i \in DOMAIN mine |-> [sel |-> mine[i], prefix |-> prefix, depth |-> depth]]
  BY DEF Pending
<1> HIDE DEF mine
<1>4. DOMAIN mine = 1..Len(mine) /\ Len(mine) \in Nat
      /\ \A i \in DOMAIN mine : mine[i] \in Sels(doc)
  BY <1>1
<1>5. \A i \in 1..Len(mine) : q[i] \in Work(doc) /\ q[i].sel = mine[i]
  BY <1>3, <1>4 DEF Work
<1>6. DOMAIN q = 1..Len(mine) /\ q = [i \in 1..Len(mine) |-> q[i]]
  BY <1>3, <1>4
<1> HIDE DEF q
<1>7. q \in Seq(Work(doc))
  BY <1>4, <1>5, <1>6
<1>8. NoneTwice(q)
  BY <1>2, <1>4, <1>5, <1>6 DEF NoneTwice
<1>9. Waiting(q) = Range(mine)
  BY <1>4, <1>5, <1>6 DEF Waiting, Range
<1> QED BY <1>7, <1>8, <1>9 DEF q, mine

-----------------------------------------------------------------------------
(* The search.                                                             *)

\* An operation begins with its own selections.
LEMMA Started ==
  ASSUME NEW d \in Docs, NEW o, NEW q \in Seq(Work(d)), NoneTwice(q),
         Waiting(q) = Range(SelectionSet(d, <<"op", o>>))
  PROVE  SearchInv(d, o, q, {}, {})
<1>1. StackInv(d, q, {})
  BY DEF StackInv
<1>2. OwnersInv(d, o, q, {}, {})
  BY DEF OwnersInv, Opened, Stands, Top
<1>3. MinimalInv(d, o, q, {})
  BY DEF MinimalInv, Closed, Top
<1> QED BY <1>1, <1>2, <1>3 DEF SearchInv

\* The selection on top is visited, and what it expands to is put on the stack:
\* the selection set of an owner x that was not opened before.
LEMMA Expanded ==
  ASSUME NEW d \in Docs, NEW o, NEW t, NEW v, NEW S \in SUBSET Sels(d),
         SearchInv(d, o, t, v, S), t # <<>>,
         NEW x, x \notin Opened(o, v, S),
         NEW q \in Seq(Work(d)), NoneTwice(q),
         Waiting(q) = Range(SelectionSet(d, x)),
         Below(d, Head(t).sel) = Waiting(q),
         NEW w, v \subseteq w, \A f \in w \ v : x = <<"frag", f>>,
         x \in Opened(o, w, S \cup {Head(t).sel})
  PROVE  SearchInv(d, o, q \o Tail(t), w, S \cup {Head(t).sel})
<1> DEFINE n == Head(t).sel
           u == q \o Tail(t)
           T == S \cup {n}
<1>1. t \in Seq(Work(d)) /\ NoneTwice(t) /\ S \cap Waiting(t) = {}
  BY DEF SearchInv, StackInv
<1>2. /\ n \in Waiting(t)
      /\ Tail(t) \in Seq(Work(d)) /\ NoneTwice(Tail(t))
      /\ Waiting(Tail(t)) = Waiting(t) \ {n}
  BY <1>1, Popped
<1>3. OwnersInv(d, o, t, v, S) /\ MinimalInv(d, o, t, S)
  BY DEF SearchInv
<1>4. \A m \in Waiting(q) : m \notin S \cup Waiting(t)
  <2> SUFFICES ASSUME NEW m \in Waiting(q), m \in S \cup Waiting(t)
               PROVE  FALSE
    OBVIOUS
  <2>1. PICK y \in Opened(o, v, S) : Stands(d, m, y)
    BY <1>3 DEF OwnersInv
  <2>2. Stands(d, m, x)
    BY DEF Stands
  <2> QED BY <2>1, <2>2, OneOwner
<1> HIDE DEF n
<1>5. u \in Seq(Work(d)) /\ NoneTwice(u) /\ Waiting(u) = Waiting(q) \cup Waiting(Tail(t))
  <2>1. Waiting(q) \cap Waiting(Tail(t)) = {}
    BY <1>2, <1>4
  <2> DEFINE r == Tail(t)
  <2>2. r \in Seq(Work(d)) /\ NoneTwice(r) /\ Waiting(q) \cap Waiting(r) = {}
    BY <1>2, <2>1
  <2>3. u = q \o r
    OBVIOUS
  <2> HIDE DEF r, u
  <2>4. u \in Seq(Work(d)) /\ NoneTwice(u) /\ Waiting(u) = Waiting(q) \cup Waiting(r)
    BY <2>2, <2>3, Stacked
  <2> QED BY <2>4 DEF r
<1> HIDE DEF u
<1>6. T \cup Waiting(u) = S \cup Waiting(t) \cup Waiting(q)
  BY <1>2, <1>5
<1>7. StackInv(d, u, T)
  BY <1>1, <1>2, <1>4, <1>5 DEF StackInv
<1>8. OwnersInv(d, o, u, w, T)
  <2>1. \A m \in T \cup Waiting(u) : \E y \in Opened(o, w, T) : Stands(d, m, y)
    <3> SUFFICES ASSUME NEW m \in S \cup Waiting(t) \cup Waiting(q)
                 PROVE  \E y \in Opened(o, w, T) : Stands(d, m, y)
      BY <1>6
    <3>1. Opened(o, v, S) \subseteq Opened(o, w, T)
      BY DEF Opened
    <3>2. CASE m \in S \cup Waiting(t)
      <4>1. PICK y \in Opened(o, v, S) : Stands(d, m, y)
        BY <1>3, <3>2 DEF OwnersInv
      <4> QED BY <3>1, <4>1
    <3>3. CASE m \in Waiting(q)
      <4>1. Stands(d, m, x) /\ x \in Opened(o, w, T)
        BY <3>3 DEF Stands, n
      <4> QED BY <4>1
    <3> QED BY <3>2, <3>3
  <2>2. Top(d, o) \subseteq T \cup Waiting(u)
    BY <1>3, <1>6 DEF OwnersInv
  <2>3. \A f \in w : Range(SelectionSet(d, <<"frag", f>>)) \subseteq T \cup Waiting(u)
    <3> SUFFICES ASSUME NEW f \in w
                 PROVE  Range(SelectionSet(d, <<"frag", f>>)) \subseteq T \cup Waiting(u)
      OBVIOUS
    <3>1. CASE f \in v
      BY <1>3, <1>6, <3>1 DEF OwnersInv
    <3>2. CASE f \notin v
      BY <1>6, <3>2
    <3> QED BY <3>1, <3>2
  <2>4. \A m \in T : Below(d, m) \subseteq T \cup Waiting(u)
    BY <1>3, <1>6 DEF OwnersInv, n
  <2> QED BY <2>1, <2>2, <2>3, <2>4 DEF OwnersInv
<1>9. MinimalInv(d, o, u, T)
  <2> SUFFICES ASSUME NEW R \in SUBSET Sels(d), Closed(d, o, R)
               PROVE  S \cup Waiting(t) \cup Waiting(q) \subseteq R
    BY <1>6 DEF MinimalInv
  <2>1. S \cup Waiting(t) \subseteq R
    BY <1>3 DEF MinimalInv
  <2>2. Below(d, n) \subseteq R
    BY <1>2, <2>1 DEF Closed
  <2> QED BY <2>1, <2>2 DEF n
<1> QED BY <1>7, <1>8, <1>9 DEF SearchInv, u, n

\* The selection on top is visited and adds nothing: it spreads a fragment that
\* was entered before.
LEMMA Skipped ==
  ASSUME NEW d \in Docs, NEW o, NEW t, NEW v, NEW S \in SUBSET Sels(d),
         SearchInv(d, o, t, v, S), t # <<>>,
         Below(d, Head(t).sel) \subseteq S \cup Waiting(t)
  PROVE  SearchInv(d, o, Tail(t), v, S \cup {Head(t).sel})
<1> DEFINE n == Head(t).sel
           T == S \cup {n}
<1>1. t \in Seq(Work(d)) /\ NoneTwice(t) /\ S \cap Waiting(t) = {}
  BY DEF SearchInv, StackInv
<1>2. /\ n \in Waiting(t)
      /\ Tail(t) \in Seq(Work(d)) /\ NoneTwice(Tail(t))
      /\ Waiting(Tail(t)) = Waiting(t) \ {n}
  BY <1>1, Popped
<1>3. OwnersInv(d, o, t, v, S) /\ MinimalInv(d, o, t, S)
  BY DEF SearchInv
<1>4. Below(d, n) \subseteq S \cup Waiting(t)
  OBVIOUS
<1> HIDE DEF n
<1>5. T \cup Waiting(Tail(t)) = S \cup Waiting(t)
  BY <1>2
<1>6. StackInv(d, Tail(t), T)
  BY <1>1, <1>2 DEF StackInv
<1>7. OwnersInv(d, o, Tail(t), v, T)
  <2>1. Opened(o, v, S) \subseteq Opened(o, v, T)
    BY DEF Opened
  <2>2. \A m \in S \cup Waiting(t) : \E y \in Opened(o, v, T) : Stands(d, m, y)
    BY <1>3, <2>1 DEF OwnersInv
  <2> QED BY <1>3, <1>4, <1>5, <2>2 DEF OwnersInv
<1>8. MinimalInv(d, o, Tail(t), T)
  BY <1>3, <1>5 DEF MinimalInv
<1> QED BY <1>6, <1>7, <1>8 DEF SearchInv, n

\* When the stack is empty, what was visited is what the operation reaches.
LEMMA Finished ==
  ASSUME NEW d \in Docs, NEW o, NEW v, NEW S \in SUBSET Sels(d),
         SearchInv(d, o, <<>>, v, S)
  PROVE  S = Reached(d, o)
<1>1. Waiting(<<>>) = {}
  BY DEF Waiting
<1>2. Closed(d, o, S)
  BY <1>1 DEF SearchInv, OwnersInv, Closed
<1>3. \A R \in SUBSET Sels(d) : Closed(d, o, R) => S \subseteq R
  BY <1>1 DEF SearchInv, MinimalInv
<1> QED BY <1>2, <1>3 DEF Reached

\* The selections of a document are finitely many.
LEMMA FiniteSelections ==
  ASSUME NEW d \in Docs, NEW S \in SUBSET Sels(d)
  PROVE  IsFiniteSet(S) /\ Cardinality(S) \in Nat /\ Cardinality(S) <= Len(d.sels)
<1>1. Len(d.sels) \in Nat /\ Sels(d) = 1..Len(d.sels)
  BY DocAssumption DEF Sels
<1>2. IsFiniteSet(1..Len(d.sels)) /\ Cardinality(1..Len(d.sels)) = Len(d.sels)
  BY <1>1, FS_Interval
<1>3. IsFiniteSet(S) /\ Cardinality(S) <= Len(d.sels)
  BY <1>1, <1>2, FS_Subset
<1> QED BY <1>3, FS_CardinalityType

-----------------------------------------------------------------------------
(* The argument values.                                                    *)

\* How many levels of values there are below v, and that this is what
\* measureValueDepth adds to the depth it is given.
IsHeight(g) ==
  /\ \A v \in Values : g[v] < Cardinality(Values)
  /\ \A v \in Values : \A c \in ValueChildren[v] : g[c] < g[v]
  /\ \A v \in Values : g[v] > 0 => \E c \in ValueChildren[v] : g[c] = g[v] - 1
  /\ \A v \in Values : \A k \in Nat : measureValueDepth[<<v, k>>] = k + g[v]

\* A function that is one more than its greatest value on the children exists.
LEMMA LevelsExist ==
  \E g \in [Values -> Nat] :
    /\ \A v \in Values : g[v] < Cardinality(Values)
    /\ \A v \in Values : \A c \in ValueChildren[v] : g[c] + 1 <= g[v]
    /\ \A v \in Values : g[v] > 0 => \E c \in ValueChildren[v] : g[c] + 1 = g[v]
<1> DEFINE N == Cardinality(Values)
<1>1. N \in Nat
  BY ValueAssumption, FS_CardinalityType
<1>2. PICK h \in [Values -> 0..(N - 1)] :
        \A v \in Values : \A c \in ValueChildren[v] : h[c] < h[v]
  BY ValueAssumption
<1>3. h \in [Values -> Nat] /\ \A v \in Values : h[v] < N
  BY <1>1, <1>2
<1> DEFINE X == Values
           G == UNION {[Y -> Nat] : Y \in SUBSET X}
           Over(v, f) == {0} \cup {f[c] + 1 : c \in ValueChildren[v]}
           step == [p \in X \X G |-> Max(Over(p[1], p[2]))]
<1>4. \A v \in X : ValueChildren[v] \subseteq Lower(X, h, v) /\ Lower(X, h, v) \in SUBSET X
  BY <1>2, ValueAssumption DEF Lower
<1>5. ASSUME NEW v \in X, NEW f \in [Lower(X, h, v) -> Nat]
      PROVE  /\ f \in G /\ step[<<v, f>>] = Max(Over(v, f))
             /\ Max(Over(v, f)) \in Over(v, f) /\ Max(Over(v, f)) \in Nat
             /\ \A x \in Over(v, f) : x <= Max(Over(v, f))
  <2>1. f \in G
    BY <1>4, <1>5
  <2>2. IsFiniteSet(ValueChildren[v])
    BY ValueAssumption, FS_Subset
  <2>3. IsFiniteSet({f[c] + 1 : c \in ValueChildren[v]})
    <3> DEFINE e == [c \in ValueChildren[v] |-> f[c] + 1]
    <3>1. IsFiniteSet({e[c] : c \in ValueChildren[v]})
      <4> HIDE DEF e
      <4> QED BY <2>2, FiniteImage
    <3>2. {e[c] : c \in ValueChildren[v]} = {f[c] + 1 : c \in ValueChildren[v]}
      OBVIOUS
    <3> QED BY <3>1, <3>2
  <2>4. IsFiniteSet(Over(v, f))
    BY <2>3, FS_Singleton, FS_Union
  <2>5. Over(v, f) \in SUBSET Nat /\ Over(v, f) # {}
    BY <1>4, <1>5
  <2>6. step[<<v, f>>] = Max(Over(v, f))
    BY <2>1
  <2> DEFINE O == Over(v, f)
  <2> HIDE DEF O
  <2>7. Max(O) \in O /\ Max(O) \in Nat /\ \A x \in O : x <= Max(O)
    BY <2>4, <2>5, MaxOfFinite DEF O
  <2> QED BY <2>1, <2>6, <2>7 DEF O
<1> HIDE DEF step
<1>6. PICK g \in [X -> Nat] : Solves(X, h, step, g, X)
  <2>1. \A v \in X : \A f \in [Lower(X, h, v) -> Nat] : step[<<v, f>>] \in Nat
    BY <1>5
  <2> HIDE DEF X
  <2> QED BY <1>3, <2>1, RankRecursion DEF X
<1>7. ASSUME NEW v \in X
      PROVE  g[v] \in Over(v, g) /\ g[v] \in Nat /\ \A x \in Over(v, g) : x <= g[v]
  <2> DEFINE f == Restricted(X, h, v, g)
  <2>1. f \in [Lower(X, h, v) -> Nat] /\ \A c \in ValueChildren[v] : f[c] = g[c]
    BY <1>4, <1>6 DEF Restricted
  <2>2. g[v] = step[<<v, f>>]
    BY <1>6 DEF Solves
  <2> HIDE DEF f
  <2>3. Over(v, f) = Over(v, g)
    BY <2>1
  <2> HIDE DEF Over
  <2> QED BY <1>5, <2>1, <2>2, <2>3
<1>8. /\ \A v \in X : \A c \in ValueChildren[v] : g[c] + 1 <= g[v]
      /\ \A v \in X : g[v] > 0 => \E c \in ValueChildren[v] : g[c] + 1 = g[v]
  <2>1. ASSUME NEW v \in X, NEW c \in ValueChildren[v]
        PROVE  g[c] + 1 <= g[v]
    <3>1. g[c] + 1 \in Over(v, g)
      OBVIOUS
    <3> HIDE DEF Over
    <3> QED BY <1>7, <3>1
  <2>2. ASSUME NEW v \in X, g[v] > 0
        PROVE  \E c \in ValueChildren[v] : g[c] + 1 = g[v]
    <3>1. g[v] \in Over(v, g) /\ g[v] # 0
      BY <1>7, <2>2
    <3> QED BY <3>1
  <2> QED BY <2>1, <2>2
<1>9. \A v \in X : g[v] <= h[v]
  <2> DEFINE T == {v \in X : g[v] <= h[v]}
  <2>1. ASSUME NEW v \in X, Lower(X, h, v) \subseteq T
        PROVE  v \in T
    <3>1. CASE g[v] > 0
      <4>1. PICK c \in ValueChildren[v] : g[c] + 1 = g[v]
        BY <1>8, <3>1
      <4>2. c \in X /\ h[c] < h[v] /\ g[c] <= h[c]
        BY <1>2, <1>4, <2>1
      <4>3. h[c] \in Nat /\ h[v] \in Nat /\ g[c] \in Nat
        BY <1>3, <4>2
      <4> QED BY <4>1, <4>2, <4>3
    <3>2. CASE ~(g[v] > 0)
      <4>1. g[v] \in Nat /\ h[v] \in Nat
        BY <1>3
      <4> QED BY <3>2, <4>1
    <3> QED BY <3>1, <3>2
  <2>2. X \subseteq T
    <3> HIDE DEF T, X
    <3> QED BY <1>3, <2>1, RankInduction DEF X
  <2> QED BY <2>2
<1>10. \A v \in X : g[v] < N
  <2> SUFFICES ASSUME NEW v \in X PROVE g[v] < N
    OBVIOUS
  <2>1. g[v] \in Nat /\ h[v] \in Nat /\ h[v] < N /\ g[v] <= h[v]
    BY <1>3, <1>9
  <2> QED BY <1>1, <2>1
<1> QED BY <1>6, <1>8, <1>10

\* It is what measureValueDepth adds.
LEMMA Heights == \E g \in [Values -> Nat] : IsHeight(g)
<1>1. PICK g \in [Values -> Nat] :
        /\ \A v \in Values : g[v] < Cardinality(Values)
        /\ \A v \in Values : \A c \in ValueChildren[v] : g[c] + 1 <= g[v]
        /\ \A v \in Values : g[v] > 0 => \E c \in ValueChildren[v] : g[c] + 1 = g[v]
  BY LevelsExist
<1>2. \A v \in Values : \A c \in ValueChildren[v] : c \in Values /\ g[c] \in Nat
  BY ValueAssumption
<1> DEFINE At(v, k, f) == {k} \cup {f[<<c, k + 1>>] : c \in ValueChildren[v]}
           M == [x \in Values \X Nat |-> x[2] + g[x[1]]]
           mvd == measureValueDepth
<1>3. ASSUME NEW v \in Values, NEW k \in Nat, NEW f,
             \A c \in ValueChildren[v] : f[<<c, k + 1>>] = k + 1 + g[c]
      PROVE  Max(At(v, k, f)) = k + g[v]
  <2> DEFINE A == At(v, k, f)
  <2>1. A = {k} \cup {k + 1 + g[c] : c \in ValueChildren[v]}
    BY <1>3
  <2>2. A \in SUBSET Nat
    <3>1. \A c \in ValueChildren[v] : k + 1 + g[c] \in Nat
      BY <1>2
    <3> HIDE DEF A
    <3> QED BY <2>1, <3>1
  <2>3. g[v] \in Nat
    OBVIOUS
  <2> HIDE DEF A
  <2>4. \A x \in A : x <= k + g[v]
    <3> SUFFICES ASSUME NEW x \in A PROVE x <= k + g[v]
      OBVIOUS
    <3>1. CASE x = k
      BY <2>3, <3>1
    <3>2. ASSUME NEW c \in ValueChildren[v], x = k + 1 + g[c]
          PROVE  x <= k + g[v]
      <4>1. g[c] \in Nat /\ g[c] + 1 <= g[v]
        BY <1>1, <1>2
      <4> QED BY <2>3, <3>2, <4>1
    <3> QED BY <2>1, <3>1, <3>2
  <2>5. k + g[v] \in A
    <3>1. CASE g[v] > 0
      <4>1. PICK c \in ValueChildren[v] : g[c] + 1 = g[v]
        BY <1>1, <3>1
      <4>2. k + g[v] = k + 1 + g[c]
        BY <1>2, <2>3, <4>1
      <4> QED BY <2>1, <4>2
    <3>2. CASE ~(g[v] > 0)
      <4>1. k + g[v] = k
        BY <2>3, <3>2
      <4> QED BY <2>1, <4>1
    <3> QED BY <3>1, <3>2
  <2> QED BY <2>2, <2>4, <2>5, MaxIs DEF A
<1>4. M = [x \in Values \X Nat |-> Max(At(x[1], x[2], M))]
  <2>1. \A v \in Values, k \in Nat : M[<<v, k>>] = k + g[v]
    OBVIOUS
  <2> DEFINE R == [x \in Values \X Nat |-> Max(At(x[1], x[2], M))]
  <2>2. \A v \in Values, k \in Nat : Max(At(v, k, M)) = k + g[v]
    <3> HIDE DEF M
    <3> SUFFICES ASSUME NEW v \in Values, NEW k \in Nat PROVE Max(At(v, k, M)) = k + g[v]
      OBVIOUS
    <3>1. \A c \in ValueChildren[v] : M[<<c, k + 1>>] = k + 1 + g[c]
      BY <1>2, <2>1
    <3> HIDE DEF At
    <3> QED BY <1>3, <3>1
  <2> HIDE DEF At
  <2>3. \A x \in Values \X Nat : Max(At(x[1], x[2], M)) = x[2] + g[x[1]]
    BY <2>2
  <2>4. R = [x \in Values \X Nat |-> x[2] + g[x[1]]]
    BY <2>3
  <2> QED BY <2>4
<1> HIDE DEF M
<1>5. mvd = [x \in Values \X Nat |-> Max(At(x[1], x[2], mvd))]
  <2> DEFINE Q(f) == f = [x \in Values \X Nat |-> Max(At(x[1], x[2], f))]
  <2>1. Q(M)
    BY <1>4
  <2>2. mvd = CHOOSE f : Q(f)
    BY DEF measureValueDepth
  <2> HIDE DEF Q
  <2>3. Q(mvd)
    BY <2>1, <2>2
  <2> QED BY <2>3 DEF Q
<1> HIDE DEF mvd
<1>6. \A v \in Values, k \in Nat : mvd[<<v, k>>] = Max(At(v, k, mvd))
  <2> DEFINE R == [x \in Values \X Nat |-> Max(At(x[1], x[2], mvd))]
  <2> HIDE DEF At
  <2>1. mvd = R
    BY <1>5
  <2>2. \A v \in Values, k \in Nat : R[<<v, k>>] = Max(At(v, k, mvd))
    OBVIOUS
  <2> HIDE DEF R
  <2> QED BY <2>1, <2>2
<1> DEFINE T == {v \in Values : \A k \in Nat : mvd[<<v, k>>] = k + g[v]}
<1>7. ASSUME NEW v \in Values, Lower(Values, g, v) \subseteq T
      PROVE  v \in T
  <2> SUFFICES ASSUME NEW k \in Nat PROVE mvd[<<v, k>>] = k + g[v]
    OBVIOUS
  <2>1. \A c \in ValueChildren[v] : c \in Lower(Values, g, v)
    BY <1>1, <1>2 DEF Lower
  <2>2. \A c \in ValueChildren[v] : mvd[<<c, k + 1>>] = k + 1 + g[c]
    BY <1>7, <2>1
  <2> HIDE DEF At
  <2> QED BY <1>3, <1>6, <2>2
<1>8. Values \subseteq T
  <2> HIDE DEF T
  <2> QED BY <1>7, RankInduction
<1>9. IsHeight(g)
  BY <1>1, <1>2, <1>8 DEF IsHeight, mvd
<1> QED BY <1>9

\* The levels below the arguments, one after the other.
LEMMA Levels ==
  ASSUME NEW d \in Docs, NEW ns \in SUBSET Sels(d)
  PROVE  /\ ArgsOf(d, ns) \in SUBSET Values
         /\ ValuesAt(d, ns, 1) = ArgsOf(d, ns)
         /\ \A k \in Nat \ {0} :
              /\ ValuesAt(d, ns, k) \in SUBSET Values
              /\ ValuesAt(d, ns, k + 1) =
                   UNION {ValueChildren[v] : v \in ValuesAt(d, ns, k)}
<1> DEFINE A == ArgsOf(d, ns)
           Down(W) == UNION {ValueChildren[v] : v \in W}
<1>1. A \in SUBSET Values
  BY WeightAssumption DEF ArgsOf, Sels
<1>2. \A W \in SUBSET Values : Down(W) \in SUBSET Values
  BY ValueAssumption
<1> DEFINE V == SUBSET Values
           next == [W \in V |-> Down(W)]
<1> HIDE DEF A, Down
<1>3. PICK f \in [Nat -> V] : f[0] = A /\ \A k \in Nat : f[k + 1] = next[f[k]]
  <2>1. next \in [V -> V] /\ A \in V
    BY <1>1, <1>2
  <2> HIDE DEF next, V
  <2> QED BY <2>1, NatRecursion
<1> HIDE DEF V
<1>4. \A k \in Nat : f[k] = IF k = 0 THEN A ELSE Down(f[k - 1])
  <2> SUFFICES ASSUME NEW k \in Nat PROVE f[k] = IF k = 0 THEN A ELSE Down(f[k - 1])
    OBVIOUS
  <2>1. CASE k = 0
    BY <1>3, <2>1
  <2>2. CASE k # 0
    <3>1. k - 1 \in Nat /\ (k - 1) + 1 = k
      BY <2>2
    <3>2. f[k - 1] \in V /\ f[k] = next[f[k - 1]]
      BY <1>3, <3>1
    <3> QED BY <2>2, <3>2
  <2> QED BY <2>1, <2>2
<1> DEFINE level[j \in Nat] ==
             IF j = 0 THEN UNION {d.sels[n].args : n \in ns}
             ELSE UNION {ValueChildren[v] : v \in level[j - 1]}
<1>5. \A k : ValuesAt(d, ns, k) = level[k - 1]
  BY DEF ValuesAt
<1> DEFINE Q(e) == e = [j \in Nat |-> IF j = 0 THEN A ELSE Down(e[j - 1])]
<1>6. Q(level)
  <2>1. Q(f)
    BY <1>4
  <2>2. level = CHOOSE e : Q(e)
    BY DEF A, ArgsOf, Down
  <2> HIDE DEF Q
  <2> QED BY <2>1, <2>2
<1> HIDE DEF level
<1>7. \A k \in Nat : level[k] = IF k = 0 THEN A ELSE Down(level[k - 1])
  <2> DEFINE e == [j \in Nat |-> IF j = 0 THEN A ELSE Down(level[j - 1])]
  <2>1. level = e
    BY <1>6
  <2>2. \A k \in Nat : e[k] = IF k = 0 THEN A ELSE Down(level[k - 1])
    OBVIOUS
  <2> HIDE DEF e
  <2> QED BY <2>1, <2>2
<1> DEFINE T == {k \in Nat : level[k] \in V}
<1>8. 0 \in T /\ \A k \in Nat : k \in T => k + 1 \in T
  <2>1. 0 \in T
    BY <1>1, <1>7 DEF V
  <2>2. ASSUME NEW k \in Nat, k \in T
        PROVE  k + 1 \in T
    <3>1. level[k + 1] = Down(level[k])
      BY <1>7
    <3> QED BY <1>2, <2>2, <3>1 DEF V
  <2> QED BY <2>1, <2>2
<1>9. Nat \subseteq T
  <2> HIDE DEF T
  <2> QED BY <1>8, NatInduct
<1>10. ValuesAt(d, ns, 1) = A
  BY <1>5, <1>7
<1>11. ASSUME NEW k \in Nat \ {0}
       PROVE  /\ ValuesAt(d, ns, k) \in V
              /\ ValuesAt(d, ns, k + 1) = Down(ValuesAt(d, ns, k))
  <2>1. ValuesAt(d, ns, k) = level[k - 1] /\ k - 1 \in Nat
    BY <1>5
  <2>2. ValuesAt(d, ns, k + 1) = level[k] /\ level[k] = Down(level[k - 1])
    BY <1>5, <1>7
  <2> QED BY <1>9, <2>1, <2>2
<1> QED BY <1>1, <1>10, <1>11 DEF A, Down, V

\* There is a value at a level if an argument is deep enough.
LEMMA LevelReached ==
  ASSUME NEW d \in Docs, NEW ns \in SUBSET Sels(d), NEW g \in [Values -> Nat], IsHeight(g),
         NEW k \in Nat \ {0}
  PROVE  ValuesAt(d, ns, k) # {} <=> \E v \in ArgsOf(d, ns) : g[v] >= k - 1
<1> DEFINE V(j) == ValuesAt(d, ns, j)
           A == ArgsOf(d, ns)
           P(j) == \A m \in Nat : (\E v \in V(j) : g[v] >= m) <=>
                                  (\E v \in A : g[v] >= m + (j - 1))
           T == {j \in Nat : P(j + 1)}
<1>1. /\ A \in SUBSET Values /\ V(1) = A
      /\ \A j \in Nat \ {0} : /\ V(j) \in SUBSET Values
                              /\ V(j + 1) = UNION {ValueChildren[v] : v \in V(j)}
  BY Levels
<1> HIDE DEF V, A
<1>2. /\ \A v \in Values : \A c \in ValueChildren[v] : c \in Values /\ g[c] < g[v]
      /\ \A v \in Values : g[v] > 0 => \E c \in ValueChildren[v] : g[c] = g[v] - 1
  BY ValueAssumption DEF IsHeight
<1>3. P(1)
  BY <1>1
<1>4. ASSUME NEW j \in Nat \ {0}, P(j)
      PROVE  P(j + 1)
  <2> SUFFICES ASSUME NEW m \in Nat
               PROVE  (\E u \in V(j + 1) : g[u] >= m) <=>
                      (\E v \in A : g[v] >= m + ((j + 1) - 1))
    OBVIOUS
  <2>1. (\E v \in V(j) : g[v] >= m + 1) <=> (\E v \in A : g[v] >= (m + 1) + (j - 1))
    BY <1>4
  <2>2. (m + 1) + (j - 1) = m + ((j + 1) - 1)
    OBVIOUS
  <2>3. ASSUME NEW u \in V(j + 1), g[u] >= m
        PROVE  \E v \in V(j) : g[v] >= m + 1
    <3>1. PICK v \in V(j) : u \in ValueChildren[v]
      BY <1>1
    <3>2. v \in Values /\ u \in Values /\ g[u] < g[v]
      BY <1>1, <1>2, <3>1
    <3>3. g[v] \in Nat /\ g[u] \in Nat
      BY <3>2
    <3> QED BY <2>3, <3>2, <3>3
  <2>4. ASSUME NEW v \in V(j), g[v] >= m + 1
        PROVE  \E u \in V(j + 1) : g[u] >= m
    <3>1. v \in Values /\ g[v] \in Nat
      BY <1>1
    <3>2. PICK c \in ValueChildren[v] : g[c] = g[v] - 1
      BY <1>2, <2>4, <3>1
    <3>3. c \in V(j + 1)
      BY <1>1, <3>2
    <3> QED BY <2>4, <3>1, <3>2, <3>3
  <2> QED BY <2>1, <2>2, <2>3, <2>4
<1>5. 0 \in T /\ \A j \in Nat : j \in T => j + 1 \in T
  <2> HIDE DEF P
  <2>1. 0 + 1 = 1 /\ 0 \in T
    BY <1>3
  <2>2. ASSUME NEW j \in Nat, j \in T PROVE j + 1 \in T
    <3>1. j + 1 \in Nat \ {0} /\ P(j + 1)
      BY <2>2
    <3> QED BY <1>4, <3>1
  <2> QED BY <2>1, <2>2
<1>6. P(k)
  <2> HIDE DEF P
  <2>1. Nat \subseteq T
    <3> HIDE DEF T
    <3> QED BY <1>5, NatInduct
  <2>2. k - 1 \in T /\ (k - 1) + 1 = k
    BY <2>1
  <2> QED BY <2>2
<1>7. (\E v \in V(k) : g[v] >= 0) <=> (\E v \in A : g[v] >= 0 + (k - 1))
  BY <1>6
<1>8. \A v \in V(k) : g[v] >= 0
  BY <1>1
<1>9. 0 + (k - 1) = k - 1
  OBVIOUS
<1> QED BY <1>7, <1>8, <1>9 DEF V, A

\* The greatest depth of arguments is the number of levels that have a value.
LEMMA DeepestIsLevels ==
  ASSUME NEW d \in Docs, NEW ns \in SUBSET Sels(d)
  PROVE  /\ Depths(d, ns) \in SUBSET Nat
         /\ Deepest(d, ns) \in {0} \cup Depths(d, ns)
         /\ Deepest(d, ns) \in Nat
         /\ \A x \in Depths(d, ns) : x <= Deepest(d, ns)
         /\ {k \in 1..Cardinality(Values) : ValuesAt(d, ns, k) # {}} = 1..Deepest(d, ns)
<1>1. PICK g \in [Values -> Nat] : IsHeight(g)
  BY Heights
<1> DEFINE N == Cardinality(Values)
           A == ArgsOf(d, ns)
           D == Depths(d, ns)
           m == Deepest(d, ns)
<1>2. A \in SUBSET Values /\ N \in Nat
  BY Levels, ValueAssumption, FS_CardinalityType
<1>3. D = {g[v] + 1 : v \in A}
  <2>1. \A v \in A : measureValueDepth[<<v, 1>>] = g[v] + 1
    BY <1>1, <1>2 DEF IsHeight
  <2> QED BY <2>1 DEF Depths
<1>4. \A v \in A : g[v] \in Nat /\ g[v] + 1 <= N
  BY <1>1, <1>2 DEF IsHeight
<1> HIDE DEF N, A, D, m
<1>5. D \in SUBSET Nat /\ \A x \in D : x <= N
  BY <1>3, <1>4
<1> DEFINE E == {0} \cup D
<1>6. E \in SUBSET Nat /\ E # {} /\ \A x \in E : x <= N
  BY <1>2, <1>5
<1>7. m = Max(E)
  BY DEF m, D, Deepest
<1> HIDE DEF E
<1>8. m \in E /\ m \in Nat /\ \A x \in E : x <= m
  BY <1>2, <1>6, <1>7, MaxOfBounded
<1>9. m \in {0} \cup D /\ (\A x \in D : x <= m) /\ m <= N
  BY <1>6, <1>8 DEF E
<1>10. \A k \in 1..N : ValuesAt(d, ns, k) # {} <=> k \in 1..m
  <2> SUFFICES ASSUME NEW k \in 1..N PROVE ValuesAt(d, ns, k) # {} <=> k \in 1..m
    OBVIOUS
  <2>1. k \in Nat \ {0}
    BY <1>2
  <2>2. ValuesAt(d, ns, k) # {} <=> \E v \in A : g[v] >= k - 1
    BY <1>1, <2>1, LevelReached DEF A
  <2>3. ASSUME NEW v \in A, g[v] >= k - 1 PROVE k \in 1..m
    <3>1. g[v] + 1 <= m /\ g[v] \in Nat
      BY <1>3, <1>4, <1>9
    <3> QED BY <1>8, <2>1, <2>3, <3>1
  <2>4. ASSUME k \in 1..m PROVE \E v \in A : g[v] >= k - 1
    <3>1. m # 0
      BY <1>8, <2>4
    <3>2. PICK v \in A : m = g[v] + 1
      BY <1>3, <1>9, <3>1
    <3> QED BY <1>4, <2>1, <2>4, <3>2
  <2> QED BY <2>2, <2>3, <2>4
<1>11. {k \in 1..N : ValuesAt(d, ns, k) # {}} = 1..m
  <2>1. \A k \in 1..m : k \in 1..N
    BY <1>2, <1>8, <1>9
  <2> QED BY <1>10, <2>1
<1> QED BY <1>5, <1>8, <1>9, <1>11 DEF N, D, m

\* One more selection.
LEMMA DeepestWith ==
  ASSUME NEW d \in Docs, NEW ns \in SUBSET Sels(d), NEW n \in Sels(d)
  PROVE  Deepest(d, ns \cup {n}) =
           Max({Deepest(d, ns)} \cup {measureValueDepth[<<v, 1>>] : v \in d.sels[n].args})
<1> DEFINE A == Depths(d, ns)
           B == {measureValueDepth[<<v, 1>>] : v \in d.sels[n].args}
           m == Deepest(d, ns)
           both == ns \cup {n}
           M == Deepest(d, both)
<1>1. A \in SUBSET Nat /\ m \in {0} \cup A /\ m \in Nat /\ \A x \in A : x <= m
  BY DeepestIsLevels
<1>2. both \in SUBSET Sels(d)
  OBVIOUS
<1>3. /\ Depths(d, both) \in SUBSET Nat /\ M \in {0} \cup Depths(d, both) /\ M \in Nat
      /\ \A x \in Depths(d, both) : x <= M
  <2> HIDE DEF both
  <2> QED BY <1>2, DeepestIsLevels
<1>4. Depths(d, both) = A \cup B
  BY DEF Depths, ArgsOf
<1> HIDE DEF A, B, m, M
<1>5. {m} \cup B \in SUBSET Nat
  BY <1>1, <1>3, <1>4
<1>6. \A x \in {m} \cup B : x <= M
  BY <1>1, <1>3, <1>4
<1>7. M \in {m} \cup B
  <2>1. CASE M \in B
    BY <2>1
  <2>2. CASE M \notin B
    <3>1. M <= m
      BY <1>1, <1>3, <1>4, <2>2
    <3>2. m <= M
      BY <1>6
    <3>3. M = m
      BY <1>1, <1>3, <3>1, <3>2
    <3> QED BY <3>3
  <2> QED BY <2>1, <2>2
<1>8. Max({m} \cup B) = M
  <2> DEFINE E == {m} \cup B
  <2>1. E \in SUBSET Nat /\ M \in E /\ \A x \in E : x <= M
    BY <1>5, <1>6, <1>7
  <2> HIDE DEF E
  <2>2. Max(E) = M
    BY <2>1, MaxIs
  <2> QED BY <2>2 DEF E
<1> QED BY <1>8 DEF m, M, B

-----------------------------------------------------------------------------
(* The directives.                                                         *)

\* MapThenSumSet over selections, as a function that takes one after the other away.
LEMMA DirsTakenAway ==
  ASSUME NEW d \in Docs, NEW S \in SUBSET Sels(d), NEW w,
         w = [n \in Sels(d) |-> d.sels[n].dirs]
  PROVE  /\ IsFiniteSet(S) /\ \A n \in S : w[n] \in Nat
         /\ \E f : TakingAway(w, S, f) /\ DirsOf(d, S) = f[S]
<1>1. IsFiniteSet(S)
  BY FiniteSelections
<1>2. \A n \in Sels(d) : w[n] = d.sels[n].dirs /\ w[n] \in Nat
  BY WeightAssumption DEF Sels
<1>3. PICK g : TakingAway(w, S, g)
  BY <1>1, <1>2, SumExists
<1> DEFINE iter[s \in SUBSET S] ==
             IF s = {} THEN 0
             ELSE LET x == CHOOSE x \in s : TRUE IN d.sels[x].dirs + iter[s \ {x}]
<1>4. DirsOf(d, S) = iter[S]
  BY DEF DirsOf, MapThenSumSet, MapThenFoldSet
<1> DEFINE Q(f) == f = [s \in SUBSET S |->
                          IF s = {} THEN 0 ELSE d.sels[Pick(s)].dirs + f[s \ {Pick(s)}]]
<1>5. \A s \in SUBSET S : s # {} => w[Pick(s)] = d.sels[Pick(s)].dirs
  BY <1>2 DEF Pick
<1>6. \A f : Q(f) <=> TakingAway(w, S, f)
  <2> SUFFICES ASSUME NEW f PROVE Q(f) <=> TakingAway(w, S, f)
    OBVIOUS
  <2>1. [s \in SUBSET S |-> IF s = {} THEN 0 ELSE d.sels[Pick(s)].dirs + f[s \ {Pick(s)}]]
        = [s \in SUBSET S |-> IF s = {} THEN 0 ELSE w[Pick(s)] + f[s \ {Pick(s)}]]
    BY <1>5
  <2> QED BY <2>1 DEF TakingAway
<1>7. iter = CHOOSE f : Q(f)
  BY DEF Pick
<1> HIDE DEF Q, iter
<1>8. TakingAway(w, S, iter)
  BY <1>3, <1>6, <1>7
<1> QED BY <1>1, <1>2, <1>4, <1>8

LEMMA DirsSum ==
  ASSUME NEW d \in Docs, NEW S \in SUBSET Sels(d)
  PROVE  DirsOf(d, S) \in Nat /\ (S = {} => DirsOf(d, S) = 0)
<1> DEFINE w == [n \in Sels(d) |-> d.sels[n].dirs]
<1> HIDE DEF w
<1>1. /\ IsFiniteSet(S) /\ \A n \in S : w[n] \in Nat
      /\ \E f : TakingAway(w, S, f) /\ DirsOf(d, S) = f[S]
  BY DirsTakenAway DEF w
<1>2. PICK f : TakingAway(w, S, f) /\ DirsOf(d, S) = f[S]
  BY <1>1
<1>3. f[S] \in Nat
  BY <1>1, <1>2, SumTyped
<1>4. S = {} => f[S] = 0
  BY <1>2, SumUnfold
<1> QED BY <1>2, <1>3, <1>4

LEMMA DirsWith ==
  ASSUME NEW d \in Docs, NEW S \in SUBSET Sels(d), NEW n \in Sels(d), n \notin S
  PROVE  DirsOf(d, S \cup {n}) = DirsOf(d, S) + d.sels[n].dirs
<1> DEFINE w == [m \in Sels(d) |-> d.sels[m].dirs]
           T == S \cup {n}
<1>1. w[n] = d.sels[n].dirs /\ d.sels[n].dirs \in Nat
  BY WeightAssumption DEF Sels
<1>2. T \in SUBSET Sels(d) /\ S \in SUBSET T /\ n \in T /\ T \in SUBSET T /\ T \ {n} = S
  OBVIOUS
<1> HIDE DEF w, T
<1>3. PICK g : TakingAway(w, S, g) /\ DirsOf(d, S) = g[S]
  BY DirsTakenAway DEF w
<1>4. /\ IsFiniteSet(T) /\ \A m \in T : w[m] \in Nat
      /\ \E f : TakingAway(w, T, f) /\ DirsOf(d, T) = f[T]
  BY <1>2, DirsTakenAway DEF w
<1>5. PICK f : TakingAway(w, T, f) /\ DirsOf(d, T) = f[T]
  BY <1>4
<1>6. f[T] = w[n] + f[S]
  BY <1>2, <1>4, <1>5, SumRemove
<1>7. f[S] = g[S]
  BY <1>2, <1>3, <1>4, <1>5, SumWithin
<1>8. DirsOf(d, S) \in Nat
  BY DirsSum
<1> QED BY <1>1, <1>3, <1>5, <1>6, <1>7, <1>8 DEF T

LEMMA FragmentDirectivesTyped ==
  ASSUME NEW d \in Docs
  PROVE  FragmentDirectives(d) \in Nat
<1> DEFINE F == DOMAIN d.frags
           w == d.frags
<1>1. IsFiniteSet(F) /\ \A x \in F : w[x] \in Nat
  BY WeightAssumption
<1>2. PICK g : TakingAway(w, F, g)
  BY <1>1, SumExists
<1> DEFINE iter[s \in SUBSET F] ==
             IF s = {} THEN 0
             ELSE LET x == CHOOSE x \in s : TRUE IN w[x] + iter[s \ {x}]
<1>3. FragmentDirectives(d) = iter[F]
  BY DEF FragmentDirectives, MapThenSumSet, MapThenFoldSet
<1>4. iter = CHOOSE f : TakingAway(w, F, f)
  BY DEF TakingAway, Pick
<1> HIDE DEF iter, w, F
<1>5. TakingAway(w, F, iter)
  BY <1>2, <1>4
<1>6. iter[F] \in Nat
  BY <1>1, <1>5, SumTyped
<1> QED BY <1>3, <1>6

-----------------------------------------------------------------------------
(* The counters.                                                           *)

\* One more selection in a part of a set counts once.
LEMMA OneMore ==
  ASSUME NEW d \in Docs, NEW S \in SUBSET Sels(d), NEW n \in Sels(d), n \notin S
  PROVE  /\ Cardinality(S \cup {n}) = Cardinality(S) + 1
         /\ \A K : Cardinality(Those(d, S \cup {n}, K)) =
                   Cardinality(Those(d, S, K)) + IF d.sels[n].kind \in K THEN 1 ELSE 0
         /\ Cardinality(Lists(d, S \cup {n})) =
              Cardinality(Lists(d, S))
                + IF d.sels[n].kind = "field" /\ Plural(d.sels[n].alias) THEN 1 ELSE 0
<1>1. Cardinality(S \cup {n}) = Cardinality(S) + 1
  BY FiniteSelections, FS_AddElement
<1>2. ASSUME NEW K
      PROVE  Cardinality(Those(d, S \cup {n}, K)) =
               Cardinality(Those(d, S, K)) + IF d.sels[n].kind \in K THEN 1 ELSE 0
  <2>1. Those(d, S, K) \in SUBSET Sels(d) /\ n \notin Those(d, S, K)
    BY DEF Those
  <2>2. IsFiniteSet(Those(d, S, K)) /\ Cardinality(Those(d, S, K)) \in Nat
    BY <2>1, FiniteSelections
  <2>3. CASE d.sels[n].kind \in K
    <3>1. Those(d, S \cup {n}, K) = Those(d, S, K) \cup {n}
      BY <2>3 DEF Those
    <3> QED BY <2>1, <2>2, <2>3, <3>1, FS_AddElement
  <2>4. CASE d.sels[n].kind \notin K
    <3>1. Those(d, S \cup {n}, K) = Those(d, S, K)
      BY <2>4 DEF Those
    <3> QED BY <2>2, <2>4, <3>1
  <2> QED BY <2>3, <2>4
<1>3. Cardinality(Lists(d, S \cup {n})) =
        Cardinality(Lists(d, S))
          + IF d.sels[n].kind = "field" /\ Plural(d.sels[n].alias) THEN 1 ELSE 0
  <2>1. Lists(d, S) \in SUBSET Sels(d) /\ n \notin Lists(d, S)
    BY DEF Lists, Those
  <2>2. IsFiniteSet(Lists(d, S)) /\ Cardinality(Lists(d, S)) \in Nat
    BY <2>1, FiniteSelections
  <2>3. CASE d.sels[n].kind = "field" /\ Plural(d.sels[n].alias)
    <3>1. Lists(d, S \cup {n}) = Lists(d, S) \cup {n}
      BY <2>3 DEF Lists, Those
    <3> QED BY <2>1, <2>2, <2>3, <3>1, FS_AddElement
  <2>4. CASE ~(d.sels[n].kind = "field" /\ Plural(d.sels[n].alias))
    <3>1. Lists(d, S \cup {n}) = Lists(d, S)
      BY <2>4 DEF Lists, Those
    <3> QED BY <2>2, <2>4, <3>1
  <2> QED BY <2>3, <2>4
<1> QED BY <1>1, <1>2, <1>3

\* The counters of an operation that begins.
LEMMA NothingCounted ==
  ASSUME NEW d, BeginOperation
  PROVE  CountInv(d, cur', {})
<1>1. /\ {"fieldCount", "fragmentSpreadCount", "listsRequested"} \subseteq DOMAIN cur'
      /\ cur'.fieldCount = 0 /\ cur'.fragmentSpreadCount = 0 /\ cur'.listsRequested = 0
  BY DEF BeginOperation, NewInfo
<1>2. Those(d, {}, {"field"}) = {} /\ Those(d, {}, {"inline", "spread"}) = {}
      /\ Lists(d, {}) = {}
  BY DEF Those, Lists
<1> QED BY <1>1, <1>2, FS_EmptySet DEF CountInv

\* A visit counts the selection on top.
LEMMA CountedStep ==
  ASSUME doc \in Docs, NEW S \in SUBSET Sels(doc), CountInv(doc, cur, S),
         Item.sel \in Sels(doc), Item.sel \notin S,
         VisitField \/ VisitInline \/ VisitSpread
  PROVE  CountInv(doc, cur', S \cup {Item.sel})
<1> DEFINE n == Item.sel
           F == Cardinality(Those(doc, S, {"field"}))
           P == Cardinality(Those(doc, S, {"inline", "spread"}))
           L == Cardinality(Lists(doc, S))
<1>1. F \in Nat /\ P \in Nat /\ L \in Nat
  <2>1. /\ Those(doc, S, {"field"}) \in SUBSET Sels(doc)
        /\ Those(doc, S, {"inline", "spread"}) \in SUBSET Sels(doc)
        /\ Lists(doc, S) \in SUBSET Sels(doc)
    BY DEF Those, Lists
  <2> QED BY <2>1, FiniteSelections
<1>2. /\ Cardinality(Those(doc, S \cup {n}, {"field"})) =
           F + IF Sel.kind \in {"field"} THEN 1 ELSE 0
      /\ Cardinality(Those(doc, S \cup {n}, {"inline", "spread"})) =
           P + IF Sel.kind \in {"inline", "spread"} THEN 1 ELSE 0
      /\ Cardinality(Lists(doc, S \cup {n})) =
           L + IF Sel.kind = "field" /\ Plural(Sel.alias) THEN 1 ELSE 0
  <2>1. n \in Sels(doc) /\ n \notin S /\ Sel = doc.sels[n]
    BY DEF Sel
  <2>0. doc \in Docs /\ S \in SUBSET Sels(doc)
    OBVIOUS
  <2> HIDE DEF n, F, P, L
  <2>2. /\ \A K : Cardinality(Those(doc, S \cup {n}, K)) =
                 Cardinality(Those(doc, S, K)) + IF doc.sels[n].kind \in K THEN 1 ELSE 0
        /\ Cardinality(Lists(doc, S \cup {n})) =
             Cardinality(Lists(doc, S))
               + IF doc.sels[n].kind = "field" /\ Plural(doc.sels[n].alias) THEN 1 ELSE 0
    BY ONLY <2>0, <2>1, OneMore, ZenonT(40)
  <2> QED BY <2>1, <2>2 DEF F, P, L
<1>3. /\ {"fieldCount", "fragmentSpreadCount", "listsRequested"} \subseteq DOMAIN cur
      /\ cur.fieldCount = F /\ cur.fragmentSpreadCount = P /\ cur.listsRequested = L
  BY DEF CountInv
<1> HIDE DEF F, P, L, n
<1>4. CASE VisitField
  <2>1. Sel.kind = "field"
    BY <1>4 DEF VisitField, Visit
  <2>2. /\ DOMAIN cur' = DOMAIN cur
        /\ cur'.fieldCount = cur.fieldCount + 1
        /\ cur'.listsRequested = cur.listsRequested + (IF Plural(Sel.alias) THEN 1 ELSE 0)
        /\ cur'.fragmentSpreadCount = cur.fragmentSpreadCount
    BY <1>3, <1>4 DEF VisitField
  <2> QED BY <1>1, <1>2, <1>3, <2>1, <2>2 DEF CountInv, n
<1>5. CASE VisitInline \/ VisitSpread
  <2>1. Sel.kind \in {"inline", "spread"}
    BY <1>5 DEF VisitInline, VisitSpread, Visit
  <2>2. /\ DOMAIN cur' = DOMAIN cur
        /\ cur'.fieldCount = cur.fieldCount
        /\ cur'.listsRequested = cur.listsRequested
        /\ cur'.fragmentSpreadCount = cur.fragmentSpreadCount + 1
    BY <1>3, <1>5 DEF VisitInline, VisitSpread, CountFragment
  <2> QED BY <1>1, <1>2, <1>3, <2>1, <2>2 DEF CountInv, n
<1> QED BY <1>4, <1>5

LEMMA NothingWeighed ==
  ASSUME NEW d \in Docs, BeginOperation
  PROVE  WeightInv(d, cur', {})
<1>1. /\ {"directives", "argumentDepth"} \subseteq DOMAIN cur'
      /\ cur'.directives = 0 /\ cur'.argumentDepth = 0
  BY DEF BeginOperation, NewInfo
<1>2. DirsOf(d, {}) = 0
  BY DirsSum
<1>3. Those(d, {}, {"field"}) = {} /\ Depths(d, {}) = {}
  BY DEF Those, Depths, ArgsOf
<1>4. Deepest(d, {}) = 0
  BY <1>3, DeepestIsLevels
<1> QED BY <1>1, <1>2, <1>3, <1>4 DEF WeightInv

LEMMA WeighedStep ==
  ASSUME doc \in Docs, NEW S \in SUBSET Sels(doc), WeightInv(doc, cur, S),
         Item.sel \in Sels(doc), Item.sel \notin S,
         VisitField \/ VisitInline \/ VisitSpread
  PROVE  WeightInv(doc, cur', S \cup {Item.sel})
<1> DEFINE n == Item.sel
           F == Those(doc, S, {"field"})
           G == Those(doc, S \cup {n}, {"field"})
<1>1. /\ {"directives", "argumentDepth"} \subseteq DOMAIN cur
      /\ cur.directives = DirsOf(doc, S) /\ cur.argumentDepth = Deepest(doc, F)
  BY DEF WeightInv
<1>2. n \in Sels(doc) /\ n \notin S /\ Sel = doc.sels[n] /\ F \in SUBSET Sels(doc)
  BY DEF Sel, Those
<1>3. G = IF Sel.kind = "field" THEN F \cup {n} ELSE F
  BY <1>2 DEF Those
<1> HIDE DEF n, F, G
<1>4. DirsOf(doc, S \cup {n}) = DirsOf(doc, S) + Sel.dirs
  BY <1>2, DirsWith
<1>5. CASE VisitField
  <2>1. Sel.kind = "field"
    BY <1>5 DEF VisitField, Visit
  <2>2. /\ DOMAIN cur' = DOMAIN cur
        /\ cur'.directives = cur.directives + Sel.dirs
        /\ cur'.argumentDepth =
             Max({cur.argumentDepth} \cup {measureValueDepth[<<v, 1>>] : v \in Sel.args})
    BY <1>1, <1>5 DEF VisitField
  <2>3. cur'.argumentDepth = Deepest(doc, G)
    BY <1>1, <1>2, <1>3, <2>1, <2>2, DeepestWith
  <2> QED BY <1>1, <1>4, <2>2, <2>3 DEF WeightInv, n, G
<1>6. CASE VisitInline \/ VisitSpread
  <2>1. Sel.kind # "field"
    BY <1>6 DEF VisitInline, VisitSpread, Visit
  <2>2. /\ DOMAIN cur' = DOMAIN cur
        /\ cur'.directives = cur.directives + Sel.dirs
        /\ cur'.argumentDepth = cur.argumentDepth
    BY <1>1, <1>6 DEF VisitInline, VisitSpread, CountFragment
  <2> QED BY <1>1, <1>3, <1>4, <2>1, <2>2 DEF WeightInv, n, G
<1> QED BY <1>5, <1>6

-----------------------------------------------------------------------------
(* The places.                                                             *)

\* The expansions, one step after the other.
LEMMA Expansions ==
  ASSUME NEW d \in Docs, NEW o
  PROVE  /\ Expansion(d, o, 0) = {<<n, <<>>>> : n \in Top(d, o)}
         /\ \A k \in Nat :
              LET e == Expansion(d, o, k) IN
              /\ e \in SUBSET (Sels(d) \X Paths(d))
              /\ Expansion(d, o, k + 1) =
                   e \cup UNION {{<<m, PathAt(d, x[1], x[2])>> : m \in Below(d, x[1])} : x \in e}
<1> DEFINE A == {<<n, <<>>>> : n \in Top(d, o)}
           Down(e) == e \cup UNION {{<<m, PathAt(d, x[1], x[2])>> : m \in Below(d, x[1])} : x \in e}
           V == SUBSET (Sels(d) \X Paths(d))
           next == [e \in V |-> Down(e)]
<1>1. \A n \in Sels(d) : \A q \in Paths(d) : PathAt(d, n, q) \in Paths(d)
  BY DEF PathAt, Paths
<1>2. \A x : Range(SelectionSet(d, x)) \in SUBSET Sels(d)
  <2> SUFFICES ASSUME NEW x PROVE Range(SelectionSet(d, x)) \in SUBSET Sels(d)
    OBVIOUS
  <2>1. SelectionSet(d, x) \in Seq(Sels(d))
    BY SelectionSetTyped
  <2> QED BY <2>1 DEF Range
<1>3. Top(d, o) \in SUBSET Sels(d) /\ \A n : Below(d, n) \in SUBSET Sels(d)
  BY <1>2 DEF Top, Below
<1>4. A \in V
  <2>1. <<>> \in Paths(d)
    BY DEF Paths
  <2> QED BY <1>1, <1>3, <2>1
<1>5. ASSUME NEW e \in V PROVE Down(e) \in V
  <2> SUFFICES ASSUME NEW x \in e, NEW m \in Below(d, x[1])
               PROVE  <<m, PathAt(d, x[1], x[2])>> \in Sels(d) \X Paths(d)
    BY <1>5
  <2>1. m \in Sels(d) /\ x[1] \in Sels(d) /\ x[2] \in Paths(d)
    BY <1>3, <1>5
  <2> QED BY <1>1, <2>1
<1> HIDE DEF A, Down
<1>6. PICK f \in [Nat -> V] : f[0] = A /\ \A k \in Nat : f[k + 1] = next[f[k]]
  <2>1. next \in [V -> V] /\ A \in V
    BY <1>4, <1>5
  <2> HIDE DEF next, V
  <2>2. \A a \in V : \A g \in [V -> V] :
          \E f \in [Nat -> V] : f[0] = a /\ \A k \in Nat : f[k + 1] = g[f[k]]
    BY ONLY NatRecursion, SMTT(30)
  <2> QED BY ONLY <2>1, <2>2
<1> HIDE DEF V
<1>7. \A k \in Nat : f[k] = IF k = 0 THEN A ELSE Down(f[k - 1])
  <2> SUFFICES ASSUME NEW k \in Nat PROVE f[k] = IF k = 0 THEN A ELSE Down(f[k - 1])
    OBVIOUS
  <2>1. CASE k = 0
    BY <1>6, <2>1
  <2>2. CASE k # 0
    <3>1. k - 1 \in Nat /\ (k - 1) + 1 = k
      BY <2>2
    <3>2. f[k - 1] \in V /\ f[k] = next[f[k - 1]]
      BY <1>6, <3>1
    <3> QED BY <2>2, <3>2
  <2> QED BY <2>1, <2>2
<1> DEFINE expand[j \in Nat] ==
             IF j = 0 THEN {<<n, <<>>>> : n \in Top(d, o)}
             ELSE LET e == expand[j - 1] IN
                  e \cup UNION {{<<m, PathAt(d, x[1], x[2])>> : m \in Below(d, x[1])} : x \in e}
<1>8. \A k : Expansion(d, o, k) = expand[k]
  BY DEF Expansion
<1> DEFINE Q(g) == g = [j \in Nat |-> IF j = 0 THEN A ELSE Down(g[j - 1])]
<1>9. Q(expand)
  <2>1. Q(f)
    BY <1>7
  <2>2. expand = CHOOSE g : Q(g)
    BY DEF A, Down
  <2> HIDE DEF Q
  <2> QED BY <2>1, <2>2
<1> HIDE DEF expand
<1>10. \A k \in Nat : expand[k] = IF k = 0 THEN A ELSE Down(expand[k - 1])
  <2> DEFINE e == [j \in Nat |-> IF j = 0 THEN A ELSE Down(expand[j - 1])]
  <2>1. expand = e
    BY <1>9
  <2>2. \A k \in Nat : e[k] = IF k = 0 THEN A ELSE Down(expand[k - 1])
    OBVIOUS
  <2> HIDE DEF e
  <2> QED BY <2>1, <2>2
<1> DEFINE T == {k \in Nat : expand[k] \in V}
<1>11. 0 \in T /\ \A k \in Nat : k \in T => k + 1 \in T
  <2>1. 0 \in T
    BY <1>4, <1>10
  <2>2. ASSUME NEW k \in Nat, k \in T
        PROVE  k + 1 \in T
    <3>1. expand[k + 1] = Down(expand[k])
      BY <1>10
    <3> QED BY <1>5, <2>2, <3>1
  <2> QED BY <2>1, <2>2
<1>12. Nat \subseteq T
  <2> HIDE DEF T
  <2> QED BY <1>11, NatInduct
<1>13. Expansion(d, o, 0) = A
  BY <1>8, <1>10
<1>14. ASSUME NEW k \in Nat
       PROVE  Expansion(d, o, k) \in V /\ Expansion(d, o, k + 1) = Down(Expansion(d, o, k))
  <2>1. expand[k + 1] = Down(expand[k])
    BY <1>10
  <2> QED BY <1>8, <1>12, <2>1
<1> QED BY <1>13, <1>14 DEF A, Down, V

\* A selection is known once it is, and one step below a known one is known.
LEMMA ExpansionGrows ==
  ASSUME NEW d \in Docs, NEW o, NEW k \in Nat, NEW x \in Expansion(d, o, k)
  PROVE  /\ x \in Expansion(d, o, k + 1)
         /\ \A m \in Below(d, x[1]) : <<m, PathAt(d, x[1], x[2])>> \in Expansion(d, o, k + 1)
<1>1. Expansion(d, o, k + 1) =
        Expansion(d, o, k)
          \cup UNION {{<<m, PathAt(d, y[1], y[2])>> : m \in Below(d, y[1])} :
                      y \in Expansion(d, o, k)}
  BY Expansions
<1> QED BY <1>1

\* An operation begins with its own selections, at the root.
LEMMA PlacedStart ==
  ASSUME NEW d \in Docs, NEW o, NEW q \in Seq(Work(d)),
         Waiting(q) = Range(SelectionSet(d, <<"op", o>>)),
         \A i \in DOMAIN q : q[i].prefix = <<>>
  PROVE  PlaceInv(d, o, q, {}, <<>>, {}, 0)
<1> DEFINE at == [n \in Sels(d) |-> <<>>]
<1>1. at \in [Sels(d) -> Paths(d)] /\ <<>> \in Seq(Paths(d))
  BY DEF Paths
<1>2. \A i \in DOMAIN q : q[i].sel \in Sels(d)
  <2>1. \A i \in DOMAIN q : q[i] \in Work(d)
    OBVIOUS
  <2> QED BY <2>1 DEF Work
<1>3. Waiting(q) = Top(d, o) /\ Waiting(q) \in SUBSET Sels(d)
  BY <1>2 DEF Top, Waiting
<1>4. \A n \in Sels(d) : at[n] = <<>>
  OBVIOUS
<1> HIDE DEF at
<1>5. \A i \in DOMAIN q : q[i].prefix = at[q[i].sel]
  BY <1>2, <1>4
<1>6. Range(<<>>) = {} /\ Those(d, {}, {"field"}) = {}
  BY DEF Range, Those
<1>7. Range(<<>>) = PathsOf(d, at, {})
  BY <1>6 DEF PathsOf
<1>8. \A n \in {} \cup Waiting(q) : <<n, at[n]>> \in Expansion(d, o, 0)
  <2>1. \A n \in Top(d, o) : <<n, <<>>>> \in Expansion(d, o, 0)
    BY Expansions
  <2>2. \A n \in Waiting(q) : n \in Top(d, o) /\ at[n] = <<>>
    BY <1>3, <1>4
  <2> QED BY <2>1, <2>2
<1>9. PlacedBy(d, o, q, {}, <<>>, {}, 0, at)
  BY <1>3, <1>4, <1>5, <1>7, <1>8 DEF PlacedBy
<1> QED BY <1>1, <1>9 DEF PlaceInv

\* What an owner that was not opened has is new to the search.
LEMMA Fresh ==
  ASSUME NEW d \in Docs, NEW o, NEW t, NEW v, NEW S, SearchInv(d, o, t, v, S),
         NEW x, x \notin Opened(o, v, S), NEW m \in Range(SelectionSet(d, x))
  PROVE  m \notin S \cup Waiting(t)
<1> SUFFICES ASSUME m \in S \cup Waiting(t) PROVE FALSE
  OBVIOUS
<1>1. PICK y \in Opened(o, v, S) : Stands(d, m, y)
  BY DEF SearchInv, OwnersInv
<1>2. Stands(d, m, x)
  BY DEF Stands
<1> QED BY <1>1, <1>2, OneOwner

\* The recorded paths with that of one more selection.
RecordedWith(d, n, p, ps, ps2) ==
  ps2 = IF d.sels[n].kind = "field" THEN Append(ps, PathAt(d, n, p)) ELSE ps

SameAt(at, at2, T) == \A m \in T : at2[m] = at[m]

LEMMA RecordedRange ==
  ASSUME NEW d \in Docs, NEW S \in SUBSET Sels(d), NEW n \in Sels(d), n \notin S,
         NEW at, NEW at2, SameAt(at, at2, S \cup {n}), at[n] \in Paths(d),
         NEW ps \in Seq(Paths(d)), NEW ps2, RecordedWith(d, n, at[n], ps, ps2),
         Range(ps) = PathsOf(d, at, S)
  PROVE  /\ ps2 \in Seq(Paths(d))
         /\ Range(ps2) = PathsOf(d, at2, S \cup {n})
<1> DEFINE q == PathAt(d, n, at[n])
           F == Those(d, S, {"field"})
           G == Those(d, S \cup {n}, {"field"})
<1>1. q \in Paths(d)
  BY DEF PathAt, Paths
<1>2. \A m \in G : PathAt(d, m, at2[m]) = PathAt(d, m, at[m])
  BY DEF Those, SameAt
<1>3. CASE d.sels[n].kind = "field"
  <2>1. ps2 = Append(ps, q) /\ G = F \cup {n}
    BY <1>3 DEF RecordedWith, Those
  <2> HIDE DEF q
  <2>2. ps2 \in Seq(Paths(d)) /\ Range(ps2) = Range(ps) \cup {q}
    <3>1. /\ ps2 \in Seq(Paths(d)) /\ Len(ps) \in Nat /\ DOMAIN ps = 1..Len(ps)
          /\ DOMAIN ps2 = 1..(Len(ps) + 1) /\ ps2[Len(ps) + 1] = q
          /\ \A i \in 1..Len(ps) : ps2[i] = ps[i]
      BY <1>1, <2>1
    <3>2. Len(ps) + 1 \in DOMAIN ps2 /\ \A i \in DOMAIN ps : i \in DOMAIN ps2
      BY <3>1
    <3>3. \A i \in DOMAIN ps2 : i = Len(ps) + 1 \/ i \in DOMAIN ps
      BY <3>1
    <3> QED BY <3>1, <3>2, <3>3 DEF Range
  <2>3. {PathAt(d, m, at2[m]) : m \in G} = {PathAt(d, m, at[m]) : m \in F} \cup {q}
    BY <1>2, <2>1 DEF q
  <2> QED BY <2>2, <2>3 DEF PathsOf
<1>4. CASE d.sels[n].kind # "field"
  <2>1. ps2 = ps /\ G = F
    BY <1>4 DEF RecordedWith, Those
  <2> QED BY <1>2, <2>1 DEF PathsOf
<1> QED BY <1>3, <1>4

\* The selection on top is visited, and what it expands to is put on the stack
\* below its path.
LEMMA PlacedStep ==
  ASSUME NEW d \in Docs, NEW o, NEW t, NEW v, NEW S \in SUBSET Sels(d),
         SearchInv(d, o, t, v, S), t # <<>>, NEW k \in Nat, NEW ps,
         PlaceInv(d, o, t, v, ps, S, k),
         NEW q \in Seq(Work(d)), NoneTwice(q), Waiting(q) = Below(d, Head(t).sel),
         \A m \in Waiting(q) : m \notin S \cup Waiting(t),
         \A i \in DOMAIN q : q[i].prefix = PathAt(d, Head(t).sel, Head(t).prefix),
         NEW w, \A f \in w \ v : /\ d.sels[Head(t).sel].kind = "spread"
                                 /\ d.sels[Head(t).sel].name = f,
         NEW ps2, RecordedWith(d, Head(t).sel, Head(t).prefix, ps, ps2)
  PROVE  PlaceInv(d, o, q \o Tail(t), w, ps2, S \cup {Head(t).sel}, k + 1)
<1> DEFINE n == Head(t).sel
           p == Head(t).prefix
           u == q \o Tail(t)
           T == S \cup {n}
<1>1. t \in Seq(Work(d)) /\ NoneTwice(t) /\ S \cap Waiting(t) = {}
  BY DEF SearchInv, StackInv
<1>2. /\ Head(t) \in Work(d) /\ n \in Waiting(t)
      /\ Tail(t) \in Seq(Work(d)) /\ NoneTwice(Tail(t))
      /\ Waiting(Tail(t)) = Waiting(t) \ {n}
  BY <1>1, Popped
<1>3. n \in Sels(d) /\ n \notin S /\ p \in Paths(d)
  BY <1>1, <1>2 DEF Work
<1>4. ps \in Seq(Paths(d))
  BY DEF PlaceInv
<1>5. PICK at \in [Sels(d) -> Paths(d)] : PlacedBy(d, o, t, v, ps, S, k, at)
  BY DEF PlaceInv
<1>6. at[n] = p
  <2>1. Head(t) = t[1] /\ 1 \in DOMAIN t
    BY <1>1
  <2> QED BY <1>5, <2>1 DEF PlacedBy
<1> DEFINE path == PathAt(d, n, p)
           at2 == [m \in Sels(d) |-> IF m \in Waiting(q) THEN path ELSE at[m]]
<1>7. path \in Paths(d) /\ at2 \in [Sels(d) -> Paths(d)]
  BY <1>3, <1>5 DEF PathAt, Paths
<1>8. /\ \A m \in Waiting(q) : m \in Sels(d) /\ at2[m] = path
      /\ \A m \in S \cup Waiting(t) : m \in Sels(d) /\ at2[m] = at[m]
  <2>1. \A i \in DOMAIN q : q[i] \in Work(d)
    OBVIOUS
  <2>2. \A i \in DOMAIN t : t[i] \in Work(d)
    BY <1>1
  <2>3. Waiting(q) \in SUBSET Sels(d) /\ Waiting(t) \in SUBSET Sels(d)
    BY <2>1, <2>2 DEF Waiting, Work
  <2> QED BY <2>3
<1>9. Waiting(q) = Below(d, n)
  OBVIOUS
<1>10. /\ \A f \in w \ v : d.sels[n].kind = "spread" /\ d.sels[n].name = f
       /\ RecordedWith(d, n, p, ps, ps2)
       /\ \A i \in DOMAIN q : q[i].prefix = path
  OBVIOUS
<1> HIDE DEF n, p, path, at2
<1>11. /\ Waiting(u) = Waiting(q) \cup (Waiting(t) \ {n})
       /\ \A i \in DOMAIN u :
            \/ i \in DOMAIN q /\ u[i] = q[i]
            \/ i - Len(q) \in DOMAIN Tail(t) /\ u[i] = Tail(t)[i - Len(q)]
  <2> DEFINE r == Tail(t)
  <2>1. r \in Seq(Work(d)) /\ NoneTwice(r) /\ Waiting(q) \cap Waiting(r) = {}
        /\ Waiting(r) = Waiting(t) \ {n}
    BY <1>2
  <2>2. u = q \o r
    OBVIOUS
  <2> HIDE DEF r, u
  <2>3. Waiting(u) = Waiting(q) \cup Waiting(r)
    <3>1. q \in Seq(Work(d)) /\ NoneTwice(q)
      OBVIOUS
    <3> QED BY ONLY <2>1, <2>2, <3>1, Stacked
  <2>4. /\ u \in Seq(Work(d)) /\ Len(u) = Len(q) + Len(r)
        /\ \A i \in 1..Len(u) : u[i] = IF i <= Len(q) THEN q[i] ELSE r[i - Len(q)]
    BY <2>1, <2>2, ConcatProperties
  <2>5. /\ Len(q) \in Nat /\ Len(r) \in Nat
        /\ DOMAIN q = 1..Len(q) /\ DOMAIN r = 1..Len(r) /\ DOMAIN u = 1..Len(u)
    BY <2>1, <2>4
  <2>6. \A i \in DOMAIN u :
          \/ i \in DOMAIN q /\ u[i] = q[i]
          \/ i - Len(q) \in DOMAIN r /\ u[i] = r[i - Len(q)]
    BY <2>4, <2>5
  <2> QED BY <2>1, <2>3, <2>6 DEF r
<1>12. \A i \in DOMAIN Tail(t) : i + 1 \in DOMAIN t /\ Tail(t)[i] = t[i + 1]
  BY <1>1, HeadTailProperties
<1> HIDE DEF u
<1>13. \A i \in DOMAIN u : u[i].prefix = at2[u[i].sel]
  <2> SUFFICES ASSUME NEW i \in DOMAIN u PROVE u[i].prefix = at2[u[i].sel]
    OBVIOUS
  <2>1. CASE i \in DOMAIN q /\ u[i] = q[i]
    <3>1. q[i].sel \in Waiting(q)
      BY <2>1 DEF Waiting
    <3> QED BY <1>8, <1>10, <2>1, <3>1
  <2>2. CASE i - Len(q) \in DOMAIN Tail(t) /\ u[i] = Tail(t)[i - Len(q)]
    <3>1. PICK j \in DOMAIN t : u[i] = t[j]
      BY <1>12, <2>2
    <3>2. t[j].sel \in Waiting(t)
      BY DEF Waiting
    <3>3. t[j].prefix = at[t[j].sel]
      BY <1>5 DEF PlacedBy
    <3> QED BY <1>8, <3>1, <3>2, <3>3
  <2> QED BY <1>11, <2>1, <2>2
<1>14. ps2 \in Seq(Paths(d))
       /\ Range(ps2) = PathsOf(d, at2, T)
  <2>1. Range(ps) = PathsOf(d, at, S)
    BY <1>5 DEF PlacedBy
  <2>2. SameAt(at, at2, S \cup {n})
    BY <1>2, <1>8 DEF SameAt
  <2>3. at[n] \in Paths(d) /\ RecordedWith(d, n, at[n], ps, ps2)
    BY <1>3, <1>6, <1>10
  <2>4. d \in Docs /\ S \in SUBSET Sels(d) /\ n \in Sels(d) /\ n \notin S
    BY <1>3
  <2>5. T = S \cup {n}
    OBVIOUS
  <2> HIDE DEF T
  <2>6. /\ ps2 \in Seq(Paths(d))
        /\ Range(ps2) = PathsOf(d, at2, S \cup {n})
    BY ONLY <1>4, <2>1, <2>2, <2>3, <2>4, RecordedRange, SMTT(30)
  <2> QED BY ONLY <2>5, <2>6
<1>15. \A m \in T \cup Waiting(u) : <<m, at2[m]>> \in Expansion(d, o, k + 1)
  <2>1. \A m \in S \cup Waiting(t) : <<m, at[m]>> \in Expansion(d, o, k)
    BY <1>5 DEF PlacedBy
  <2>2. ASSUME NEW m \in S \cup Waiting(t)
        PROVE  <<m, at2[m]>> \in Expansion(d, o, k + 1)
    BY <1>8, <2>1, ExpansionGrows
  <2>3. ASSUME NEW m \in Waiting(q)
        PROVE  <<m, at2[m]>> \in Expansion(d, o, k + 1)
    <3> DEFINE y == <<n, p>>
    <3>1. y \in Expansion(d, o, k) /\ y[1] = n /\ y[2] = p
      BY <1>2, <1>6, <2>1
    <3> HIDE DEF y
    <3>2. \A x \in Expansion(d, o, k) : \A l \in Below(d, x[1]) :
            <<l, PathAt(d, x[1], x[2])>> \in Expansion(d, o, k + 1)
      BY ExpansionGrows
    <3>3. <<m, PathAt(d, n, p)>> \in Expansion(d, o, k + 1)
      BY <1>9, <3>1, <3>2
    <3> QED BY <1>8, <3>3 DEF path
  <2> QED BY <1>2, <1>11, <2>2, <2>3
<1>16. \A m \in Top(d, o) : at2[m] = <<>>
  <2>1. Top(d, o) \subseteq S \cup Waiting(t)
    BY DEF SearchInv, OwnersInv
  <2> QED BY <1>5, <1>8, <2>1 DEF PlacedBy
<1>17. \A f \in w : \E m \in T : d.sels[m].kind = "spread" /\ d.sels[m].name = f
  BY <1>5, <1>10 DEF PlacedBy
<1>18. SpreadOnce(d, o) => \A l \in T : \A m \in Below(d, l) : at2[m] = PathAt(d, l, at2[l])
  <2> SUFFICES ASSUME SpreadOnce(d, o), NEW l \in T, NEW m \in Below(d, l)
               PROVE  at2[m] = PathAt(d, l, at2[l])
    OBVIOUS
  <2>1. CASE l \in S
    <3>1. m \in S \cup Waiting(t)
      BY <2>1 DEF SearchInv, OwnersInv
    <3>2. at[m] = PathAt(d, l, at[l])
      BY <1>5, <2>1 DEF PlacedBy
    <3> QED BY <1>8, <2>1, <3>1, <3>2
  <2>2. CASE l = n
    <3>1. m \in Waiting(q) /\ at2[l] = p
      BY <1>2, <1>6, <1>8, <1>9, <2>2
    <3> QED BY <1>8, <2>2, <3>1 DEF path
  <2> QED BY <2>1, <2>2
<1>19. PlacedBy(d, o, u, w, ps2, T, k + 1, at2)
  BY <1>13, <1>14, <1>15, <1>16, <1>17, <1>18 DEF PlacedBy
<1>20. PlaceInv(d, o, u, w, ps2, T, k + 1)
  BY <1>7, <1>14, <1>19 DEF PlaceInv
<1> QED BY <1>20 DEF u, n

\* The selection on top spreads a fragment that was entered before: then one is
\* spread twice.
LEMMA PlacedSkip ==
  ASSUME NEW d \in Docs, NEW o, NEW t, NEW v, NEW S \in SUBSET Sels(d),
         SearchInv(d, o, t, v, S), t # <<>>, NEW k \in Nat, NEW ps,
         PlaceInv(d, o, t, v, ps, S, k),
         d.sels[Head(t).sel].kind = "spread", d.sels[Head(t).sel].name \in v
  PROVE  PlaceInv(d, o, Tail(t), v, ps, S \cup {Head(t).sel}, k + 1)
<1> DEFINE n == Head(t).sel
           T == S \cup {n}
<1>1. t \in Seq(Work(d)) /\ NoneTwice(t) /\ S \cap Waiting(t) = {}
  BY DEF SearchInv, StackInv
<1>2. Head(t) \in Work(d) /\ n \in Waiting(t) /\ Waiting(Tail(t)) = Waiting(t) \ {n}
  BY <1>1, Popped
<1>3. n \in Sels(d) /\ n \notin S
  BY <1>1, <1>2 DEF Work
<1>4. d.sels[n].kind = "spread" /\ d.sels[n].name \in v
  OBVIOUS
<1> HIDE DEF n
<1>5. ps \in Seq(Paths(d))
  BY DEF PlaceInv
<1>6. PICK at \in [Sels(d) -> Paths(d)] : PlacedBy(d, o, t, v, ps, S, k, at)
  BY DEF PlaceInv
<1>7. \A i \in DOMAIN Tail(t) : i + 1 \in DOMAIN t /\ Tail(t)[i] = t[i + 1]
  BY <1>1, HeadTailProperties
<1>8. \A i \in DOMAIN Tail(t) : Tail(t)[i].prefix = at[Tail(t)[i].sel]
  BY <1>6, <1>7 DEF PlacedBy
<1>9. Those(d, T, {"field"}) = Those(d, S, {"field"})
  BY <1>4 DEF Those
<1>10. \A m \in T \cup Waiting(Tail(t)) : <<m, at[m]>> \in Expansion(d, o, k + 1)
  <2>1. \A m \in S \cup Waiting(t) : <<m, at[m]>> \in Expansion(d, o, k)
    BY <1>6 DEF PlacedBy
  <2>2. \A m \in S \cup Waiting(t) : <<m, at[m]>> \in Expansion(d, o, k + 1)
    BY <2>1, ExpansionGrows
  <2> QED BY <1>2, <2>2
<1>11. ~SpreadOnce(d, o)
  <2>1. PICK m \in S : d.sels[m].kind = "spread" /\ d.sels[m].name = d.sels[n].name
    BY <1>4, <1>6 DEF PlacedBy
  <2>2. m \in Reached(d, o) /\ n \in Reached(d, o)
    BY <1>2, <1>3 DEF SearchInv, MinimalInv, Reached
  <2> QED BY <1>3, <1>4, <2>1, <2>2 DEF SpreadOnce
<1>12. \A f \in v : \E m \in T : d.sels[m].kind = "spread" /\ d.sels[m].name = f
  BY <1>6 DEF PlacedBy
<1>13. PlacedBy(d, o, Tail(t), v, ps, T, k + 1, at)
  BY <1>6, <1>8, <1>9, <1>10, <1>11, <1>12 DEF PlacedBy, PathsOf
<1>14. PlaceInv(d, o, Tail(t), v, ps, T, k + 1)
  BY <1>5, <1>13 DEF PlaceInv
<1> QED BY <1>14 DEF n

-----------------------------------------------------------------------------
(* The steps of the walk.                                                  *)

\* What is known of the selection on top.
LEMMA TopOfStack ==
  ASSUME doc \in Docs, todo # <<>>, NEW S \in SUBSET Sels(doc),
         SearchInv(doc, op, todo, visited, S)
  PROVE  /\ Item \in Work(doc)
         /\ Item.sel \in Sels(doc) /\ Item.sel \notin S
         /\ <<"sel", Item.sel>> \notin Opened(op, visited, S)
<1>1. Item \in Work(doc) /\ Item.sel \in Waiting(todo) /\ S \cap Waiting(todo) = {}
  BY Popped DEF SearchInv, StackInv, Item
<1>2. Item.sel \in Sels(doc) /\ Item.sel \notin S
  BY <1>1 DEF Work
<1> QED BY <1>1, <1>2 DEF Opened

\* A field or an inline fragment expands to its own selection set.
LEMMA OwnSelections ==
  ASSUME doc \in Docs, todo # <<>>, NEW S \in SUBSET Sels(doc),
         SearchInv(doc, op, todo, visited, S), Sel.kind # "spread",
         NEW prefix \in Paths(doc), NEW depth \in Nat
  PROVE  SearchInv(doc, op, Pending(<<"sel", Item.sel>>, prefix, depth) \o Tail(todo),
                   visited, S \cup {Item.sel})
<1> DEFINE x == <<"sel", Item.sel>>
           q == Pending(x, prefix, depth)
<1>1. q \in Seq(Work(doc)) /\ NoneTwice(q) /\ Waiting(q) = Range(SelectionSet(doc, x))
  BY PendingStack
<1>2. Below(doc, Item.sel) = Waiting(q)
  BY <1>1 DEF Below, Sel
<1>3. x \notin Opened(op, visited, S)
  BY TopOfStack
<1>4. x \in Opened(op, visited, S \cup {Item.sel})
  BY DEF Opened
<1>5. Item = Head(todo)
  BY DEF Item
<1> HIDE DEF x, q
<1>6. SearchInv(doc, op, q \o Tail(todo), visited, S \cup {Head(todo).sel})
  BY <1>1, <1>2, <1>3, <1>4, <1>5, Expanded
<1> QED BY <1>5, <1>6 DEF x, q

\* The places after a visit.
LEMMA PlacedVisit ==
  ASSUME doc \in Docs, NEW S \in SUBSET Sels(doc),
         SearchInv(doc, op, todo, visited, S), todo # <<>>, visits \in Nat,
         {"fieldPaths"} \subseteq DOMAIN cur,
         PlaceInv(doc, op, todo, visited, cur.fieldPaths, S, visits),
         VisitField \/ VisitInline \/ VisitSpread
  PROVE  PlaceInv(doc, op, todo', visited', cur'.fieldPaths, S \cup {Item.sel}, visits + 1)
<1> DEFINE n == Item.sel
           p == Item.prefix
           path == PathAt(doc, n, p)
<1>1. /\ n \in Sels(doc) /\ n \notin S /\ p \in Paths(doc) /\ Item.depth \in Nat
      /\ <<"sel", n>> \notin Opened(op, visited, S)
  BY TopOfStack DEF Work
<1>2. Item = Head(todo) /\ Sel = doc.sels[n] /\ Head(todo).sel = n /\ Head(todo).prefix = p
  BY DEF Item, Sel
<1>3. path \in Paths(doc)
  BY <1>1 DEF PathAt, Paths
<1>4. RecordedWith(doc, n, p, cur.fieldPaths, cur'.fieldPaths)
  <2>1. CASE VisitField
    <3>1. Sel.kind = "field" /\ cur'.fieldPaths = Append(cur.fieldPaths, Append(p, Sel.alias))
      BY <2>1 DEF VisitField, Visit, RecordPath
    <3> QED BY <1>2, <3>1 DEF RecordedWith, PathAt
  <2>2. CASE VisitInline \/ VisitSpread
    <3>1. Sel.kind # "field" /\ cur'.fieldPaths = cur.fieldPaths
      BY <2>2 DEF VisitInline, VisitSpread, Visit, CountFragment
    <3> QED BY <1>2, <3>1 DEF RecordedWith
  <2> QED BY <2>1, <2>2
<1> HIDE DEF n, p, path
<1>5. ASSUME NEW x, NEW depth \in Nat, x \notin Opened(op, visited, S),
             Below(doc, n) = Range(SelectionSet(doc, x)),
             NEW w, \A f \in w \ visited : Sel.kind = "spread" /\ Sel.name = f
      PROVE  PlaceInv(doc, op, Pending(x, path, depth) \o Tail(todo), w, cur'.fieldPaths,
                      S \cup {n}, visits + 1)
  <2> DEFINE q == Pending(x, path, depth)
  <2>1. q \in Seq(Work(doc)) /\ NoneTwice(q) /\ Waiting(q) = Range(SelectionSet(doc, x))
    BY <1>3, <1>5, PendingStack
  <2>2. \A m \in Waiting(q) : m \notin S \cup Waiting(todo)
    BY <1>5, <2>1, Fresh
  <2>3. \A i \in DOMAIN q : q[i].prefix = path
    BY DEF Pending
  <2> HIDE DEF q
  <2>4. Waiting(q) = Below(doc, Head(todo).sel)
    BY <1>2, <1>5, <2>1
  <2>5. \A i \in DOMAIN q : q[i].prefix = PathAt(doc, Head(todo).sel, Head(todo).prefix)
    BY <1>2, <2>3 DEF path
  <2>6. \A f \in w \ visited : /\ doc.sels[Head(todo).sel].kind = "spread"
                               /\ doc.sels[Head(todo).sel].name = f
    BY <1>2, <1>5
  <2>7. RecordedWith(doc, Head(todo).sel, Head(todo).prefix, cur.fieldPaths, cur'.fieldPaths)
    BY <1>2, <1>4
  <2>8. PlaceInv(doc, op, q \o Tail(todo), w, cur'.fieldPaths,
                 S \cup {Head(todo).sel}, visits + 1)
    BY <2>1, <2>2, <2>4, <2>5, <2>6, <2>7, PlacedStep
  <2> QED BY <1>2, <2>8 DEF q
<1>6. CASE VisitField
  <2>1. Sel.kind = "field"
    BY <1>6 DEF VisitField, Visit
  <2>2. path = Append(p, Sel.alias) /\ Below(doc, n) = Range(SelectionSet(doc, <<"sel", n>>))
    BY <1>2, <2>1 DEF PathAt, Below, path
  <2>3. visited' = visited /\ todo' = Pending(<<"sel", n>>, path, Item.depth + 1) \o Tail(todo)
    BY <1>6, <2>2 DEF VisitField, n, p
  <2>4. Item.depth + 1 \in Nat
    BY <1>1
  <2>5. PlaceInv(doc, op, Pending(<<"sel", n>>, path, Item.depth + 1) \o Tail(todo), visited,
                 cur'.fieldPaths, S \cup {n}, visits + 1)
    BY <1>1, <1>5, <2>2, <2>4
  <2> QED BY <2>3, <2>5 DEF n
<1>7. CASE VisitInline
  <2>1. Sel.kind = "inline"
    BY <1>7 DEF VisitInline, Visit
  <2>2. path = p /\ Below(doc, n) = Range(SelectionSet(doc, <<"sel", n>>))
    BY <1>2, <2>1 DEF PathAt, Below, path
  <2>3. visited' = visited /\ todo' = Pending(<<"sel", n>>, path, Item.depth) \o Tail(todo)
    BY <1>7, <2>2 DEF VisitInline, n, p
  <2>4. PlaceInv(doc, op, Pending(<<"sel", n>>, path, Item.depth) \o Tail(todo), visited,
                 cur'.fieldPaths, S \cup {n}, visits + 1)
    BY <1>1, <1>5, <2>2
  <2> QED BY <2>3, <2>4 DEF n
<1>8. CASE VisitSpread
  <2>1. Sel.kind = "spread" /\ cur'.fieldPaths = cur.fieldPaths
    BY <1>8 DEF VisitSpread, Visit, CountFragment
  <2>2. path = p /\ Below(doc, n) = Range(SelectionSet(doc, <<"frag", Sel.name>>))
    BY <1>2, <2>1 DEF PathAt, Below, path
  <2>3. CASE Sel.name \in visited
    <3>1. todo' = Tail(todo) /\ visited' = visited
      BY <1>8, <2>3 DEF VisitSpread
    <3>2. doc.sels[Head(todo).sel].kind = "spread" /\ doc.sels[Head(todo).sel].name \in visited
      BY <1>2, <2>1, <2>3
    <3>3. PlaceInv(doc, op, Tail(todo), visited, cur.fieldPaths,
                   S \cup {Head(todo).sel}, visits + 1)
      BY <3>2, PlacedSkip
    <3> QED BY <1>2, <2>1, <3>1, <3>3 DEF n
  <2>4. CASE Sel.name \notin visited
    <3> DEFINE x == <<"frag", Sel.name>>
               w == visited \cup {Sel.name}
    <3>1. visited' = w /\ todo' = Pending(x, path, Item.depth) \o Tail(todo)
      BY <1>8, <2>2, <2>4 DEF VisitSpread, Entered, p
    <3>2. x \notin Opened(op, visited, S)
      BY <2>4 DEF Opened
    <3>3. \A f \in w \ visited : Sel.kind = "spread" /\ Sel.name = f
      BY <2>1
    <3>4. Below(doc, n) = Range(SelectionSet(doc, x))
      BY <2>2
    <3> HIDE DEF x, w
    <3>5. PlaceInv(doc, op, Pending(x, path, Item.depth) \o Tail(todo), w,
                   cur'.fieldPaths, S \cup {n}, visits + 1)
      BY <1>1, <1>5, <3>2, <3>3, <3>4
    <3> QED BY <3>1, <3>5 DEF n
  <2> QED BY <2>3, <2>4
<1> QED BY <1>6, <1>7, <1>8

\* A visit of the selection on top.
LEMMA VisitStep ==
  ASSUME ParserInv, VisitField \/ VisitInline \/ VisitSpread
  PROVE  ParserInv'
<1>1. /\ pc = "walk" /\ todo # <<>> /\ visits' = visits + 1
      /\ doc' = doc /\ op' = op /\ pc' = pc
  BY DEF VisitField, VisitInline, VisitSpread, Visit
<1>2. doc \in Docs
  BY DEF ParserInv
<1>3. PICK S \in SUBSET Sels(doc) : /\ visits = Cardinality(S)
                                   /\ SearchInv(doc, op, todo, visited, S)
                                   /\ CountInv(doc, cur, S)
                                   /\ WeightInv(doc, cur, S)
                                   /\ {"fieldPaths"} \subseteq DOMAIN cur
                                   /\ PlaceInv(doc, op, todo, visited, cur.fieldPaths, S, visits)
  BY <1>1 DEF ParserInv, WalkInv
<1> DEFINE n == Item.sel
           T == S \cup {n}
<1>4. /\ n \in Sels(doc) /\ n \notin S
      /\ Item.prefix \in Paths(doc) /\ Item.depth \in Nat
      /\ <<"sel", n>> \notin Opened(op, visited, S)
  <2>1. Item \in Work(doc)
    BY <1>1, <1>2, <1>3, TopOfStack
  <2>2. n \in Sels(doc) /\ Item.prefix \in Paths(doc) /\ Item.depth \in Nat
    BY ONLY <2>1 DEF Work
  <2> QED BY <1>1, <1>2, <1>3, <2>2, TopOfStack
<1>5. Item = Head(todo) /\ Sel = doc.sels[n]
  BY DEF Item, Sel
<1>6. T \in SUBSET Sels(doc) /\ Cardinality(T) = visits'
  <2>1. doc \in Docs /\ S \in SUBSET Sels(doc) /\ n \in Sels(doc) /\ n \notin S
    BY <1>2, <1>4
  <2> HIDE DEF n
  <2>2. Cardinality(S \cup {n}) = Cardinality(S) + 1
    BY ONLY <2>1, OneMore
  <2> QED BY <1>1, <1>3, <2>1, <2>2
<1>7. CountInv(doc, cur', T)
  BY <1>2, <1>3, <1>4, CountedStep
<1>8. SearchInv(doc, op, todo', visited', T)
  <2>1. CASE VisitField
    <3>1. Sel.kind # "spread"
      BY <2>1 DEF VisitField, Visit
    <3>2. Append(Item.prefix, Sel.alias) \in Paths(doc) /\ Item.depth + 1 \in Nat
      BY <1>4, <1>5 DEF Paths
    <3>3. /\ visited' = visited
          /\ todo' = Pending(<<"sel", n>>, Append(Item.prefix, Sel.alias), Item.depth + 1)
                       \o Tail(todo)
      BY <2>1 DEF VisitField
    <3> QED BY <1>1, <1>2, <1>3, <3>1, <3>2, <3>3, OwnSelections
  <2>2. CASE VisitInline
    <3>1. Sel.kind # "spread"
      BY <2>2 DEF VisitInline, Visit
    <3>2. /\ visited' = visited
          /\ todo' = Pending(<<"sel", n>>, Item.prefix, Item.depth) \o Tail(todo)
      BY <2>2 DEF VisitInline
    <3> QED BY <1>1, <1>2, <1>3, <1>4, <3>1, <3>2, OwnSelections
  <2>3. CASE VisitSpread
    <3> DEFINE x == <<"frag", Sel.name>>
               q == Pending(x, Item.prefix, Item.depth)
    <3>1. Below(doc, n) = Range(SelectionSet(doc, x))
      BY <1>5, <2>3 DEF VisitSpread, Visit, Below
    <3>2. CASE Sel.name \in visited
      <4>1. todo' = Tail(todo) /\ visited' = visited
        BY <2>3, <3>2 DEF VisitSpread
      <4>2. Below(doc, n) \subseteq S \cup Waiting(todo)
        BY <1>3, <3>1, <3>2 DEF SearchInv, OwnersInv
      <4>3. SearchInv(doc, op, Tail(todo), visited, S \cup {Head(todo).sel})
        BY <1>1, <1>2, <1>3, <1>5, <4>2, Skipped
      <4> QED BY <1>5, <4>1, <4>3
    <3>3. CASE Sel.name \notin visited
      <4> DEFINE w == visited \cup {Sel.name}
      <4>1. todo' = q \o Tail(todo) /\ visited' = w
        BY <2>3, <3>3 DEF VisitSpread, Entered
      <4>2. q \in Seq(Work(doc)) /\ NoneTwice(q)
            /\ Waiting(q) = Range(SelectionSet(doc, x))
        BY <1>2, <1>4, PendingStack
      <4>3. x \notin Opened(op, visited, S)
        BY <3>3 DEF Opened
      <4>4. x \in Opened(op, w, S \cup {Head(todo).sel})
        BY DEF Opened
      <4>5. visited \subseteq w /\ \A f \in w \ visited : x = <<"frag", f>>
        OBVIOUS
      <4>6. Below(doc, Head(todo).sel) = Waiting(q)
        BY <1>5, <3>1, <4>2
      <4> HIDE DEF x, q, w
      <4>7. SearchInv(doc, op, q \o Tail(todo), w, S \cup {Head(todo).sel})
        BY <1>1, <1>2, <1>3, <4>2, <4>3, <4>4, <4>5, <4>6, Expanded
      <4> QED BY <1>5, <4>1, <4>7
    <3> QED BY <3>2, <3>3
  <2> QED BY <2>1, <2>2, <2>3
<1>9. WeightInv(doc, cur', T)
  BY <1>2, <1>3, <1>4, WeighedStep
<1>10. PlaceInv(doc, op, todo', visited', cur'.fieldPaths, T, visits')
  <2>1. visits \in Nat
    BY DEF ParserInv
  <2> QED BY <1>1, <1>2, <1>3, <2>1, PlacedVisit
<1>11. {"fieldPaths"} \subseteq DOMAIN cur'
  BY <1>3 DEF VisitField, VisitInline, VisitSpread, CountFragment
<1> HIDE DEF T
<1>12. WalkInv'
  BY <1>1, <1>6, <1>7, <1>8, <1>9, <1>10, <1>11 DEF WalkInv
<1>13. Cardinality(T) \in Nat /\ Cardinality(T) <= Len(doc.sels)
  BY <1>2, <1>6, FiniteSelections
<1> QED BY <1>1, <1>2, <1>6, <1>12, <1>13 DEF ParserInv

LEMMA BeginStep ==
  ASSUME ParserInv, BeginOperation
  PROVE  ParserInv'
<1>1. /\ doc' = doc /\ op' = op /\ visits' = 0 /\ visited' = {}
      /\ todo' = Pending(<<"op", op>>, <<>>, 0)
  BY DEF BeginOperation, NewVisited
<1>2. doc \in Docs
  BY DEF ParserInv
<1> DEFINE q == Pending(<<"op", op>>, <<>>, 0)
<1>3. q \in Seq(Work(doc)) /\ NoneTwice(q)
      /\ Waiting(q) = Range(SelectionSet(doc, <<"op", op>>))
  <2>1. <<>> \in Paths(doc) /\ 0 \in Nat
    BY DEF Paths
  <2> QED BY <1>2, <2>1, PendingStack
<1> HIDE DEF q
<1>4. SearchInv(doc, op, q, {}, {})
  BY <1>2, <1>3, Started
<1>5. CountInv(doc, cur', {}) /\ Cardinality({}) = 0
  BY NothingCounted, FS_EmptySet
<1>6. WeightInv(doc, cur', {}) /\ {"fieldPaths"} \subseteq DOMAIN cur' /\ cur'.fieldPaths = <<>>
  BY <1>2, NothingWeighed DEF BeginOperation, NewInfo
<1>7. PlaceInv(doc, op, q, {}, <<>>, {}, 0)
  <2>1. \A i \in DOMAIN q : q[i].prefix = <<>>
    BY DEF q, Pending
  <2> QED BY <1>2, <1>3, <2>1, PlacedStart
<1>8. todo' = q
  BY <1>1 DEF q
<1>9. WalkInv'
  BY <1>1, <1>4, <1>5, <1>6, <1>7, <1>8 DEF WalkInv
<1>10. Len(doc.sels) \in Nat
  BY <1>2, DocAssumption
<1> QED BY <1>1, <1>2, <1>9, <1>10 DEF ParserInv

LEMMA ParserStep ==
  ASSUME ParserInv, [Next]_vars
  PROVE  ParserInv'
<1>1. CASE Parse
  BY <1>1 DEF ParserInv, Parse, walkVars
<1>2. CASE BeginOperation
  BY <1>2, BeginStep
<1>3. CASE VisitField \/ VisitInline \/ VisitSpread
  BY <1>3, VisitStep
<1>4. CASE EndOperation
  <2>1. doc' = doc /\ visits' = visits /\ pc' # "walk"
    BY <1>4 DEF EndOperation
  <2> QED BY <2>1 DEF ParserInv
<1>5. CASE UNCHANGED parserVars
  BY <1>5 DEF ParserInv, WalkInv, parserVars, walkVars
<1> QED BY <1>1, <1>2, <1>3, <1>4, <1>5 DEF Next, ParserNext, Inspect, vars

LEMMA ParserInvariant == Spec => []ParserInv
<1>1. Init => ParserInv
  <2> SUFFICES ASSUME Init PROVE ParserInv
    OBVIOUS
  <2>1. doc \in Docs /\ pc = "parse" /\ visits = 0
    BY DEF Init, ParserInit
  <2>2. Len(doc.sels) \in Nat
    BY <2>1, DocAssumption
  <2> QED BY <2>1, <2>2 DEF ParserInv
<1> QED BY <1>1, ParserStep, PTL DEF Spec

\* For every document, the walk of one operation visits no more selections than
\* the document has, whatever its fragments do (walkSelections).
THEOREM WorkIsLinear == Spec => []LinearWork
<1>1. ParserInv => LinearWork
  BY DEF ParserInv, LinearWork
<1> QED BY <1>1, ParserInvariant, PTL

\* When the walk of an operation ends, its counters are right.
LEMMA WalkedInFull ==
  ASSUME ParserInv
  PROVE  EverySelectionCountedOnce
<1> SUFFICES ASSUME pc = "walk", todo = <<>>
             PROVE  EverySelectionCountedOnce
  BY DEF EverySelectionCountedOnce, OperationWalked
<1>1. PICK S \in SUBSET Sels(doc) : /\ SearchInv(doc, op, <<>>, visited, S)
                                   /\ CountInv(doc, cur, S)
  BY DEF ParserInv, WalkInv
<1>2. S = Reached(doc, op)
  BY <1>1, Finished DEF ParserInv
<1>3. /\ Those(doc, S, {"field"}) = OfKind(doc, op, {"field"})
      /\ Those(doc, S, {"inline", "spread"}) = OfKind(doc, op, {"inline", "spread"})
      /\ Lists(doc, S) = ListFields(doc, op)
  BY <1>2 DEF Those, Lists, OfKind, ListFields
<1> QED BY <1>1, <1>3 DEF CountInv, EverySelectionCountedOnce

\* For every document, an operation is charged for the fields, the fragments
\* and the lists among the selections it reaches, each once (walkSelections).
THEOREM SelectionsAreCountedOnce == Spec => []EverySelectionCountedOnce
BY ParserInvariant, WalkedInFull, PTL

\* When the walk of an operation ends, its weights are right.
LEMMA WeighedInFull ==
  ASSUME ParserInv
  PROVE  WeightsAreCounted
<1> SUFFICES ASSUME pc = "walk", todo = <<>>
             PROVE  WeightsAreCounted
  BY DEF WeightsAreCounted, OperationWalked
<1>1. doc \in Docs
  BY DEF ParserInv
<1>2. PICK S \in SUBSET Sels(doc) : /\ SearchInv(doc, op, <<>>, visited, S)
                                   /\ WeightInv(doc, cur, S)
  BY DEF ParserInv, WalkInv
<1>3. S = Reached(doc, op)
  BY <1>1, <1>2, Finished
<1> DEFINE F == OfKind(doc, op, {"field"})
           m == Deepest(doc, F)
<1>4. Those(doc, S, {"field"}) = F /\ F \in SUBSET Sels(doc)
  BY <1>2, <1>3 DEF Those, OfKind
<1>5. cur.directives = MapThenSumSet(LAMBDA n : doc.sels[n].dirs, Reached(doc, op))
  BY <1>2, <1>3 DEF WeightInv, DirsOf
<1> HIDE DEF F
<1>6. m \in Nat /\ {k \in 1..Cardinality(Values) : ValuesAt(doc, F, k) # {}} = 1..m
  BY <1>1, <1>4, DeepestIsLevels
<1>7. cur.argumentDepth = m
  BY <1>2, <1>4 DEF WeightInv
<1> HIDE DEF m
<1>8. Cardinality(1..m) = m
  BY <1>6, FS_Interval
<1>9. cur.argumentDepth =
        Cardinality({k \in 1..Cardinality(Values) : ValuesAt(doc, F, k) # {}})
  BY <1>6, <1>7, <1>8
<1> QED BY <1>5, <1>9 DEF WeightsAreCounted, F

\* For every document, an operation is charged for the directives on all it
\* reaches and for the depth of the deepest argument (walkSelections,
\* measureValueDepth).
THEOREM WeightsAreTheSelections == Spec => []WeightsAreCounted
BY ParserInvariant, WeighedInFull, PTL

\* What is known after k steps is known after more.
LEMMA ExpansionKept ==
  ASSUME NEW d \in Docs, NEW o, NEW k \in Nat, NEW l \in Nat, k <= l
  PROVE  Expansion(d, o, k) \subseteq Expansion(d, o, l)
<1> DEFINE E(j) == Expansion(d, o, j)
           T == {j \in Nat : E(k) \subseteq E(k + j)}
<1>1. 0 \in T
  <2>1. k + 0 = k
    OBVIOUS
  <2> QED BY <2>1
<1>2. ASSUME NEW j \in Nat, j \in T PROVE j + 1 \in T
  <2>1. E(k + j) \subseteq E((k + j) + 1)
    BY ExpansionGrows
  <2>2. (k + j) + 1 = k + (j + 1)
    OBVIOUS
  <2>3. E(k) \subseteq E(k + (j + 1))
    BY <1>2, <2>1, <2>2
  <2> QED BY <2>3
<1>3. Nat \subseteq T
  <2> HIDE DEF T
  <2> QED BY <1>1, <1>2, NatInduct
<1>4. l - k \in T
  BY <1>3
<1>5. k + (l - k) = l
  OBVIOUS
<1> QED BY <1>4, <1>5

\* Where each fragment is spread once, a selection has one path.
LEMMA OnePath ==
  ASSUME NEW d \in Docs, NEW o, NEW v, NEW ps, NEW S \in SUBSET Sels(d), NEW k \in Nat,
         SearchInv(d, o, <<>>, v, S), NEW at, PlacedBy(d, o, <<>>, v, ps, S, k, at),
         SpreadOnce(d, o), NEW l \in Nat
  PROVE  \A x \in Expansion(d, o, l) : x[1] \in S /\ x[2] = at[x[1]]
<1> DEFINE E(j) == Expansion(d, o, j)
           P(x) == x[1] \in S /\ x[2] = at[x[1]]
           T == {j \in Nat : \A x \in E(j) : P(x)}
<1>1. Waiting(<<>>) = {}
  BY DEF Waiting
<1>2. Top(d, o) \subseteq S /\ \A n \in S : Below(d, n) \subseteq S
  BY <1>1 DEF SearchInv, OwnersInv
<1>3. /\ \A n \in Top(d, o) : at[n] = <<>>
      /\ \A n \in S : \A m \in Below(d, n) : at[m] = PathAt(d, n, at[n])
  BY DEF PlacedBy
<1>4. 0 \in T
  <2>1. E(0) = {<<n, <<>>>> : n \in Top(d, o)}
    BY Expansions
  <2>2. ASSUME NEW n \in Top(d, o) PROVE P(<<n, <<>>>>)
    BY <1>2, <1>3
  <2> QED BY <2>1, <2>2
<1>5. ASSUME NEW j \in Nat, j \in T PROVE j + 1 \in T
  <2>1. E(j + 1) = E(j) \cup UNION {{<<m, PathAt(d, x[1], x[2])>> : m \in Below(d, x[1])} :
                                    x \in E(j)}
    BY Expansions
  <2>2. ASSUME NEW x \in E(j), NEW m \in Below(d, x[1]) PROVE P(<<m, PathAt(d, x[1], x[2])>>)
    <3>1. x[1] \in S /\ x[2] = at[x[1]]
      BY <1>5, <2>2
    <3>2. m \in S /\ at[m] = PathAt(d, x[1], x[2])
      BY <1>2, <1>3, <2>2, <3>1
    <3> QED BY <3>2
  <2>3. \A x \in E(j + 1) : P(x)
    <3> SUFFICES ASSUME NEW y \in E(j + 1) PROVE P(y)
      OBVIOUS
    <3>1. CASE y \in E(j)
      BY <1>5, <3>1
    <3>2. CASE y \notin E(j)
      <4>1. \E x \in E(j) : \E m \in Below(d, x[1]) : y = <<m, PathAt(d, x[1], x[2])>>
        BY <2>1, <3>2
      <4> HIDE DEF P
      <4> QED BY <2>2, <4>1
    <3> QED BY <3>1, <3>2
  <2> QED BY <2>3
<1>6. Nat \subseteq T
  <2> HIDE DEF T
  <2> QED BY <1>4, <1>5, NatInduct
<1> QED BY <1>6

\* When the walk of an operation ends, its paths are those requested.
LEMMA PlacedInFull ==
  ASSUME ParserInv
  PROVE  PathsAreRequested
<1> SUFFICES ASSUME pc = "walk", todo = <<>>
             PROVE  PathsAreRequested
  BY DEF PathsAreRequested, OperationWalked
<1>1. doc \in Docs /\ visits \in Nat /\ visits <= Len(doc.sels) /\ Len(doc.sels) \in Nat
  BY DocAssumption DEF ParserInv
<1> DEFINE ps == cur.fieldPaths
           N == Len(doc.sels)
<1>2. PICK S \in SUBSET Sels(doc) : /\ SearchInv(doc, op, <<>>, visited, S)
                                   /\ PlaceInv(doc, op, <<>>, visited, ps, S, visits)
  BY DEF ParserInv, WalkInv
<1>3. PICK at : PlacedBy(doc, op, <<>>, visited, ps, S, visits, at)
  BY <1>2 DEF PlaceInv
<1>4. Recorded = {PathAt(doc, n, at[n]) : n \in Those(doc, S, {"field"})}
  BY <1>3 DEF Recorded, PlacedBy, PathsOf, Range
<1>5. ASSUME NEW n \in Those(doc, S, {"field"})
      PROVE  PathAt(doc, n, at[n]) \in Requested(doc, op)
  <2>1. n \in S /\ doc.sels[n].kind = "field"
    BY DEF Those
  <2>2. <<n, at[n]>> \in Expansion(doc, op, visits)
    BY <1>3, <2>1 DEF PlacedBy
  <2>3. Expansion(doc, op, visits) \subseteq Expansion(doc, op, N)
    BY <1>1, ExpansionKept
  <2> DEFINE x == <<n, at[n]>>
  <2>4. x \in Expansion(doc, op, N) /\ doc.sels[x[1]].kind = "field"
    BY <2>1, <2>2, <2>3
  <2>5. x[1] = n /\ x[2] = at[n]
    OBVIOUS
  <2> HIDE DEF x
  <2>6. PathAt(doc, x[1], x[2]) \in Requested(doc, op)
    BY <2>4 DEF Requested
  <2> QED BY <2>5, <2>6
<1>6. ASSUME SpreadOnce(doc, op) PROVE Requested(doc, op) \subseteq Recorded
  <2>1. \A x \in Expansion(doc, op, N) : x[1] \in S /\ x[2] = at[x[1]]
    BY <1>1, <1>2, <1>3, <1>6, OnePath
  <2> SUFFICES ASSUME NEW x \in Expansion(doc, op, N), doc.sels[x[1]].kind = "field"
               PROVE  PathAt(doc, x[1], x[2]) \in Recorded
    BY DEF Requested
  <2>2. x[1] \in Those(doc, S, {"field"})
    BY <2>1 DEF Those
  <2> QED BY <1>4, <2>1, <2>2
<1>7. Recorded \subseteq Requested(doc, op)
  BY <1>4, <1>5
<1> QED BY <1>6, <1>7 DEF PathsAreRequested

\* For every document, the paths recorded for an operation are paths at which it
\* requests a field, and all of them if no fragment is spread twice
\* (walkSelections).
THEOREM RecordedPathsAreRequested == Spec => []PathsAreRequested
BY ParserInvariant, PlacedInFull, PTL

-----------------------------------------------------------------------------
(* The paths.                                                              *)

\* The depth of a result is the greatest length of its paths.
Measured(d, r) ==
  /\ {"depth", "fieldPaths"} \subseteq DOMAIN r
  /\ r.fieldPaths \in Seq(Paths(d))
  /\ r.depth \in Nat
  /\ \A i \in DOMAIN r.fieldPaths : Len(r.fieldPaths[i]) <= r.depth
  /\ r.depth = 0 \/ \E i \in DOMAIN r.fieldPaths : Len(r.fieldPaths[i]) = r.depth

Parents(paths) ==
  \A i \in DOMAIN paths :
    LET p == paths[i] IN
    Len(p) > 1 => \E j \in 1..(i - 1) : paths[j] = SubSeq(p, 1, Len(p) - 1)

RootedInv(d, r) == Measured(d, r) /\ Parents(r.fieldPaths)

\* What waits on the stack waits below a path that is recorded.
HangsFrom(t, paths) ==
  \A i \in DOMAIN t : /\ Len(t[i].prefix) = t[i].depth
                      /\ t[i].prefix = <<>> \/ t[i].prefix \in Range(paths)

PathInv ==
  /\ RootedInv(doc, cur)
  /\ RootedInv(doc, info)
  /\ pc = "walk" => HangsFrom(todo, cur.fieldPaths)

LEMMA RootedInvMeans ==
  ASSUME NEW d, NEW r, RootedInv(d, r)
  PROVE  Rooted(r)
<1> DEFINE L == {0} \cup {Len(r.fieldPaths[i]) : i \in DOMAIN r.fieldPaths}
<1>1. r.depth \in L /\ (\A y \in L : r.depth >= y) /\ r.depth \in Nat
  BY DEF RootedInv, Measured
<1>2. \A y \in L : y \in Nat
  BY DEF RootedInv, Measured, Paths
<1> HIDE DEF L
<1>3. \A x \in L : (\A y \in L : x >= y) => x = r.depth
  BY <1>1, <1>2
<1>4. Max(L) = r.depth
  BY <1>1, <1>3 DEF Max
<1> QED BY <1>4 DEF L, Rooted, RootedInv, Parents

\* A path is recorded after its parent's.
LEMMA PathRecorded ==
  ASSUME NEW d, NEW r, RootedInv(d, r), NEW prefix \in Paths(d),
         prefix = <<>> \/ prefix \in Range(r.fieldPaths),
         NEW n \in Sels(d), NEW s, DOMAIN s = DOMAIN r,
         s.fieldPaths = Append(r.fieldPaths, Append(prefix, d.sels[n].alias)),
         s.depth = Larger(Len(prefix) + 1, r.depth)
  PROVE  RootedInv(d, s)
<1> DEFINE f == r.fieldPaths
           g == s.fieldPaths
           p == Append(prefix, d.sels[n].alias)
<1>1. /\ p \in Paths(d) /\ Len(prefix) \in Nat /\ Len(p) = Len(prefix) + 1
      /\ Len(p) > 1 => prefix # <<>>
      /\ SubSeq(p, 1, Len(p) - 1) = prefix
  BY DEF Paths
<1>2. /\ f \in Seq(Paths(d)) /\ r.depth \in Nat
      /\ \A i \in DOMAIN f : f[i] \in Paths(d) /\ Len(f[i]) \in Nat
  <2>1. f \in Seq(Paths(d)) /\ r.depth \in Nat
    BY DEF RootedInv, Measured
  <2> HIDE DEF f
  <2>2. \A i \in DOMAIN f : f[i] \in Paths(d)
    BY <2>1
  <2> QED BY <2>1, <2>2 DEF Paths
<1> HIDE DEF p
<1>3. /\ g \in Seq(Paths(d)) /\ Len(f) \in Nat /\ DOMAIN f = 1..Len(f)
      /\ DOMAIN g = 1..(Len(f) + 1) /\ g[Len(f) + 1] = p
      /\ \A i \in 1..Len(f) : g[i] = f[i]
  <2>1. g = Append(f, p)
    BY DEF p
  <2> HIDE DEF f, g
  <2> QED BY <1>1, <1>2, <2>1
<1>4. /\ s.depth \in Nat /\ s.depth >= r.depth /\ s.depth >= Len(p)
      /\ s.depth = r.depth \/ s.depth = Len(p)
  BY <1>1, <1>2 DEF Larger
<1>5. /\ \A i \in DOMAIN f : Len(f[i]) <= r.depth
      /\ r.depth = 0 \/ \E i \in DOMAIN f : Len(f[i]) = r.depth
      /\ Parents(f) /\ {"depth", "fieldPaths"} \subseteq DOMAIN s
  BY DEF RootedInv, Measured
<1>6. prefix = <<>> \/ \E j \in DOMAIN f : f[j] = prefix
  BY DEF Range
<1> HIDE DEF f, g
<1>7. \A i \in DOMAIN g : Len(g[i]) <= s.depth
  <2> SUFFICES ASSUME NEW i \in DOMAIN g PROVE Len(g[i]) <= s.depth
    OBVIOUS
  <2>1. CASE i \in 1..Len(f)
    BY <1>2, <1>3, <1>4, <1>5, <2>1
  <2>2. CASE i = Len(f) + 1
    BY <1>3, <1>4, <2>2
  <2> QED BY <1>3, <2>1, <2>2
<1>8. s.depth = 0 \/ \E i \in DOMAIN g : Len(g[i]) = s.depth
  <2>1. \A i \in DOMAIN f : i \in DOMAIN g /\ g[i] = f[i]
    BY <1>3
  <2>2. Len(f) + 1 \in DOMAIN g
    BY <1>3
  <2> QED BY <1>3, <1>4, <1>5, <2>1, <2>2
<1>9. Parents(g)
  <2> SUFFICES ASSUME NEW i \in DOMAIN g, Len(g[i]) > 1
               PROVE  \E j \in 1..(i - 1) : g[j] = SubSeq(g[i], 1, Len(g[i]) - 1)
    BY DEF Parents
  <2>1. CASE i \in 1..Len(f)
    <3>1. g[i] = f[i]
      BY <1>3, <2>1
    <3>2. PICK j \in 1..(i - 1) : f[j] = SubSeq(f[i], 1, Len(f[i]) - 1)
      BY <1>3, <1>5, <2>1, <3>1 DEF Parents
    <3>3. g[j] = f[j]
      BY <1>3, <2>1
    <3> QED BY <3>1, <3>2, <3>3
  <2>2. CASE i = Len(f) + 1
    <3>1. g[i] = p /\ prefix # <<>>
      BY <1>1, <1>3, <2>2
    <3>2. PICK j \in DOMAIN f : f[j] = prefix
      BY <1>6, <3>1
    <3>3. j \in 1..(i - 1) /\ g[j] = f[j]
      BY <1>3, <2>2
    <3> QED BY <1>1, <3>1, <3>2, <3>3
  <2> QED BY <1>3, <2>1, <2>2
<1> QED BY <1>3, <1>4, <1>5, <1>7, <1>8, <1>9 DEF RootedInv, Measured, g

\* The paths of two operations, one's after the other's.
LEMMA Joined ==
  ASSUME NEW d, NEW a, NEW b, RootedInv(d, a), RootedInv(d, b), NEW s, DOMAIN s = DOMAIN a,
         s.fieldPaths = a.fieldPaths \o b.fieldPaths, s.depth = Larger(b.depth, a.depth)
  PROVE  RootedInv(d, s)
<1> DEFINE f == a.fieldPaths
           g == b.fieldPaths
           h == s.fieldPaths
<1>1. /\ f \in Seq(Paths(d)) /\ g \in Seq(Paths(d)) /\ a.depth \in Nat /\ b.depth \in Nat
      /\ \A i \in DOMAIN f : Len(f[i]) <= a.depth /\ Len(f[i]) \in Nat
      /\ \A i \in DOMAIN g : Len(g[i]) <= b.depth /\ Len(g[i]) \in Nat
      /\ a.depth = 0 \/ \E i \in DOMAIN f : Len(f[i]) = a.depth
      /\ b.depth = 0 \/ \E i \in DOMAIN g : Len(g[i]) = b.depth
      /\ Parents(f) /\ Parents(g) /\ {"depth", "fieldPaths"} \subseteq DOMAIN s
  BY DEF RootedInv, Measured, Paths
<1>2. /\ s.depth \in Nat /\ s.depth >= a.depth /\ s.depth >= b.depth
      /\ s.depth = a.depth \/ s.depth = b.depth
  BY <1>1 DEF Larger
<1>3. h = f \o g
  OBVIOUS
<1> HIDE DEF f, g, h
<1>4. /\ h \in Seq(Paths(d))
      /\ Len(h) = Len(f) + Len(g)
      /\ \A i \in 1..Len(h) : h[i] = IF i <= Len(f) THEN f[i] ELSE g[i - Len(f)]
  BY <1>1, <1>3, ConcatProperties
<1>5. /\ Len(f) \in Nat /\ Len(g) \in Nat
      /\ DOMAIN f = 1..Len(f) /\ DOMAIN g = 1..Len(g) /\ DOMAIN h = 1..Len(h)
  BY <1>1, <1>4
<1>6. \A i \in DOMAIN h : \/ i \in DOMAIN f /\ h[i] = f[i]
                          \/ i - Len(f) \in DOMAIN g /\ h[i] = g[i - Len(f)]
  BY <1>4, <1>5
<1>7. \A i \in DOMAIN f : i \in DOMAIN h /\ h[i] = f[i]
  BY <1>4, <1>5
<1>8. \A i \in DOMAIN g : i + Len(f) \in DOMAIN h /\ h[i + Len(f)] = g[i]
  BY <1>4, <1>5
<1>9. \A i \in DOMAIN h : Len(h[i]) <= s.depth
  BY <1>1, <1>2, <1>6
<1>10. s.depth = 0 \/ \E i \in DOMAIN h : Len(h[i]) = s.depth
  BY <1>1, <1>2, <1>7, <1>8
<1>11. Parents(h)
  <2> SUFFICES ASSUME NEW i \in DOMAIN h, Len(h[i]) > 1
               PROVE  \E j \in 1..(i - 1) : h[j] = SubSeq(h[i], 1, Len(h[i]) - 1)
    BY DEF Parents
  <2>1. CASE i \in DOMAIN f /\ h[i] = f[i]
    <3>1. PICK j \in 1..(i - 1) : f[j] = SubSeq(f[i], 1, Len(f[i]) - 1)
      BY <1>1, <2>1 DEF Parents
    <3>2. h[j] = f[j]
      BY <1>5, <1>7, <2>1
    <3> QED BY <2>1, <3>1, <3>2
  <2>2. CASE i - Len(f) \in DOMAIN g /\ h[i] = g[i - Len(f)]
    <3> DEFINE k == i - Len(f)
    <3>1. PICK j \in 1..(k - 1) : g[j] = SubSeq(g[k], 1, Len(g[k]) - 1)
      BY <1>1, <2>2 DEF Parents
    <3>2. j + Len(f) \in 1..(i - 1) /\ j \in DOMAIN g
      BY <1>5, <2>2
    <3>3. h[j + Len(f)] = g[j]
      BY <1>8, <3>2
    <3> QED BY <2>2, <3>1, <3>2, <3>3
  <2> QED BY <1>6, <2>1, <2>2
<1> QED BY <1>1, <1>2, <1>4, <1>9, <1>10, <1>11 DEF RootedInv, Measured, h

\* What is put on the stack hangs from the paths, and the rest of it still does
\* if there are more of them.
LEMMA StillHangs ==
  ASSUME doc \in Docs, NEW t \in Seq(Work(doc)), t # <<>>, NEW f, NEW g, HangsFrom(t, f),
         Range(f) \subseteq Range(g), NEW x, NEW prefix \in Paths(doc), NEW depth \in Nat,
         Len(prefix) = depth, prefix = <<>> \/ prefix \in Range(g)
  PROVE  HangsFrom(Pending(x, prefix, depth) \o Tail(t), g) /\ HangsFrom(Tail(t), g)
<1> DEFINE q == Pending(x, prefix, depth)
           r == Tail(t)
           u == q \o r
<1>1. q \in Seq(Work(doc))
  BY PendingStack
<1>2. \A i \in DOMAIN q : q[i].prefix = prefix /\ q[i].depth = depth
  BY DEF Pending
<1>3. r \in Seq(Work(doc)) /\ \A i \in DOMAIN r : i + 1 \in DOMAIN t /\ r[i] = t[i + 1]
  BY HeadTailProperties
<1> HIDE DEF q, r
<1>4. \A i \in DOMAIN u : \/ i \in DOMAIN q /\ u[i] = q[i]
                          \/ i - Len(q) \in DOMAIN r /\ u[i] = r[i - Len(q)]
  <2>1. /\ u \in Seq(Work(doc)) /\ Len(u) = Len(q) + Len(r)
        /\ \A i \in 1..Len(u) : u[i] = IF i <= Len(q) THEN q[i] ELSE r[i - Len(q)]
    BY <1>1, <1>3, ConcatProperties
  <2>2. /\ Len(q) \in Nat /\ Len(r) \in Nat
        /\ DOMAIN q = 1..Len(q) /\ DOMAIN r = 1..Len(r) /\ DOMAIN u = 1..Len(u)
    BY <1>1, <1>3, <2>1
  <2> HIDE DEF u
  <2> QED BY <2>1, <2>2
<1> HIDE DEF u
<1>5. HangsFrom(r, g)
  BY <1>3 DEF HangsFrom
<1>6. HangsFrom(u, g)
  BY <1>2, <1>4, <1>5 DEF HangsFrom
<1> QED BY <1>5, <1>6 DEF u, q, r

LEMMA BeginPaths ==
  ASSUME ParserInv, PathInv, BeginOperation
  PROVE  PathInv'
<1>1. doc' = doc /\ info' = info /\ todo' = Pending(<<"op", op>>, <<>>, 0)
  BY DEF BeginOperation
<1>2. /\ {"depth", "fieldPaths"} \subseteq DOMAIN cur'
      /\ cur'.depth = 0 /\ cur'.fieldPaths = <<>>
  BY DEF BeginOperation, NewInfo
<1>3. RootedInv(doc, cur')
  BY <1>2 DEF RootedInv, Measured, Parents
<1>4. HangsFrom(todo', cur'.fieldPaths)
  BY <1>1 DEF HangsFrom, Pending
<1> QED BY <1>1, <1>3, <1>4 DEF PathInv

LEMMA VisitPaths ==
  ASSUME ParserInv, PathInv, VisitField \/ VisitInline \/ VisitSpread
  PROVE  PathInv'
<1>1. pc = "walk" /\ todo # <<>> /\ doc' = doc /\ pc' = pc /\ info' = info
  BY DEF VisitField, VisitInline, VisitSpread, Visit
<1>2. doc \in Docs
  BY DEF ParserInv
<1>3. PICK S \in SUBSET Sels(doc) : SearchInv(doc, op, todo, visited, S)
  BY <1>1 DEF ParserInv, WalkInv
<1>4. todo \in Seq(Work(doc)) /\ Item \in Work(doc)
  BY <1>1, <1>2, <1>3, TopOfStack DEF SearchInv, StackInv
<1> DEFINE f == cur.fieldPaths
           p == Item.prefix
<1>5. RootedInv(doc, cur) /\ HangsFrom(todo, f)
  BY <1>1 DEF PathInv
<1>6. /\ Item.sel \in Sels(doc) /\ p \in Paths(doc) /\ Item.depth \in Nat
      /\ Len(p) = Item.depth
      /\ p = <<>> \/ p \in Range(f)
  <2>1. Item = todo[1] /\ 1 \in DOMAIN todo
    BY <1>1, <1>4 DEF Item
  <2> QED BY <1>4, <1>5, <2>1 DEF Work, HangsFrom
<1>7. CASE VisitField
  <2> DEFINE path == Append(p, Sel.alias)
             g == cur'.fieldPaths
  <2>1. /\ todo' = Pending(<<"sel", Item.sel>>, path, Item.depth + 1) \o Tail(todo)
        /\ DOMAIN cur' = DOMAIN cur
        /\ g = Append(f, path) /\ cur'.depth = Larger(Item.depth + 1, cur.depth)
    BY <1>5, <1>7 DEF VisitField, RecordPath, RootedInv, Measured
  <2>2. Sel = doc.sels[Item.sel]
    BY DEF Sel
  <2>3. RootedInv(doc, cur')
    BY <1>5, <1>6, <2>1, <2>2, PathRecorded
  <2>4. path \in Paths(doc) /\ Len(path) = Item.depth + 1 /\ Item.depth + 1 \in Nat
    BY <1>6, <2>2 DEF Paths
  <2>5. f \in Seq(Paths(doc))
    BY <1>5 DEF RootedInv, Measured
  <2> HIDE DEF path, f
  <2>6. Range(f) \subseteq Range(g) /\ path \in Range(g)
    <3>1. /\ Len(f) \in Nat /\ DOMAIN f = 1..Len(f) /\ DOMAIN g = 1..(Len(f) + 1)
          /\ g[Len(f) + 1] = path /\ \A i \in 1..Len(f) : g[i] = f[i]
      BY <2>1, <2>4, <2>5
    <3>2. Len(f) + 1 \in DOMAIN g /\ \A i \in DOMAIN f : i \in DOMAIN g
      BY <3>1
    <3> QED BY <3>1, <3>2 DEF Range
  <2>7. HangsFrom(todo', g)
    BY <1>1, <1>2, <1>4, <1>5, <2>1, <2>4, <2>6, StillHangs
  <2> QED BY <1>1, <2>3, <2>7 DEF PathInv
<1>8. CASE VisitInline \/ VisitSpread
  <2>1. \/ \E x : todo' = Pending(x, p, Item.depth) \o Tail(todo)
        \/ todo' = Tail(todo)
    BY <1>8 DEF VisitInline, VisitSpread
  <2>2. DOMAIN cur' = DOMAIN cur /\ cur'.fieldPaths = f /\ cur'.depth = cur.depth
    BY <1>5, <1>8 DEF VisitInline, VisitSpread, CountFragment, RootedInv, Measured
  <2>3. RootedInv(doc, cur')
    BY <1>5, <2>2 DEF RootedInv, Measured
  <2>4. HangsFrom(todo', f)
    BY <1>1, <1>2, <1>4, <1>5, <1>6, <2>1, StillHangs
  <2> QED BY <1>1, <2>2, <2>3, <2>4 DEF PathInv
<1> QED BY <1>7, <1>8

LEMMA EndPaths ==
  ASSUME PathInv, EndOperation
  PROVE  PathInv'
<1>1. doc' = doc /\ pc' # "walk" /\ info' = Aggregate(info, cur')
  BY DEF EndOperation
<1>2. RootedInv(doc, info) /\ RootedInv(doc, cur)
  BY DEF PathInv
<1>3. /\ DOMAIN cur' = DOMAIN cur
      /\ cur'.depth = cur.depth /\ cur'.fieldPaths = cur.fieldPaths
  BY <1>2 DEF EndOperation, RootedInv, Measured
<1>4. RootedInv(doc, cur')
  BY <1>2, <1>3 DEF RootedInv, Measured
<1>5. /\ DOMAIN info' = DOMAIN info
      /\ info'.fieldPaths = info.fieldPaths \o cur'.fieldPaths
      /\ info'.depth = Larger(cur'.depth, info.depth)
  BY <1>1, <1>2 DEF Aggregate, Measures, RootedInv, Measured
<1>6. RootedInv(doc, info')
  BY <1>2, <1>4, <1>5, Joined
<1> QED BY <1>1, <1>4, <1>6 DEF PathInv

LEMMA PathStep ==
  ASSUME ParserInv, PathInv, [Next]_vars
  PROVE  PathInv'
<1>1. CASE Parse
  <2>1. /\ doc' = doc /\ cur' = cur /\ pc' # "walk"
        /\ \/ info' = info
           \/ /\ {"depth", "fieldPaths"} \subseteq DOMAIN info'
              /\ info'.depth = 0 /\ info'.fieldPaths = <<>>
    BY <1>1 DEF Parse, walkVars, NewInfo
  <2>2. CASE info' = info
    BY <2>1, <2>2 DEF PathInv
  <2>3. CASE /\ {"depth", "fieldPaths"} \subseteq DOMAIN info'
             /\ info'.depth = 0 /\ info'.fieldPaths = <<>>
    <3>1. RootedInv(doc, info')
      BY <2>3 DEF RootedInv, Measured, Parents
    <3> QED BY <2>1, <3>1 DEF PathInv
  <2> QED BY <2>1, <2>2, <2>3
<1>2. CASE BeginOperation
  BY <1>2, BeginPaths
<1>3. CASE VisitField \/ VisitInline \/ VisitSpread
  BY <1>3, VisitPaths
<1>4. CASE EndOperation
  BY <1>4, EndPaths
<1>5. CASE UNCHANGED parserVars
  BY <1>5 DEF PathInv, parserVars, walkVars
<1> QED BY <1>1, <1>2, <1>3, <1>4, <1>5 DEF Next, ParserNext, Inspect, vars

LEMMA PathInvariant == Spec => []PathInv
<1>1. Init => PathInv
  <2> SUFFICES ASSUME Init PROVE PathInv
    OBVIOUS
  <2>1. cur = NewInfo /\ info = NewInfo /\ pc = "parse"
    BY DEF Init, ParserInit
  <2>2. RootedInv(doc, NewInfo)
    BY DEF RootedInv, Measured, Parents, NewInfo
  <2> QED BY <2>1, <2>2 DEF PathInv
<1> QED BY <1>1, ParserInvariant, PathStep, PTL DEF Spec

\* For every document, each recorded path follows its parent's and the depth is
\* the greatest length of them, in every operation and in the result
\* (walkSelections, parseGraphQL).
THEOREM EveryPathHasItsParent == Spec => []PathsHaveParents
<1>1. PathInv => PathsHaveParents
  BY RootedInvMeans DEF PathInv, PathsHaveParents
<1> QED BY <1>1, PathInvariant, PTL

=============================================================================
