----------------------------- MODULE Induction -----------------------------
(***************************************************************************)
(* Induction and recursion for the proofs about the parser, stated with    *)
(* sets and functions instead of operators.  They rest on the order of the *)
(* natural numbers being well-founded (WellFoundedInduction).              *)
(*                                                                         *)
(* A set X is ranked by a function into the natural numbers; the members   *)
(* of a lower rank than x are Lower(X, rank, x).                           *)
(***************************************************************************)
EXTENDS Integers, FiniteSets, FiniteSetsExt, FiniteSetTheorems,
        WellFoundedInduction, TLAPS

Lower(X, rank, x) == {y \in X : rank[y] < rank[x]}

\* Of natural numbers there is a least.
LEMMA Least ==
  ASSUME NEW T \in SUBSET Nat, T # {}
  PROVE  \E m \in T : \A k \in T : m <= k
<1> DEFINE R == OpToRel(<, Nat)
<1>1. IsWellFoundedOn(R, Nat)
  BY NatLessThanWellFounded
<1>2. \A x, y \in Nat : <<x, y>> \in R <=> x < y
  BY DEF OpToRel
<1> HIDE DEF R
<1>3. PICK m \in T : \A k \in T : ~(<<k, m>> \in R)
  BY <1>1, WFMin
<1>4. \A k \in T : k \in Nat /\ m \in Nat /\ ~(k < m)
  BY <1>2, <1>3
<1>5. \A k \in T : m <= k
  BY <1>4
<1> QED BY <1>5

\* A set that holds each member of X whose lower members it holds, holds X.
LEMMA RankInduction ==
  ASSUME NEW X, NEW rank \in [X -> Nat], NEW T,
         \A x \in X : Lower(X, rank, x) \subseteq T => x \in T
  PROVE  X \subseteq T
<1> DEFINE Bad == X \ T
           N == {rank[x] : x \in Bad}
<1> SUFFICES ASSUME Bad # {} PROVE FALSE
  OBVIOUS
<1>1. N \in SUBSET Nat /\ N # {}
  OBVIOUS
<1>2. PICK m \in N : \A k \in N : m <= k
  BY <1>1, Least
<1>3. PICK x \in Bad : m = rank[x]
  OBVIOUS
<1>4. \A y \in X : rank[y] < rank[x] => y \in T
  <2> SUFFICES ASSUME NEW y \in X, rank[y] < rank[x], y \notin T PROVE FALSE
    OBVIOUS
  <2>1. rank[y] \in N /\ rank[y] \in Nat /\ rank[x] \in Nat
    BY <1>3
  <2> QED BY <1>2, <1>3, <2>1
<1>5. Lower(X, rank, x) \subseteq T
  BY <1>4 DEF Lower
<1> QED BY <1>5

LEMMA NatInduct ==
  ASSUME NEW T, 0 \in T, \A n \in Nat : n \in T => n + 1 \in T
  PROVE  Nat \subseteq T
<1> DEFINE Bad == Nat \ T
<1> SUFFICES ASSUME Bad # {} PROVE FALSE
  OBVIOUS
<1>1. PICK m \in Bad : \A k \in Bad : m <= k
  BY Least
<1>2. m # 0 /\ m - 1 \in Nat /\ m - 1 \notin Bad
  BY <1>1
<1> QED BY <1>1, <1>2

-----------------------------------------------------------------------------
(* Recursion: step gives the value at x from x and the values lower down.  *)

Restricted(X, rank, x, f) == [y \in Lower(X, rank, x) |-> f[y]]

Solves(X, rank, step, f, D) ==
  \A x \in D : f[x] = step[<<x, Restricted(X, rank, x, f)>>]

\* The members of a rank lower than n, and a solution on them.
Under(X, rank, n) == {x \in X : rank[x] < n}
UpTo(X, rank, step, V, n, f) ==
  f \in [Under(X, rank, n) -> V] /\ Solves(X, rank, step, f, Under(X, rank, n))

LEMMA SolvedUpTo ==
  ASSUME NEW X, NEW rank \in [X -> Nat], NEW V, NEW step,
         \A x \in X : \A g \in [Lower(X, rank, x) -> V] : step[<<x, g>>] \in V
  PROVE  \A n \in Nat : \E f : UpTo(X, rank, step, V, n, f)
<1> DEFINE D(n) == Under(X, rank, n)
           P(n) == \E f : UpTo(X, rank, step, V, n, f)
           T == {n \in Nat : P(n)}
<1>1. P(0)
  <2> DEFINE f == [x \in D(0) |-> x]
  <2>1. D(0) = {}
    BY DEF Under
  <2>2. UpTo(X, rank, step, V, 0, f)
    BY <2>1 DEF UpTo, Solves
  <2> QED BY <2>2
<1>2. ASSUME NEW n \in Nat, P(n)
      PROVE  P(n + 1)
  <2>1. PICK f : UpTo(X, rank, step, V, n, f)
    BY <1>2
  <2> DEFINE g == [x \in D(n + 1) |-> step[<<x, Restricted(X, rank, x, f)>>]]
  <2>2. \A x \in D(n + 1) : /\ x \in X
                            /\ Lower(X, rank, x) \subseteq D(n)
                            /\ Lower(X, rank, x) \subseteq D(n + 1)
    BY DEF Under, Lower
  <2>3. f \in [D(n) -> V] /\ D(n) \subseteq D(n + 1)
    BY <2>1 DEF UpTo, Under
  <2>4. \A x \in D(n) : g[x] = f[x]
    BY <2>1, <2>3 DEF UpTo, Solves
  <2>5. \A x \in D(n + 1) : Restricted(X, rank, x, f) = Restricted(X, rank, x, g)
    BY <2>2, <2>4 DEF Restricted
  <2>6. \A x \in D(n + 1) : g[x] \in V
    <3> SUFFICES ASSUME NEW x \in D(n + 1)
                 PROVE  step[<<x, Restricted(X, rank, x, f)>>] \in V
      OBVIOUS
    <3>1. \A y \in Lower(X, rank, x) : f[y] \in V
      BY <2>2, <2>3
    <3>2. Restricted(X, rank, x, f) \in [Lower(X, rank, x) -> V]
      BY <3>1 DEF Restricted
    <3> QED BY <2>2, <3>2
  <2>7. UpTo(X, rank, step, V, n + 1, g)
    BY <2>5, <2>6 DEF UpTo, Solves
  <2> QED BY <2>7
<1> HIDE DEF P
<1>3. 0 \in T /\ \A n \in Nat : n \in T => n + 1 \in T
  BY <1>1, <1>2
<1> HIDE DEF T
<1>4. Nat \subseteq T
  BY <1>3, NatInduct
<1> QED BY <1>4 DEF P, T

\* Two solutions agree where both are.
LEMMA SameSolution ==
  ASSUME NEW X, NEW rank \in [X -> Nat], NEW V, NEW step, NEW m \in Nat, NEW n \in Nat,
         NEW f, UpTo(X, rank, step, V, m, f), NEW g, UpTo(X, rank, step, V, n, g),
         NEW x \in X, rank[x] < m, rank[x] < n
  PROVE  f[x] = g[x]
<1> DEFINE T == {y \in X : rank[y] < m /\ rank[y] < n => f[y] = g[y]}
<1>1. ASSUME NEW y \in X, Lower(X, rank, y) \subseteq T
      PROVE  y \in T
  <2> SUFFICES ASSUME rank[y] < m, rank[y] < n PROVE f[y] = g[y]
    OBVIOUS
  <2>1. \A z \in Lower(X, rank, y) : f[z] = g[z]
    BY <1>1 DEF Lower
  <2>2. Restricted(X, rank, y, f) = Restricted(X, rank, y, g)
    BY <2>1 DEF Restricted
  <2> QED BY <2>2 DEF UpTo, Solves, Under
<1>2. X \subseteq T
  <2> HIDE DEF T
  <2> QED BY <1>1, RankInduction
<1> QED BY <1>2

LEMMA RankRecursion ==
  ASSUME NEW X, NEW rank \in [X -> Nat], NEW V, NEW step,
         \A x \in X : \A g \in [Lower(X, rank, x) -> V] : step[<<x, g>>] \in V
  PROVE  \E f \in [X -> V] : Solves(X, rank, step, f, X)
<1> DEFINE U(n, f) == UpTo(X, rank, step, V, n, f)
           at(x) == CHOOSE f : U(rank[x] + 1, f)
           F == [x \in X |-> at(x)[x]]
<1>1. \A x \in X : U(rank[x] + 1, at(x))
  <2> SUFFICES ASSUME NEW x \in X PROVE U(rank[x] + 1, at(x))
    OBVIOUS
  <2>1. rank[x] + 1 \in Nat
    OBVIOUS
  <2>2. \E f : U(rank[x] + 1, f)
    BY <2>1, SolvedUpTo
  <2> QED BY <2>2
<1> HIDE DEF at
<1>2. ASSUME NEW x \in X
      PROVE  F[x] \in V /\ F[x] = step[<<x, Restricted(X, rank, x, F)>>]
  <2>1. x \in Under(X, rank, rank[x] + 1)
    BY DEF Under
  <2>2. at(x)[x] \in V /\ at(x)[x] = step[<<x, Restricted(X, rank, x, at(x))>>]
    BY <1>1, <2>1 DEF UpTo, Solves
  <2>3. \A y \in Lower(X, rank, x) : at(x)[y] = at(y)[y]
    <3> SUFFICES ASSUME NEW y \in X, rank[y] < rank[x] PROVE at(x)[y] = at(y)[y]
      BY DEF Lower
    <3>1. /\ rank[x] + 1 \in Nat /\ rank[y] + 1 \in Nat
          /\ rank[y] < rank[x] + 1 /\ rank[y] < rank[y] + 1
      OBVIOUS
    <3>2. U(rank[x] + 1, at(x)) /\ U(rank[y] + 1, at(y))
      BY <1>1
    <3> QED BY <3>1, <3>2, SameSolution
  <2>4. Restricted(X, rank, x, at(x)) = Restricted(X, rank, x, F)
    BY <2>3 DEF Restricted, Lower
  <2> QED BY <2>2, <2>4
<1>3. F \in [X -> V] /\ Solves(X, rank, step, F, X)
  BY <1>2 DEF Solves
<1> QED BY <1>3

\* The iteration of a function from a first value.
LEMMA NatRecursion ==
  ASSUME NEW V, NEW a \in V, NEW next \in [V -> V]
  PROVE  \E f \in [Nat -> V] : f[0] = a /\ \A k \in Nat : f[k + 1] = next[f[k]]
<1> DEFINE rank == [k \in Nat |-> k]
           G == UNION {[Y -> V] : Y \in SUBSET Nat}
           step == [p \in Nat \X G |-> IF p[1] = 0 THEN a ELSE next[p[2][p[1] - 1]]]
<1>1. rank \in [Nat -> Nat]
  OBVIOUS
<1>2. \A k \in Nat : Lower(Nat, rank, k) = {j \in Nat : j < k}
  BY DEF Lower
<1> HIDE DEF rank
<1>3. \A k \in Nat : \A f \in [Lower(Nat, rank, k) -> V] :
        step[<<k, f>>] = IF k = 0 THEN a ELSE next[f[k - 1]]
  <2> SUFFICES ASSUME NEW k \in Nat, NEW f \in [Lower(Nat, rank, k) -> V]
               PROVE  step[<<k, f>>] = IF k = 0 THEN a ELSE next[f[k - 1]]
    OBVIOUS
  <2>1. Lower(Nat, rank, k) \in SUBSET Nat
    BY DEF Lower
  <2>2. f \in G
    BY <2>1
  <2> HIDE DEF G
  <2> QED BY <2>2
<1> HIDE DEF step
<1>4. \A k \in Nat : \A f \in [Lower(Nat, rank, k) -> V] : step[<<k, f>>] \in V
  <2> SUFFICES ASSUME NEW k \in Nat, NEW f \in [Lower(Nat, rank, k) -> V]
               PROVE  step[<<k, f>>] \in V
    OBVIOUS
  <2>1. CASE k = 0
    BY <1>3, <2>1
  <2>2. CASE k # 0
    <3>1. k - 1 \in Lower(Nat, rank, k)
      BY <1>2, <2>2
    <3> QED BY <1>3, <2>2, <3>1
  <2> QED BY <2>1, <2>2
<1>5. PICK f \in [Nat -> V] : Solves(Nat, rank, step, f, Nat)
  BY <1>1, <1>4, RankRecursion
<1>6. \A k \in Nat : f[k] = IF k = 0 THEN a ELSE next[f[k - 1]]
  <2> SUFFICES ASSUME NEW k \in Nat PROVE f[k] = IF k = 0 THEN a ELSE next[f[k - 1]]
    OBVIOUS
  <2> DEFINE h == Restricted(Nat, rank, k, f)
  <2>1. h \in [Lower(Nat, rank, k) -> V] /\ (k # 0 => h[k - 1] = f[k - 1])
    <3>1. /\ Lower(Nat, rank, k) \in SUBSET Nat
          /\ k # 0 => k - 1 \in Lower(Nat, rank, k)
      BY <1>2
    <3> QED BY <1>5, <3>1 DEF Restricted
  <2>2. f[k] = step[<<k, h>>]
    BY <1>5 DEF Solves
  <2> HIDE DEF h
  <2> QED BY <1>3, <2>1, <2>2
<1>7. f[0] = a /\ \A k \in Nat : f[k + 1] = next[f[k]]
  BY <1>6
<1> QED BY <1>7

-----------------------------------------------------------------------------
(* Finite sets of numbers.                                                 *)

\* Induction over the subsets of a finite set, one more member at a time.
LEMMA SetInduct ==
  ASSUME NEW S, IsFiniteSet(S), NEW T, {} \in T,
         \A s \in SUBSET S : \A x \in s : s \ {x} \in T => s \in T
  PROVE  SUBSET S \subseteq T
<1> DEFINE X == SUBSET S
           rank == [s \in X |-> Cardinality(s)]
<1>1. \A s \in X : IsFiniteSet(s) /\ Cardinality(s) \in Nat
  BY FS_Subset, FS_CardinalityType
<1>2. rank \in [X -> Nat]
  BY <1>1
<1>3. ASSUME NEW s \in X, Lower(X, rank, s) \subseteq T
      PROVE  s \in T
  <2>1. CASE s = {}
    BY <2>1
  <2>2. CASE s # {}
    <3>1. PICK x \in s : TRUE
      BY <2>2
    <3>2. Cardinality(s \ {x}) = Cardinality(s) - 1
      BY <1>1, <3>1, FS_RemoveElement
    <3>3. s \ {x} \in Lower(X, rank, s)
      BY <1>1, <3>2 DEF Lower
    <3> QED BY <1>3, <3>1, <3>3
  <2> QED BY <2>1, <2>2
<1> HIDE DEF X, rank
<1>4. X \subseteq T
  BY <1>2, <1>3, RankInduction
<1> QED BY <1>4 DEF X

LEMMA FiniteImage ==
  ASSUME NEW S, IsFiniteSet(S), NEW e
  PROVE  IsFiniteSet({e[x] : x \in S})
<1> DEFINE T == {e[x] : x \in S}
           f == [x \in S |-> e[x]]
<1>1. f \in Surjection(S, T)
  BY DEF Surjection
<1> HIDE DEF T, f
<1>2. IsFiniteSet(T)
  BY <1>1, FS_Surjection
<1> QED BY <1>2 DEF T

\* The maximum of numbers that have a bound.
LEMMA MaxOfBounded ==
  ASSUME NEW S \in SUBSET Nat, S # {}, NEW b \in Nat, \A x \in S : x <= b
  PROVE  Max(S) \in S /\ Max(S) \in Nat /\ \A x \in S : x <= Max(S)
<1> DEFINE B == {k \in Nat : \A x \in S : x <= k}
<1>1. PICK m \in B : \A k \in B : m <= k
  <2>1. b \in B /\ B \in SUBSET Nat
    OBVIOUS
  <2> HIDE DEF B
  <2> QED BY <2>1, Least
<1>2. m \in S
  <2> SUFFICES ASSUME m \notin S PROVE FALSE
    OBVIOUS
  <2>1. PICK y \in S : TRUE
    OBVIOUS
  <2>2. \A x \in S : x \in Nat /\ x <= m /\ x # m
    BY <1>1
  <2>3. m \in Nat /\ m # 0
    BY <1>1, <2>1, <2>2
  <2>4. m - 1 \in Nat /\ \A x \in S : x <= m - 1
    BY <2>2, <2>3
  <2>5. m <= m - 1
    BY <1>1, <2>4
  <2> QED BY <2>3, <2>5
<1>3. \A x \in S : x \in Nat /\ m >= x /\ m \in Nat
  BY <1>1, <1>2
<1>4. \E x \in S : \A y \in S : x >= y
  BY <1>2, <1>3
<1>5. Max(S) \in S /\ \A y \in S : Max(S) >= y
  BY <1>4 DEF Max
<1> QED BY <1>3, <1>5

LEMMA MaxIs ==
  ASSUME NEW S \in SUBSET Nat, NEW m \in S, \A x \in S : x <= m
  PROVE  Max(S) = m
<1>1. \A x \in S : x \in Nat /\ m \in Nat /\ m >= x
  OBVIOUS
<1>2. \E x \in S : \A y \in S : x >= y
  BY <1>1
<1>3. Max(S) \in S /\ \A y \in S : Max(S) >= y
  BY <1>2 DEF Max
<1>4. Max(S) \in Nat /\ Max(S) >= m /\ m >= Max(S) /\ m \in Nat
  BY <1>1, <1>3
<1> QED BY <1>4

LEMMA FiniteIsBounded ==
  ASSUME NEW S \in SUBSET Nat, IsFiniteSet(S)
  PROVE  \E b \in Nat : \A x \in S : x <= b
<1> DEFINE T == {s \in SUBSET S : \E b \in Nat : \A x \in s : x <= b}
<1>1. {} \in T
  OBVIOUS
<1>2. ASSUME NEW s \in SUBSET S, NEW x \in s, s \ {x} \in T
      PROVE  s \in T
  <2>1. PICK b \in Nat : \A y \in s \ {x} : y <= b
    BY <1>2
  <2>2. x \in Nat
    BY <1>2
  <2>3. b + x \in Nat /\ \A y \in s : y \in Nat /\ y <= b + x
    BY <2>1, <2>2
  <2> QED BY <2>3
<1>3. SUBSET S \subseteq T
  <2> HIDE DEF T
  <2> QED BY <1>1, <1>2, SetInduct
<1> QED BY <1>3

LEMMA MaxOfFinite ==
  ASSUME NEW S \in SUBSET Nat, S # {}, IsFiniteSet(S)
  PROVE  Max(S) \in S /\ Max(S) \in Nat /\ \A x \in S : x <= Max(S)
<1>1. PICK b \in Nat : \A x \in S : x <= b
  BY FiniteIsBounded
<1> QED BY <1>1, MaxOfBounded

-----------------------------------------------------------------------------
(* Sums.  MapThenSumSet(op, S) is f[S] for a function f that takes one     *)
(* member after the other away; which one does not matter.                 *)

Pick(s) == CHOOSE x \in s : TRUE

TakingAway(w, S, f) ==
  f = [s \in SUBSET S |-> IF s = {} THEN 0 ELSE w[Pick(s)] + f[s \ {Pick(s)}]]

LEMMA SumExists ==
  ASSUME NEW S, IsFiniteSet(S), NEW w, \A x \in S : w[x] \in Nat
  PROVE  \E f : TakingAway(w, S, f)
<1> DEFINE X == SUBSET S
           rank == [s \in X |-> Cardinality(s)]
           G == UNION {[Y -> Nat] : Y \in SUBSET X}
           step == [p \in X \X G |-> IF p[1] = {} THEN 0
                                     ELSE w[Pick(p[1])] + p[2][p[1] \ {Pick(p[1])}]]
<1>1. \A s \in X : IsFiniteSet(s) /\ Cardinality(s) \in Nat
  BY FS_Subset, FS_CardinalityType
<1>2. rank \in [X -> Nat]
  BY <1>1
<1>3. \A s \in X : s # {} =>
        Pick(s) \in s /\ w[Pick(s)] \in Nat /\ s \ {Pick(s)} \in Lower(X, rank, s)
  <2> SUFFICES ASSUME NEW s \in X, s # {}
               PROVE  Pick(s) \in s /\ w[Pick(s)] \in Nat
                      /\ s \ {Pick(s)} \in Lower(X, rank, s)
    OBVIOUS
  <2>1. Pick(s) \in s
    BY DEF Pick
  <2>2. Cardinality(s \ {Pick(s)}) = Cardinality(s) - 1
    BY <1>1, <2>1, FS_RemoveElement
  <2> QED BY <1>1, <2>1, <2>2 DEF Lower
<1>4. \A s \in X : Lower(X, rank, s) \in SUBSET X
  BY DEF Lower
<1> HIDE DEF X, rank
<1>5. \A s \in X : \A g \in [Lower(X, rank, s) -> Nat] :
        g \in G /\ step[<<s, g>>] = IF s = {} THEN 0 ELSE w[Pick(s)] + g[s \ {Pick(s)}]
  <2> SUFFICES ASSUME NEW s \in X, NEW g \in [Lower(X, rank, s) -> Nat]
               PROVE  g \in G /\ step[<<s, g>>] =
                        IF s = {} THEN 0 ELSE w[Pick(s)] + g[s \ {Pick(s)}]
    OBVIOUS
  <2>1. g \in G
    BY <1>4
  <2> HIDE DEF G
  <2> QED BY <2>1
<1> HIDE DEF step
<1>6. \A s \in X : \A g \in [Lower(X, rank, s) -> Nat] : step[<<s, g>>] \in Nat
  <2> SUFFICES ASSUME NEW s \in X, NEW g \in [Lower(X, rank, s) -> Nat]
               PROVE  step[<<s, g>>] \in Nat
    OBVIOUS
  <2>1. CASE s = {}
    <3>1. step[<<s, g>>] = 0
      BY <1>5, <2>1
    <3> QED BY <3>1
  <2>2. CASE s # {}
    <3>1. w[Pick(s)] \in Nat /\ g[s \ {Pick(s)}] \in Nat
      BY <1>3, <2>2
    <3>2. step[<<s, g>>] = w[Pick(s)] + g[s \ {Pick(s)}]
      BY <1>5, <2>2
    <3> QED BY <3>1, <3>2
  <2> QED BY <2>1, <2>2
<1>7. PICK f \in [X -> Nat] : Solves(X, rank, step, f, X)
  BY <1>2, <1>6, RankRecursion
<1>8. \A s \in X : f[s] = IF s = {} THEN 0 ELSE w[Pick(s)] + f[s \ {Pick(s)}]
  <2> SUFFICES ASSUME NEW s \in X
               PROVE  f[s] = IF s = {} THEN 0 ELSE w[Pick(s)] + f[s \ {Pick(s)}]
    OBVIOUS
  <2> DEFINE g == Restricted(X, rank, s, f)
  <2>1. f[s] = step[<<s, g>>]
    BY <1>7 DEF Solves
  <2>2. g \in [Lower(X, rank, s) -> Nat]
        /\ \A y \in Lower(X, rank, s) : g[y] = f[y]
    BY <1>4, <1>7 DEF Restricted
  <2> HIDE DEF g
  <2> QED BY <1>3, <1>5, <2>1, <2>2
<1>9. f = [s \in X |-> IF s = {} THEN 0 ELSE w[Pick(s)] + f[s \ {Pick(s)}]]
  BY <1>8
<1> QED BY <1>9 DEF TakingAway, X

LEMMA SumUnfold ==
  ASSUME NEW S, NEW w, NEW f, TakingAway(w, S, f), NEW s \in SUBSET S
  PROVE  f[s] = IF s = {} THEN 0 ELSE w[Pick(s)] + f[s \ {Pick(s)}]
<1> DEFINE g == [t \in SUBSET S |-> IF t = {} THEN 0
                                     ELSE w[Pick(t)] + f[t \ {Pick(t)}]]
<1>1. f = g
  BY DEF TakingAway
<1>2. g[s] = IF s = {} THEN 0 ELSE w[Pick(s)] + f[s \ {Pick(s)}]
  OBVIOUS
<1> HIDE DEF g
<1> QED BY <1>1, <1>2

LEMMA SumTyped ==
  ASSUME NEW S, IsFiniteSet(S), NEW w, \A x \in S : w[x] \in Nat,
         NEW f, TakingAway(w, S, f), NEW s \in SUBSET S
  PROVE  f[s] \in Nat
<1>1. \A t \in SUBSET S : f[t] = IF t = {} THEN 0 ELSE w[Pick(t)] + f[t \ {Pick(t)}]
  <2>1. TakingAway(w, S, f)
    OBVIOUS
  <2> QED BY ONLY <2>1, SumUnfold
<1>2. \A t : t # {} => Pick(t) \in t
  BY DEF Pick
<1> DEFINE T == {t \in SUBSET S : f[t] \in Nat}
           X == SUBSET S
           rank == [t \in X |-> Cardinality(t)]
<1>3. \A t \in X : IsFiniteSet(t) /\ Cardinality(t) \in Nat
  BY FS_Subset, FS_CardinalityType
<1>4. rank \in [X -> Nat]
  BY <1>3
<1>5. ASSUME NEW t \in X, Lower(X, rank, t) \subseteq T
      PROVE  t \in T
  <2>1. CASE t = {}
    <3>1. f[t] = 0
      BY <1>1, <2>1
    <3> QED BY <3>1
  <2>2. CASE t # {}
    <3>1. Cardinality(t \ {Pick(t)}) = Cardinality(t) - 1
      BY <1>2, <1>3, <2>2, FS_RemoveElement
    <3>2. t \ {Pick(t)} \in Lower(X, rank, t)
      BY <1>3, <3>1 DEF Lower
    <3>3. f[t \ {Pick(t)}] \in Nat /\ w[Pick(t)] \in Nat
      BY <1>2, <1>5, <2>2, <3>2
    <3>4. f[t] = w[Pick(t)] + f[t \ {Pick(t)}]
      BY <1>1, <2>2
    <3>5. f[t] \in Nat
      BY ONLY <3>3, <3>4
    <3> QED BY <3>5
  <2> QED BY <2>1, <2>2
<1>6. X \subseteq T
  <2> HIDE DEF X, rank, T
  <2> QED BY <1>4, <1>5, RankInduction
<1> QED BY <1>1, <1>2, <1>6

\* Any member can be taken away first.
LEMMA SumRemove ==
  ASSUME NEW S, IsFiniteSet(S), NEW w, \A x \in S : w[x] \in Nat,
         NEW f, TakingAway(w, S, f), NEW s \in SUBSET S, NEW n \in s
  PROVE  f[s] = w[n] + f[s \ {n}]
<1>0. \A t \in SUBSET S : f[t] = IF t = {} THEN 0 ELSE w[Pick(t)] + f[t \ {Pick(t)}]
  <2>1. TakingAway(w, S, f)
    OBVIOUS
  <2> QED BY ONLY <2>1, SumUnfold
<1> DEFINE X == SUBSET S
           rank == [t \in X |-> Cardinality(t)]
           T == {t \in X : \A x \in t : f[t] = w[x] + f[t \ {x}]}
<1>1. \A t \in X : IsFiniteSet(t) /\ Cardinality(t) \in Nat
  BY FS_Subset, FS_CardinalityType
<1>2. rank \in [X -> Nat]
  BY <1>1
<1>3. \A t \in X : \A x \in t : t \ {x} \in Lower(X, rank, t)
  <2> SUFFICES ASSUME NEW t \in X, NEW x \in t PROVE t \ {x} \in Lower(X, rank, t)
    OBVIOUS
  <2>1. Cardinality(t \ {x}) = Cardinality(t) - 1
    BY <1>1, FS_RemoveElement
  <2> QED BY <1>1, <2>1 DEF Lower
<1>4. ASSUME NEW t \in X
      PROVE  /\ f[t] \in Nat
             /\ t # {} => Pick(t) \in t /\ f[t] = w[Pick(t)] + f[t \ {Pick(t)}]
  <2>1. t \in SUBSET S
    OBVIOUS
  <2> HIDE DEF X, rank, T
  <2>2. f[t] \in Nat
    BY <2>1, SumTyped
  <2>3. t # {} => Pick(t) \in t /\ f[t] = w[Pick(t)] + f[t \ {Pick(t)}]
    <3> SUFFICES ASSUME t # {}
                 PROVE  Pick(t) \in t /\ f[t] = w[Pick(t)] + f[t \ {Pick(t)}]
      OBVIOUS
    <3>1. Pick(t) \in t
      BY DEF Pick
    <3>2. f[t] = w[Pick(t)] + f[t \ {Pick(t)}]
      BY <1>0, <2>1
    <3> QED BY <3>1, <3>2
  <2> QED BY <2>2, <2>3
<1>5. ASSUME NEW t \in X, Lower(X, rank, t) \subseteq T
      PROVE  t \in T
  <2> SUFFICES ASSUME NEW x \in t PROVE f[t] = w[x] + f[t \ {x}]
    OBVIOUS
  <2> DEFINE y == Pick(t)
  <2>1. y \in t /\ f[t] = w[y] + f[t \ {y}]
    BY <1>4
  <2> HIDE DEF y
  <2>2. CASE x = y
    BY <2>1, <2>2
  <2>3. CASE x # y
    <3>1. t \ {x} \in T /\ t \ {y} \in T
      BY <1>3, <1>5, <2>1
    <3>2. f[t \ {y}] = w[x] + f[(t \ {y}) \ {x}]
      BY <2>3, <3>1
    <3>3. f[t \ {x}] = w[y] + f[(t \ {x}) \ {y}]
      BY <2>1, <2>3, <3>1
    <3> DEFINE r == (t \ {y}) \ {x}
    <3>4. r = (t \ {x}) \ {y} /\ r \in X
      OBVIOUS
    <3>5. w[x] \in Nat /\ w[y] \in Nat /\ f[r] \in Nat
      BY <1>4, <2>1, <3>4
    <3>6. f[t] = w[y] + (w[x] + f[r])
      BY <2>1, <3>2
    <3>7. f[t \ {x}] = w[y] + f[r]
      BY <3>3, <3>4
    <3> HIDE DEF r
    <3> QED BY <3>5, <3>6, <3>7
  <2> QED BY <2>2, <2>3
<1>6. X \subseteq T
  <2> HIDE DEF X, rank, T
  <2> QED BY <1>2, <1>5, RankInduction
<1> QED BY <1>6

\* The sum over a set does not depend on the set it is taken in.
LEMMA SumWithin ==
  ASSUME NEW S, IsFiniteSet(S), NEW w, \A x \in S : w[x] \in Nat,
         NEW R \in SUBSET S, NEW f, TakingAway(w, S, f), NEW g, TakingAway(w, R, g)
  PROVE  f[R] = g[R]
<1> DEFINE T == {t \in SUBSET R : f[t] = g[t]}
<1>1. IsFiniteSet(R) /\ \A x \in R : w[x] \in Nat
  BY FS_Subset
<1>2. {} \in T
  <2>1. {} \in SUBSET S /\ {} \in SUBSET R
    OBVIOUS
  <2>2. f[{}] = 0
    BY <2>1, SumUnfold
  <2>3. g[{}] = 0
    BY <2>1, SumUnfold
  <2> QED BY <2>2, <2>3
<1>3. ASSUME NEW t \in SUBSET R, NEW x \in t, t \ {x} \in T
      PROVE  t \in T
  <2>1. t \in SUBSET S
    BY <1>3
  <2>2. f[t] = w[x] + f[t \ {x}]
    BY <2>1, SumRemove
  <2>3. g[t] = w[x] + g[t \ {x}]
    <3>1. IsFiniteSet(R) /\ (\A y \in R : w[y] \in Nat) /\ TakingAway(w, R, g)
          /\ t \in SUBSET R /\ x \in t
      BY <1>1, <1>3
    <3> HIDE DEF T
    <3> QED BY ONLY <3>1, SumRemove
  <2> QED BY <1>3, <2>2, <2>3
<1>4. SUBSET R \subseteq T
  <2> HIDE DEF T
  <2> QED BY <1>1, <1>2, <1>3, SetInduct
<1> QED BY <1>4

=============================================================================
