-------------------------- MODULE FamilySums_proofs --------------------------
(***************************************************************************)
(* Facts about the sums of FamilySums, for the amounts and capacities the  *)
(* scripts add up: how they split, grow and carry over to other indices.   *)
(* They are proved by induction on finite sets and on numbers, which the   *)
(* provers here have no rule for with an operator as a parameter: a set    *)
(* stands for the operator, and the least counterexample of a well-founded *)
(* relation (inclusion) for the rule.                                      *)
(***************************************************************************)
EXTENDS FamilySums, WellFoundedInduction, FiniteSetTheorems, TLAPS

\* A collection that holds a set when it holds what remains of it without any of
\* its elements holds every finite set.
LEMMA SetInduction ==
  ASSUME NEW S, IsFiniteSet(S), NEW T,
         \A U \in SUBSET S : (\A x \in U : U \ {x} \in T) => U \in T
  PROVE  S \in T
<1> SUFFICES ASSUME S \notin T PROVE FALSE
  OBVIOUS
<1> DEFINE Left == {U \in SUBSET S : U \notin T}
<1>1. Left \subseteq FiniteSubsetsOf(S) /\ Left # {}
  BY FS_Subset DEF FiniteSubsetsOf
<1>2. PICK M \in Left : \A U \in Left : ~(<<U, M>> \in StrictSubsetOrdering(S))
  <2> HIDE DEF Left
  <2> QED
    BY <1>1, FS_StrictSubsetOrderingWellFounded, WFMin
<1>3. PICK x \in M : M \ {x} \notin T
  BY <1>2
<1>4. <<M \ {x}, M>> \in StrictSubsetOrdering(S)
  BY <1>2, <1>3 DEF StrictSubsetOrdering
<1> QED
  BY <1>2, <1>3, <1>4

\* A set of numbers that has 0 and each successor of its members has them all.
LEMMA CountInduction ==
  ASSUME NEW T, 0 \in T, \A n \in Nat : n \in T => n + 1 \in T
  PROVE  Nat \subseteq T
<1> SUFFICES ASSUME NEW k \in Nat PROVE k \in T
  OBVIOUS
<1> DEFINE Good == {U \in SUBSET (1 .. k) : \A n \in Nat : U = 1 .. n => n \in T}
<1>1. IsFiniteSet(1 .. k)
  BY FS_Interval
<1>2. ASSUME NEW U \in SUBSET (1 .. k), \A x \in U : U \ {x} \in Good PROVE U \in Good
  <2> SUFFICES ASSUME NEW n \in Nat, U = 1 .. n PROVE n \in T
    OBVIOUS
  <2>1. CASE n = 0
    BY <2>1
  <2>2. CASE n # 0
    <3>1. n \in U /\ n - 1 \in Nat /\ U \ {n} = 1 .. n - 1
      BY <2>2
    <3>2. n - 1 \in T
      BY <1>2, <3>1
    <3> QED
      BY <3>1, <3>2
  <2> QED
    BY <2>1, <2>2
<1> HIDE DEF Good
<1>3. 1 .. k \in Good
  BY <1>1, <1>2, SetInduction
<1> QED
  BY <1>3 DEF Good

-----------------------------------------------------------------------------
\* The recursion of MapThenSumSet: which element it takes first, and one step of it.
First(s) == CHOOSE x \in s : TRUE
Step(f, g, s) == IF s = {} THEN 0 ELSE f[First(s)] + g[s \ {First(s)}]
Folds(f, g) == g = [s \in SUBSET DOMAIN f |-> Step(f, g, s)]

LEMMA FoldExists ==
  ASSUME NEW S, IsFiniteSet(S), NEW f \in [S -> Nat]
  PROVE  \E g \in [SUBSET S -> Nat] : Folds(f, g)
<1> DEFINE Upto(g, k) == \A s \in SUBSET S : Cardinality(s) <= k => g[s] = Step(f, g, s)
           T == {k \in Nat : \E g \in [SUBSET S -> Nat] : Upto(g, k)}
<1>0. \A s \in SUBSET S : IsFiniteSet(s) /\ Cardinality(s) \in Nat
  BY FS_Subset, FS_CardinalityType
<1>1. 0 \in T
  <2> DEFINE g == [s \in SUBSET S |-> 0]
  <2>1. g \in [SUBSET S -> Nat]
    OBVIOUS
  <2>2. ASSUME NEW s \in SUBSET S, Cardinality(s) <= 0 PROVE g[s] = Step(f, g, s)
    <3>1. s = {}
      BY <1>0, <2>2, FS_EmptySet
    <3> QED
      BY <3>1 DEF Step
  <2> QED
    BY <2>1, <2>2
<1>2. ASSUME NEW k \in Nat, k \in T PROVE k + 1 \in T
  <2>1. PICK g \in [SUBSET S -> Nat] : Upto(g, k)
    BY <1>2
  <2> DEFINE h == [s \in SUBSET S |-> IF Cardinality(s) = k + 1 THEN Step(f, g, s) ELSE g[s]]
  <2>2. ASSUME NEW s \in SUBSET S, s # {}
        PROVE  First(s) \in s /\ s \ {First(s)} \in SUBSET S
               /\ Cardinality(s \ {First(s)}) = Cardinality(s) - 1
    <3>1. First(s) \in s
      BY <2>2 DEF First
    <3> QED
      BY <1>0, <3>1, FS_RemoveElement
  <2>3. h \in [SUBSET S -> Nat]
    <3> SUFFICES ASSUME NEW s \in SUBSET S PROVE Step(f, g, s) \in Nat
      OBVIOUS
    <3>1. CASE s = {}
      BY <3>1 DEF Step
    <3>2. CASE s # {}
      <4>1. f[First(s)] \in Nat /\ g[s \ {First(s)}] \in Nat
        BY <2>2, <3>2
      <4> QED
        BY <3>2, <4>1 DEF Step
    <3> QED
      BY <3>1, <3>2
  <2>4. ASSUME NEW s \in SUBSET S, Cardinality(s) <= k + 1 PROVE h[s] = Step(f, g, s)
    BY <1>0, <2>1, <2>4
  <2>5. ASSUME NEW s \in SUBSET S, Cardinality(s) <= k + 1 PROVE Step(f, h, s) = Step(f, g, s)
    <3>1. CASE s = {}
      BY <3>1 DEF Step
    <3>2. CASE s # {}
      <4> DEFINE r == s \ {First(s)}
      <4>1. r \in SUBSET S /\ Cardinality(r) # k + 1
        BY <1>0, <2>2, <2>5, <3>2
      <4>2. h[r] = g[r]
        BY <4>1
      <4> HIDE DEF h
      <4> QED
        BY <3>2, <4>2 DEF Step
    <3> QED
      BY <3>1, <3>2
  <2>6. Upto(h, k + 1)
    BY <2>4, <2>5
  <2> HIDE DEF h, Upto
  <2> QED
    BY <2>3, <2>6
<1> HIDE DEF T
<1>3. Nat \subseteq T
  BY <1>1, <1>2, CountInduction
<1>4. PICK g \in [SUBSET S -> Nat] : Upto(g, Cardinality(S))
  BY <1>0, <1>3 DEF T
<1>5. \A s \in SUBSET S : g[s] = Step(f, g, s)
  BY <1>4, FS_Subset
<1> QED
  BY <1>5 DEF Folds

\* Two such functions agree where their arguments do.
LEMMA FoldUnique ==
  ASSUME NEW f1, NEW f2, NEW g1, NEW g2, Folds(f1, g1), Folds(f2, g2)
  PROVE  \A S \in SUBSET (DOMAIN f1 \intersect DOMAIN f2) :
           IsFiniteSet(S) /\ (\A x \in S : f1[x] = f2[x]) => g1[S] = g2[S]
<1> SUFFICES ASSUME NEW S \in SUBSET (DOMAIN f1 \intersect DOMAIN f2), IsFiniteSet(S),
                    \A x \in S : f1[x] = f2[x]
             PROVE  g1[S] = g2[S]
  OBVIOUS
<1> DEFINE T == {U \in SUBSET S : g1[U] = g2[U]}
<1>1. ASSUME NEW U \in SUBSET S, \A x \in U : U \ {x} \in T PROVE U \in T
  <2>1. g1[U] = Step(f1, g1, U) /\ g2[U] = Step(f2, g2, U)
    BY DEF Folds
  <2>2. CASE U = {}
    BY <2>1, <2>2 DEF Step
  <2>3. CASE U # {}
    <3>1. First(U) \in U
      BY <2>3 DEF First
    <3>2. g1[U \ {First(U)}] = g2[U \ {First(U)}]
      BY <1>1, <3>1
    <3> QED
      BY <2>1, <2>3, <3>1, <3>2 DEF Step
  <2> QED
    BY <2>2, <2>3
<1> HIDE DEF T
<1>2. S \in T
  BY <1>1, SetInduction
<1> QED
  BY <1>2 DEF T

\* Sum is the value of such a function at the whole domain.
LEMMA SumFolds ==
  ASSUME NEW S, IsFiniteSet(S), NEW f \in [S -> Nat]
  PROVE  \E g \in [SUBSET S -> Nat] : Folds(f, g) /\ Sum(f) = g[S]
<1> DEFINE g == CHOOSE it : Folds(f, it)
<1>1. Sum(f) = (CHOOSE it : it = [s \in SUBSET DOMAIN f |->
                  IF s = {} THEN 0
                  ELSE f[CHOOSE x \in s : TRUE] + it[s \ {CHOOSE x \in s : TRUE}]])[DOMAIN f]
  BY DEF Sum, MapThenSumSet, MapThenFoldSet
<1>2. Sum(f) = g[S]
  BY <1>1 DEF Folds, Step, First
<1>3. PICK h \in [SUBSET S -> Nat] : Folds(f, h)
  BY FoldExists
<1>4. Folds(f, g)
  BY <1>3
<1> HIDE DEF g
<1>5. g[S] = h[S]
  BY <1>3, <1>4, FoldUnique
<1> QED
  BY <1>2, <1>3, <1>5

-----------------------------------------------------------------------------
\* What remains of a function on a smaller domain.
On(f, S) == [o \in S |-> f[o]]

\* The sum of a family of numbers is a number, 0 when there is none of them.
LEMMA SumType == ASSUME NEW S, IsFiniteSet(S), NEW f \in [S -> Nat] PROVE Sum(f) \in Nat
<1>1. PICK g \in [SUBSET S -> Nat] : Sum(f) = g[S]
  BY SumFolds
<1> QED
  BY <1>1

LEMMA SumEmpty == ASSUME NEW f \in [{} -> Nat] PROVE Sum(f) = 0
<1>1. IsFiniteSet({})
  BY FS_EmptySet
<1>2. PICK g \in [SUBSET {} -> Nat] : Folds(f, g) /\ Sum(f) = g[{}]
  BY <1>1, SumFolds
<1> QED
  BY <1>2 DEF Folds, Step

\* It does not matter which element is taken first.
LEMMA FoldAny ==
  ASSUME NEW S, IsFiniteSet(S), NEW f \in [S -> Nat], NEW g \in [SUBSET S -> Nat], Folds(f, g)
  PROVE  \A x \in S : g[S] = f[x] + g[S \ {x}]
<1> DEFINE T == {U \in SUBSET S : \A y \in U : g[U] = f[y] + g[U \ {y}]}
<1>1. ASSUME NEW U \in SUBSET S, \A y \in U : U \ {y} \in T, NEW y \in U
      PROVE  g[U] = f[y] + g[U \ {y}]
  <2> DEFINE z == First(U)
  <2>1. z \in U
    BY DEF First
  <2>2. g[U] = f[z] + g[U \ {z}]
    BY <2>1 DEF Folds, Step
  <2> HIDE DEF z
  <2>3. CASE z = y
    BY <2>2, <2>3
  <2>4. CASE z # y
    <3>1. g[U \ {z}] = f[y] + g[(U \ {z}) \ {y}]
      BY <1>1, <2>1, <2>4
    <3>2. g[U \ {y}] = f[z] + g[(U \ {y}) \ {z}]
      BY <1>1, <2>1, <2>4
    <3>3. (U \ {z}) \ {y} = (U \ {y}) \ {z}
      OBVIOUS
    <3> DEFINE rest == (U \ {y}) \ {z}
    <3>4. f[y] \in Nat /\ f[z] \in Nat /\ g[rest] \in Nat
      BY <2>1
    <3>5. g[U \ {z}] = f[y] + g[rest] /\ g[U \ {y}] = f[z] + g[rest]
      BY <3>1, <3>2, <3>3
    <3> HIDE DEF rest
    <3>6. g[U] = f[z] + (f[y] + g[rest])
      BY <2>2, <3>5
    <3> QED
      BY <3>4, <3>5, <3>6
  <2> QED
    BY <2>3, <2>4
<1>2. \A U \in SUBSET S : (\A y \in U : U \ {y} \in T) => U \in T
  BY <1>1
<1> HIDE DEF T
<1>3. S \in T
  BY <1>2, SetInduction
<1> QED
  BY <1>3 DEF T

\* One of the numbers and the sum of the others.
LEMMA SumRemove ==
  ASSUME NEW S, IsFiniteSet(S), NEW f \in [S -> Nat], NEW x \in S
  PROVE  Sum(f) = f[x] + Sum(On(f, S \ {x}))
<1> DEFINE r == S \ {x}
           e == On(f, r)
<1>1. PICK g \in [SUBSET S -> Nat] : Folds(f, g) /\ Sum(f) = g[S]
  BY SumFolds
<1>2. \A y \in S : g[S] = f[y] + g[S \ {y}]
  BY <1>1, FoldAny
<1>3. \A h : Folds(e, h) => \A U \in SUBSET (DOMAIN f \intersect DOMAIN e) :
        IsFiniteSet(U) /\ (\A y \in U : f[y] = e[y]) => g[U] = h[U]
  <2> HIDE DEF e
  <2> QED
    BY <1>1, FoldUnique
<1>4. IsFiniteSet(r) /\ e \in [r -> Nat]
  BY FS_RemoveElement DEF On
<1>5. PICK h \in [SUBSET r -> Nat] : Folds(e, h) /\ Sum(e) = h[r]
  <2> HIDE DEF e, r
  <2> QED
    BY <1>4, SumFolds
<1>6. g[r] = h[r]
  <2>1. r \in SUBSET (DOMAIN f \intersect DOMAIN e) /\ \A y \in r : f[y] = e[y]
    BY DEF On
  <2> HIDE DEF e, r
  <2> QED
    BY <1>3, <1>4, <1>5, <2>1
<1>7. g[S] = f[x] + g[r]
  BY <1>2
<1> QED
  BY <1>1, <1>5, <1>6, <1>7

\* The sum over two parts.
LEMMA SumSplit ==
  ASSUME NEW S, IsFiniteSet(S), NEW f \in [S -> Nat], NEW P \in SUBSET S
  PROVE  Sum(f) = Sum(On(f, P)) + Sum(On(f, S \ P))
<1> DEFINE T == {U \in SUBSET P : Sum(On(f, U \union (S \ P))) = Sum(On(f, U)) + Sum(On(f, S \ P))}
<1>0. IsFiniteSet(P) /\ \A U \in SUBSET S : IsFiniteSet(U) /\ On(f, U) \in [U -> Nat]
  BY FS_Subset DEF On
<1>1. ASSUME NEW U \in SUBSET P, \A y \in U : U \ {y} \in T
      PROVE  Sum(On(f, U \union (S \ P))) = Sum(On(f, U)) + Sum(On(f, S \ P))
  <2> DEFINE V == U \union (S \ P)
  <2>1. CASE U = {}
    <3>1. Sum(On(f, U)) = 0 /\ V = S \ P
      BY <1>0, <2>1, SumEmpty
    <3>2. Sum(On(f, S \ P)) \in Nat
      BY <1>0, SumType
    <3> QED
      BY <3>1, <3>2
  <2>2. ASSUME NEW y \in U PROVE Sum(On(f, V)) = Sum(On(f, U)) + Sum(On(f, S \ P))
    <3> DEFINE W == U \ {y}
    <3>1. V \in SUBSET S /\ y \in V /\ V \ {y} = W \union (S \ P) /\ U \in SUBSET S
      OBVIOUS
    <3>2. Sum(On(f, V)) = f[y] + Sum(On(f, V \ {y}))
      <4>1. Sum(On(f, V)) = On(f, V)[y] + Sum(On(On(f, V), V \ {y}))
        BY <1>0, <3>1, SumRemove
      <4>2. On(f, V)[y] = f[y] /\ On(On(f, V), V \ {y}) = On(f, V \ {y})
        BY <3>1 DEF On
      <4> QED
        BY <4>1, <4>2
    <3>3. Sum(On(f, U)) = f[y] + Sum(On(f, W))
      <4>1. Sum(On(f, U)) = On(f, U)[y] + Sum(On(On(f, U), W))
        BY <1>0, <3>1, SumRemove
      <4>2. On(f, U)[y] = f[y] /\ On(On(f, U), W) = On(f, W)
        BY <3>1 DEF On
      <4> QED
        BY <4>1, <4>2
    <3>4. Sum(On(f, W \union (S \ P))) = Sum(On(f, W)) + Sum(On(f, S \ P))
      BY <1>1
    <3>5. f[y] \in Nat /\ Sum(On(f, W)) \in Nat /\ Sum(On(f, S \ P)) \in Nat
      <4>1. W \in SUBSET S /\ S \ P \in SUBSET S /\ f[y] \in Nat
        OBVIOUS
      <4> QED
        BY <1>0, <4>1, SumType
    <3>6. Sum(On(f, V)) = f[y] + (Sum(On(f, W)) + Sum(On(f, S \ P)))
      BY <3>1, <3>2, <3>4
    <3> HIDE DEF V, W
    <3> QED
      BY <3>3, <3>5, <3>6
  <2> QED
    BY <2>1, <2>2
<1>2. \A U \in SUBSET P : (\A y \in U : U \ {y} \in T) => U \in T
  BY <1>1
<1> HIDE DEF T
<1>3. P \in T
  BY <1>0, <1>2, SetInduction
<1>4. P \union (S \ P) = S /\ On(f, S) = f
  BY DEF On
<1> QED
  BY <1>3, <1>4 DEF T

\* A sum with other numbers, none smaller, is none smaller.
LEMMA SumMonotone ==
  ASSUME NEW S, IsFiniteSet(S), NEW f \in [S -> Nat], NEW g \in [S -> Nat],
         \A o \in S : f[o] <= g[o]
  PROVE  Sum(f) <= Sum(g)
<1> DEFINE T == {U \in SUBSET S : Sum(On(f, U)) <= Sum(On(g, U))}
<1>0. \A U \in SUBSET S :
        IsFiniteSet(U) /\ On(f, U) \in [U -> Nat] /\ On(g, U) \in [U -> Nat]
  BY FS_Subset DEF On
<1>1. ASSUME NEW U \in SUBSET S, \A y \in U : U \ {y} \in T
      PROVE  Sum(On(f, U)) <= Sum(On(g, U))
  <2>1. CASE U = {}
    <3>1. Sum(On(f, U)) = 0 /\ Sum(On(g, U)) = 0
      BY <1>0, <2>1, SumEmpty
    <3> QED
      BY <3>1
  <2>2. ASSUME NEW y \in U PROVE Sum(On(f, U)) <= Sum(On(g, U))
    <3> DEFINE W == U \ {y}
    <3>1. Sum(On(f, U)) = On(f, U)[y] + Sum(On(On(f, U), W))
      BY <1>0, SumRemove
    <3>2. Sum(On(g, U)) = On(g, U)[y] + Sum(On(On(g, U), W))
      BY <1>0, SumRemove
    <3>3. /\ On(f, U)[y] = f[y] /\ On(On(f, U), W) = On(f, W)
          /\ On(g, U)[y] = g[y] /\ On(On(g, U), W) = On(g, W)
      BY DEF On
    <3>4. Sum(On(f, W)) <= Sum(On(g, W))
      BY <1>1
    <3>5. /\ Sum(On(f, W)) \in Nat /\ Sum(On(g, W)) \in Nat
          /\ f[y] \in Nat /\ g[y] \in Nat /\ f[y] <= g[y]
      <4>1. W \in SUBSET S /\ y \in S
        OBVIOUS
      <4> QED
        BY <1>0, <4>1, SumType
    <3> HIDE DEF W
    <3> QED
      BY <3>1, <3>2, <3>3, <3>4, <3>5
  <2> QED
    BY <2>1, <2>2
<1>2. \A U \in SUBSET S : (\A y \in U : U \ {y} \in T) => U \in T
  BY <1>1
<1> HIDE DEF T
<1>3. S \in T
  BY <1>2, SetInduction
<1>4. On(f, S) = f /\ On(g, S) = g
  BY DEF On
<1> QED
  BY <1>3, <1>4 DEF T

\* A sum is the same under other names for the same numbers.
LEMMA SumRenamed ==
  ASSUME NEW S, IsFiniteSet(S), NEW R, NEW f \in [R -> Nat], NEW h \in Bijection(S, R)
  PROVE  Sum([o \in S |-> f[h[o]]]) = Sum(f)
<1> DEFINE g == [o \in S |-> f[h[o]]]
           Image(U) == {h[o] : o \in U}
           T == {U \in SUBSET S : Sum(On(g, U)) = Sum(On(f, Image(U)))}
<1>0. \A o \in S : h[o] \in R
  BY DEF Bijection, Injection
<1>1. \A U \in SUBSET S : /\ IsFiniteSet(U) /\ On(g, U) \in [U -> Nat]
                           /\ IsFiniteSet(Image(U)) /\ Image(U) \in SUBSET R
                           /\ On(f, Image(U)) \in [Image(U) -> Nat]
  <2> SUFFICES ASSUME NEW U \in SUBSET S
               PROVE  /\ IsFiniteSet(U) /\ On(g, U) \in [U -> Nat]
                      /\ IsFiniteSet(Image(U)) /\ Image(U) \in SUBSET R
                      /\ On(f, Image(U)) \in [Image(U) -> Nat]
    OBVIOUS
  <2>1. IsFiniteSet(U)
    BY FS_Subset
  <2>2. IsFiniteSet(Image(U))
    <3> DEFINE e == [o \in U |-> h[o]]
    <3>1. e \in Surjection(U, Image(U))
      BY DEF Surjection
    <3> QED
      BY <2>1, <3>1, FS_Surjection
  <2> QED
    BY <1>0, <2>1, <2>2 DEF On
<1>2. ASSUME NEW U \in SUBSET S, \A y \in U : U \ {y} \in T
      PROVE  Sum(On(g, U)) = Sum(On(f, Image(U)))
  <2>1. CASE U = {}
    <3>1. Image(U) = {}
      BY <2>1
    <3>2. Sum(On(g, U)) = 0 /\ Sum(On(f, Image(U))) = 0
      BY <1>1, <2>1, <3>1, SumEmpty
    <3> QED
      BY <3>2
  <2>2. ASSUME NEW y \in U PROVE Sum(On(g, U)) = Sum(On(f, Image(U)))
    <3> DEFINE W == U \ {y}
    <3>1. h[y] \in Image(U) /\ Image(U) \ {h[y]} = Image(W)
      <4>1. \A o \in W : h[o] # h[y]
        BY DEF Bijection, Injection, IsInjective
      <4> QED
        BY <4>1
    <3>2. Sum(On(g, U)) = On(g, U)[y] + Sum(On(On(g, U), W))
      BY <1>1, SumRemove
    <3>3. On(g, U)[y] = f[h[y]] /\ On(On(g, U), W) = On(g, W)
      BY DEF On
    <3>4. Sum(On(f, Image(U))) = On(f, Image(U))[h[y]] + Sum(On(On(f, Image(U)), Image(U) \ {h[y]}))
      BY <1>1, <3>1, SumRemove
    <3>5. /\ On(f, Image(U))[h[y]] = f[h[y]]
          /\ On(On(f, Image(U)), Image(W)) = On(f, Image(W))
      BY <3>1 DEF On
    <3>6. Sum(On(g, W)) = Sum(On(f, Image(W)))
      BY <1>2
    <3> QED
      BY <3>1, <3>2, <3>3, <3>4, <3>5, <3>6
  <2> QED
    BY <2>1, <2>2
<1>3. \A U \in SUBSET S : (\A y \in U : U \ {y} \in T) => U \in T
  BY <1>2
<1>4. Image(S) = R
  BY DEF Bijection, Surjection
<1>5. On(g, S) = g /\ On(f, R) = f
  BY DEF On
<1> HIDE DEF T
<1>6. S \in T
  BY <1>3, SetInduction
<1> QED
  BY <1>4, <1>5, <1>6 DEF T

-----------------------------------------------------------------------------
\* Sums over one, two and three, which the outputs of a transaction mostly are.
LEMMA SumSingle == ASSUME NEW x, NEW f \in [{x} -> Nat] PROVE Sum(f) = f[x]
<1>1. IsFiniteSet({x}) /\ x \in {x}
  BY FS_Singleton
<1>2. Sum(f) = f[x] + Sum(On(f, {x} \ {x}))
  BY <1>1, SumRemove
<1>3. Sum(On(f, {x} \ {x})) = 0
  <2>1. On(f, {x} \ {x}) \in [{} -> Nat]
    BY DEF On
  <2> QED
    BY <2>1, SumEmpty
<1> QED
  BY <1>2, <1>3

LEMMA SumPair ==
  ASSUME NEW x, NEW y, x # y, NEW f \in [{x, y} -> Nat] PROVE Sum(f) = f[x] + f[y]
<1>1. IsFiniteSet({x, y}) /\ x \in {x, y}
  <2>1. IsFiniteSet({x} \union {y})
    BY FS_Singleton, FS_Union
  <2>2. {x} \union {y} = {x, y}
    OBVIOUS
  <2> QED
    BY <2>1, <2>2
<1>2. Sum(f) = f[x] + Sum(On(f, {x, y} \ {x}))
  BY <1>1, SumRemove
<1>3. {x, y} \ {x} = {y}
  OBVIOUS
<1>4. On(f, {y}) \in [{y} -> Nat] /\ On(f, {y})[y] = f[y]
  BY DEF On
<1>5. Sum(On(f, {y})) = f[y]
  BY <1>4, SumSingle
<1> QED
  BY <1>2, <1>3, <1>5

LEMMA SumTriple ==
  ASSUME NEW S, NEW f \in [S -> Nat]
  PROVE  \A x, y, z \in S : S = {x, y, z} /\ x # y /\ x # z /\ y # z =>
                             Sum(f) = f[x] + f[y] + f[z]
<1> SUFFICES ASSUME NEW x \in S, NEW y \in S, NEW z \in S, S = {x, y, z}, x # y, x # z, y # z
             PROVE  Sum(f) = f[x] + f[y] + f[z]
  OBVIOUS
<1>1. IsFiniteSet({x, y, z}) /\ x \in {x, y, z}
  <2>1. IsFiniteSet(({x} \union {y}) \union {z})
    BY FS_Singleton, FS_Union
  <2>2. ({x} \union {y}) \union {z} = {x, y, z}
    OBVIOUS
  <2> QED
    BY <2>1, <2>2
<1>2. Sum(f) = f[x] + Sum(On(f, {x, y, z} \ {x}))
  BY <1>1, SumRemove
<1>3. {x, y, z} \ {x} = {y, z}
  OBVIOUS
<1>4. /\ On(f, {y, z}) \in [{y, z} -> Nat]
      /\ On(f, {y, z})[y] = f[y] /\ On(f, {y, z})[z] = f[z]
  BY DEF On
<1>5. Sum(On(f, {y, z})) = f[y] + f[z]
  BY <1>4, SumPair
<1>6. f[x] \in Nat /\ f[y] \in Nat /\ f[z] \in Nat
  OBVIOUS
<1>7. Sum(f) = f[x] + Sum(On(f, {y, z}))
  BY <1>2, <1>3
<1> QED
  BY <1>5, <1>6, <1>7

\* A part of a sum, and one of its terms, are at most the sum.
LEMMA SumPart ==
  ASSUME NEW S, IsFiniteSet(S), NEW f \in [S -> Nat], NEW P \in SUBSET S
  PROVE  Sum(On(f, P)) <= Sum(f) /\ Sum(f) \in Nat /\ Sum(On(f, P)) \in Nat
<1>1. Sum(f) = Sum(On(f, P)) + Sum(On(f, S \ P))
  BY SumSplit
<1>2. /\ IsFiniteSet(P) /\ On(f, P) \in [P -> Nat]
      /\ IsFiniteSet(S \ P) /\ On(f, S \ P) \in [S \ P -> Nat]
  BY FS_Subset, FS_Difference DEF On
<1>3. Sum(On(f, P)) \in Nat /\ Sum(On(f, S \ P)) \in Nat
  BY <1>2, SumType
<1> QED
  BY <1>1, <1>3

LEMMA SumTerm ==
  ASSUME NEW S, IsFiniteSet(S), NEW f \in [S -> Nat] PROVE \A x \in S : f[x] <= Sum(f)
<1> SUFFICES ASSUME NEW x \in S PROVE f[x] <= Sum(f)
  OBVIOUS
<1>1. Sum(f) = f[x] + Sum(On(f, S \ {x}))
  BY SumRemove
<1>2. IsFiniteSet(S \ {x}) /\ On(f, S \ {x}) \in [S \ {x} -> Nat]
  BY FS_RemoveElement DEF On
<1>3. Sum(On(f, S \ {x})) \in Nat
  BY <1>2, SumType
<1> QED
  BY <1>1, <1>3

-----------------------------------------------------------------------------
\* Adding to a sum that has wrapped is adding to the sum, and wrapping it then.
LEMMA WrapAdd ==
  ASSUME NEW n \in Nat \ {0}, NEW a \in Nat, NEW b \in Nat
  PROVE  ((a % n) + b) % n = (a + b) % n
<1> DEFINE q == a \div n
           r == a % n
           x == r + b
           q2 == x \div n
           r2 == x % n
           y == a + b
           q3 == y \div n
           r3 == y % n
<1>1. a = n * q + r /\ q \in Nat /\ r \in 0 .. n - 1
  OBVIOUS
<1>2. x = n * q2 + r2 /\ q2 \in Nat /\ r2 \in 0 .. n - 1 /\ x \in Nat
  BY <1>1
<1>3. y = n * q3 + r3 /\ q3 \in Nat /\ r3 \in 0 .. n - 1
  OBVIOUS
<1>4. y = n * (q + q2) + r2
  <2> HIDE DEF q, r, q2, r2
  <2> QED BY <1>1, <1>2
<1>5. \A u, v \in Nat : \A d, e \in 0 .. n - 1 : n * u + d = n * v + e => d = e
  <2> SUFFICES ASSUME NEW u \in Nat, NEW v \in Nat, NEW d \in 0 .. n - 1, NEW e \in 0 .. n - 1,
                      n * u + d = n * v + e PROVE d = e
    OBVIOUS
  <2>1. CASE u = v
    BY <2>1
  <2>2. ASSUME u < v PROVE FALSE
    <3>1. PICK w \in Nat : v = u + 1 + w
      <4>1. v - u - 1 \in Nat /\ v = u + 1 + (v - u - 1)
        BY <2>2
      <4> QED BY <4>1
    <3>2. n * v = n * u + n + n * w /\ n * w >= 0
      BY <3>1
    <3> QED BY <3>2
  <2>3. ASSUME v < u PROVE FALSE
    <3>1. PICK w \in Nat : u = v + 1 + w
      <4>1. u - v - 1 \in Nat /\ u = v + 1 + (u - v - 1)
        BY <2>3
      <4> QED BY <4>1
    <3>2. n * u = n * v + n + n * w /\ n * w >= 0
      BY <3>1
    <3> QED BY <3>2
  <2> QED BY <2>1, <2>2, <2>3
<1>6. r2 = r3
  <2> HIDE DEF q, r, q2, r2, q3, r3, x, y
  <2>1. q + q2 \in Nat
    BY <1>1, <1>2
  <2> QED BY <1>2, <1>3, <1>4, <1>5, <2>1
<1> QED BY <1>6
=============================================================================
