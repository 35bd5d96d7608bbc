--------------------------- MODULE UdtExec_proofs ---------------------------
(***************************************************************************)
(* A run of the two token scripts, for every set of transactions and every *)
(* width of the sums and the indices.  Three invariants, each over the one *)
(* before: where the index of a loop stands (it goes in circles only at    *)
(* its limit), the domains of the variables, and what a stage has come to  *)
(* know of the transaction.  The last gives the implementation of          *)
(* ScriptVerdict: a verdict is the one the decisions of UdtScripts make.   *)
(***************************************************************************)
EXTENDS UdtExec, FamilySums_proofs, SequenceTheorems, TLAPS

Loops8 == {"verify_udt_data", "search", "sum"}

Indices == i \in Nat /\ side \in {"in", "out"} /\ laps \in {0, 1}
ShortIndex == pc \in Loops8 => IsUdtDef
Laps == laps = 1 => pc \in Loops8 \union {"done"} /\ IsUdtDef /\ AtLimit
Searched ==
  pc = "search" /\ laps = 0 =>
    i < U8 /\ \A k \in 1 .. i : ~IsInfo(view.created[k].type)
IInv == Indices /\ ShortIndex /\ Laps /\ Searched

\* A script starts at the start of its first loop.
LEMMA InitInv == Init => IInv
  BY WidthAssumption DEF Init, IInv, Indices, ShortIndex, Laps, Searched, Loops8, IsUdtDef

\* Whether the transaction is at the limit is a matter of the transaction.
LEMMA LimitKept == ASSUME UNCHANGED view PROVE AtLimit => AtLimit'
<1>1. Group("in")' = Group("in") /\ Group("out")' = Group("out")
  BY DEF Group, Cells
<1> QED
  BY <1>1 DEF AtLimit, IsInfo

\* A run that returns keeps where it was.
LEMMA ReturnInv == ASSUME IInv, NEW code, Return(code) PROVE IInv'
<1>1. UNCHANGED <<view, side, i, laps>> /\ pc' = "done"
  BY DEF Return
<1> QED
  BY <1>1, LimitKept DEF IInv, Indices, ShortIndex, Laps, Searched, Loops8, IsUdtDef, IsInfo

\* The next loop starts at its first cell.
LEMMA EnterInv ==
  ASSUME IInv, NEW stage, NEW s \in {"in", "out"}, Enter(stage, s), stage \in Loops8 => IsUdtDef
  PROVE  IInv'
  BY WidthAssumption DEF Enter, IInv, Indices, ShortIndex, Laps, Searched, IsUdtDef

\* A step of a loop with a short index.  At its last value the index starts again.
LEMMA IncrementInv ==
  ASSUME IInv, Increment8, Continue, pc \in Loops8, NEW s \in {"in", "out"},
         i + 1 = U8 => AtLimit,
         pc = "search" => ~IsInfo(view.created[i + 1].type)
  PROVE  IInv'
<1>1. U8 \in Nat \ {0} /\ i \in Nat
  BY WidthAssumption DEF IInv, Indices
<1>2. UNCHANGED <<view, side>> /\ pc' = pc /\ i' = (i + 1) % U8
      /\ laps' = (IF i + 1 = U8 THEN 1 ELSE laps) /\ IsUdtDef /\ IsUdtDef'
  BY DEF Increment8, Continue, IInv, ShortIndex, IsUdtDef
<1>3. i' \in Nat /\ i' < U8
  BY <1>1, <1>2
<1>4. Laps'
  BY <1>2, LimitKept DEF IInv, Laps
<1>5. Searched'
  <2> SUFFICES ASSUME pc = "search", laps' = 0
               PROVE  \A k \in 1 .. i' : ~IsInfo(view.created[k].type)
    BY <1>2, <1>3 DEF Searched, IsInfo
  <2>1. laps = 0 /\ i + 1 # U8
    BY <1>2
  <2>2. i < U8 /\ \A k \in 1 .. i : ~IsInfo(view.created[k].type)
    BY <2>1 DEF IInv, Searched
  <2>3. i' = i + 1
    BY <1>1, <1>2, <2>1, <2>2
  <2> QED
    BY <1>1, <2>2, <2>3
<1> QED
  BY <1>2, <1>3, <1>4, <1>5 DEF IInv, Indices, ShortIndex

\* A step of the other loops, which no index ends.
LEMMA WideInv ==
  ASSUME IInv, Increment, Continue, pc \notin Loops8 \union {"done"} PROVE IInv'
  BY DEF Increment, Continue, IInv, Indices, ShortIndex, Laps, Searched, Loops8

\* After the consumed cells the created ones, then the next loop.
LEMMA EndLoopInv ==
  ASSUME IInv, NEW next, EndLoop(next), next \in Loops8 => IsUdtDef PROVE IInv'
<1>1. pc \in Loops8 => IsUdtDef
  BY DEF IInv, ShortIndex
<1>2. Enter(pc, "out") \/ Enter(next, "in")
  BY DEF EndLoop
<1> QED
  BY <1>1, <1>2, EnterInv

\* A loop over a group that is not at its end has that many cells to go through.
LEMMA GroupLimit ==
  ASSUME IInv, NEW s \in {"in", "out"}, ~AtEnd(Group(s)), i + 1 = U8 PROVE AtLimit
  BY DEF AtEnd, AtLimit, EndsAfter

LEMMA NextInv == ASSUME IInv, [Next]_vars PROVE IInv'
<1> USE DEF Loops8
<1>1. CASE VerifyUdtData
  <2>1. CASE AtEnd(Group(side)) /\ EndLoop("create_mode")
    BY <2>1, EndLoopInv
  <2>2. CASE ~AtEnd(Group(side)) /\ Increment8 /\ Continue
    <3>1. i + 1 = U8 => AtLimit
      BY <2>2, GroupLimit DEF IInv, Indices
    <3> QED
      BY <1>1, <2>2, <3>1, IncrementInv DEF VerifyUdtData
  <2>3. CASE \E code : Return(code)
    BY <2>3, ReturnInv
  <2> QED
    BY <1>1, <2>1, <2>2, <2>3 DEF VerifyUdtData
<1>2. CASE CreateMode
  <2>1. CASE \E code : Return(code)
    BY <2>1, ReturnInv
  <2>2. CASE Enter(IF IsUdtDef THEN "search" ELSE "verify_type_id_update", "in")
    BY <2>2, EnterInv
  <2> QED
    BY <1>2, <2>1, <2>2 DEF CreateMode
<1>3. CASE Search
  <2>1. CASE AtEnd(view.created) /\ Enter("sum", "in")
    <3>1. IsUdtDef
      BY <1>3 DEF Search, IInv, ShortIndex
    <3> QED
      BY <2>1, <3>1, EnterInv
  <2>2. CASE /\ ~AtEnd(view.created) /\ Increment8 /\ Continue
             /\ ~IsInfo(view.created[i + 1].type)
    <3>1. ASSUME i + 1 = U8 PROVE AtLimit
      <4>1. ~EndsAfter(Len(view.created))
        BY <2>2, <3>1 DEF AtEnd, EndsAfter
      <4>2. CASE laps = 0
        <5>1. \A k \in 1 .. i : ~IsInfo(view.created[k].type)
          BY <1>3, <4>2 DEF Search, IInv, Searched
        <5>2. \A k \in 1 .. U8 : ~IsInfo(view.created[k].type)
          BY <2>2, <3>1, <5>1, WidthAssumption DEF IInv, Indices
        <5> QED
          BY <4>1, <5>2 DEF AtLimit
      <4>3. CASE laps = 1
        BY <4>3 DEF IInv, Laps
      <4> QED
        BY <4>2, <4>3 DEF IInv, Indices
    <3>2. pc \in Loops8
      BY <1>3 DEF Search
    <3> QED
      BY <2>2, <3>1, <3>2, IncrementInv
  <2>3. CASE \E code : Return(code)
    BY <2>3, ReturnInv
  <2> QED
    BY <1>3, <2>1, <2>2, <2>3 DEF Search
<1>4. CASE SumGroup
  <2>1. CASE AtEnd(Group(side)) /\ EndLoop("decide")
    BY <2>1, EndLoopInv
  <2>2. CASE ~AtEnd(Group(side)) /\ Increment8 /\ Continue
    <3>1. i + 1 = U8 => AtLimit
      BY <2>2, GroupLimit DEF IInv, Indices
    <3> QED
      BY <1>4, <2>2, <3>1, IncrementInv DEF SumGroup
  <2> QED
    BY <1>4, <2>1, <2>2 DEF SumGroup
<1>5. ASSUME pc = "verify_type_id_update", Counted PROVE IInv'
  BY <1>5, ReturnInv, WideInv DEF Counted
<1>6. CASE VerifyTypeIdUpdate
  <2>1. CASE Counted
    BY <1>5, <1>6, <2>1 DEF VerifyTypeIdUpdate
  <2>2. CASE EndLoop(pc)
    BY <1>6, <2>2, EndLoopInv DEF VerifyTypeIdUpdate
  <2>3. CASE EndLoop("supply")
    BY <2>3, EndLoopInv
  <2>4. CASE Return("ERROR_TYPE_ID_VIOLATION")
    BY <2>4, ReturnInv
  <2> QED
    BY <1>6, <2>1, <2>2, <2>3, <2>4 DEF VerifyTypeIdUpdate
<1>7. CASE LoadSupplies
  <2>1. CASE Enter("get_udt_instance_amount", "in")
    BY <2>1, EnterInv
  <2>2. CASE Return("load_code")
    BY <2>2, ReturnInv
  <2> QED
    BY <1>7, <2>1, <2>2 DEF LoadSupplies
<1>8. CASE GetUdtInstanceAmount
  <2>1. CASE EndLoop("decide")
    BY <2>1, EndLoopInv
  <2>2. CASE Increment /\ Continue
    BY <1>8, <2>2, WideInv DEF GetUdtInstanceAmount
  <2>3. CASE Return("load_code")
    BY <2>3, ReturnInv
  <2> QED
    BY <1>8, <2>1, <2>2, <2>3 DEF GetUdtInstanceAmount
<1>9. CASE Decide
  BY <1>9, ReturnInv DEF Decide
<1>10. CASE SyscallFails
  BY <1>5, <1>10, ReturnInv DEF SyscallFails
<1>11. CASE OutOfCycles
  BY <1>11, ReturnInv DEF OutOfCycles
<1>12. CASE UNCHANGED vars
  <2>1. UNCHANGED <<view, pc, side, i, laps>>
    BY <1>12 DEF vars
  <2> QED
    BY <2>1, LimitKept DEF IInv, Indices, ShortIndex, Laps, Searched, IsUdtDef, IsInfo
<1> QED
  BY <1>1, <1>2, <1>3, <1>4, <1>6, <1>7, <1>8, <1>9, <1>10, <1>11, <1>12 DEF Next

\* The invariant of a run of the two scripts: where its index stands.
THEOREM Invariant == Spec => []IInv
<1>1. Init => IInv
  BY InitInv
<1>2. IInv /\ [Next]_vars => IInv'
  BY NextInv
<1> QED
  BY <1>1, <1>2, PTL DEF Spec

\* A run of main() of udt_def.c or udt_info_type.c goes in circles only on a list
\* of cells as long as its index is wide.
THEOREM CirclesAtLimit == Spec => []CirclesOnlyAtLimit
<1>1. IInv => CirclesOnlyAtLimit
  BY DEF IInv, Laps, CirclesOnlyAtLimit
<1> QED
  BY <1>1, Invariant, PTL

-----------------------------------------------------------------------------
\* The recursion of OfScript up to n cells.
Selection(list, t, n, F) ==
  F = [k \in 0 .. n |-> IF k = 0 THEN <<>>
                        ELSE IF list[k].type = t THEN Append(F[k - 1], list[k]) ELSE F[k - 1]]

\* Such a recursion has a value.
LEMMA SelectionExists ==
  ASSUME NEW list, NEW t, NEW n \in Nat PROVE \E F : Selection(list, t, n, F)
<1> DEFINE T == {m \in Nat : \E F : Selection(list, t, m, F)}
<1>1. 0 \in T
  <2> DEFINE F == [k \in 0 .. 0 |-> <<>>]
  <2>1. Selection(list, t, 0, F)
    BY DEF Selection
  <2> QED BY <2>1
<1>2. ASSUME NEW m \in Nat, m \in T PROVE m + 1 \in T
  <2>1. PICK F : Selection(list, t, m, F)
    BY <1>2
  <2> DEFINE G == [k \in 0 .. m + 1 |->
                     IF k # m + 1 THEN F[k]
                     ELSE IF list[k].type = t THEN Append(F[k - 1], list[k]) ELSE F[k - 1]]
             Body(k) == IF k = 0 THEN <<>>
                        ELSE IF list[k].type = t THEN Append(G[k - 1], list[k]) ELSE G[k - 1]
  <2>2. ASSUME NEW k \in 0 .. m + 1 PROVE G[k] = Body(k)
    <3>1. k # 0 => k - 1 \in 0 .. m /\ G[k - 1] = F[k - 1]
      OBVIOUS
    <3>2. CASE k = m + 1
      BY <3>1, <3>2
    <3>3. CASE k # m + 1
      <4>1. k \in 0 .. m /\ G[k] = F[k]
        BY <3>3
      <4>2. F[k] = IF k = 0 THEN <<>>
                   ELSE IF list[k].type = t THEN Append(F[k - 1], list[k]) ELSE F[k - 1]
        BY <2>1, <4>1 DEF Selection
      <4> HIDE DEF G
      <4> QED BY <3>1, <4>1, <4>2
    <3> QED BY <3>2, <3>3
  <2>3. G = [k \in 0 .. m + 1 |-> Body(k)]
    <3>1. G = [k \in 0 .. m + 1 |-> G[k]]
      OBVIOUS
    <3> HIDE DEF G
    <3> QED BY <2>2, <3>1
  <2> HIDE DEF G
  <2>4. Selection(list, t, m + 1, G)
    BY <2>3 DEF Selection
  <2> QED BY <2>4
<1> HIDE DEF T
<1>3. Nat \subseteq T
  BY <1>1, <1>2, CountInduction
<1> QED BY <1>3 DEF T

\* A group is its value at all the cells.
LEMMA OfScriptSelects ==
  ASSUME NEW list \in Seq(Cell), NEW t
  PROVE  \E F : Selection(list, t, Len(list), F) /\ OfScript(list, t) = F[Len(list)]
<1> DEFINE G == CHOOSE F : Selection(list, t, Len(list), F)
<1>1. Len(list) \in Nat
  OBVIOUS
<1>2. Selection(list, t, Len(list), G)
  BY <1>1, SelectionExists
<1>3. OfScript(list, t) = G[Len(list)]
  BY DEF OfScript, Selection
<1> QED BY <1>2, <1>3

\* The cells of group, in order, are those with script t among the first n of list.
Picked(list, t, n, group) ==
  /\ group \in Seq(Cell)
  /\ \E h \in Bijection(1 .. Len(group), {o \in 1 .. n : list[o].type = t}) :
       \A k \in 1 .. Len(group) : group[k] = list[h[k]]

\* One more cell of the script, after the others.
LEMMA PickedAppend ==
  ASSUME NEW list \in Seq(Cell), NEW t, NEW n \in Nat, n + 1 <= Len(list), NEW group,
         Picked(list, t, n, group), list[n + 1].type = t
  PROVE  Picked(list, t, n + 1, Append(group, list[n + 1]))
<1> DEFINE L == Len(group)
           S == {o \in 1 .. n : list[o].type = t}
           R == {o \in 1 .. n + 1 : list[o].type = t}
           more == Append(group, list[n + 1])
<1>1. PICK h \in Bijection(1 .. L, S) : \A k \in 1 .. L : group[k] = list[h[k]]
  BY DEF Picked
<1>2. n + 1 \in 1 .. Len(list) /\ list[n + 1] \in Cell /\ group \in Seq(Cell) /\ L \in Nat
  BY DEF Picked
<1>3. /\ more \in Seq(Cell) /\ Len(more) = L + 1 /\ more[L + 1] = list[n + 1]
      /\ \A k \in 1 .. L : more[k] = group[k]
  BY <1>2, AppendProperties
<1>4. R = S \union {n + 1} /\ n + 1 \notin S
  OBVIOUS
<1>5. /\ h \in [1 .. L -> S] /\ (\A k, m \in 1 .. L : h[k] = h[m] => k = m)
      /\ \A o \in S : \E k \in 1 .. L : h[k] = o
  BY <1>1 DEF Bijection, Injection, Surjection, IsInjective
<1> HIDE DEF S, R, L, more
<1> DEFINE j == [k \in 1 .. L + 1 |-> IF k = L + 1 THEN n + 1 ELSE h[k]]
<1>6. j \in [1 .. L + 1 -> R]
  BY <1>2, <1>4, <1>5
<1>7. \A k, m \in 1 .. L + 1 : j[k] = j[m] => k = m
  <2> SUFFICES ASSUME NEW k \in 1 .. L + 1, NEW m \in 1 .. L + 1, j[k] = j[m] PROVE k = m
    OBVIOUS
  <2>1. (k = L + 1 \/ k \in 1 .. L) /\ (m = L + 1 \/ m \in 1 .. L)
    BY <1>2
  <2> QED BY <1>2, <1>4, <1>5, <2>1
<1>8. \A o \in R : \E k \in 1 .. L + 1 : j[k] = o
  <2> SUFFICES ASSUME NEW o \in R PROVE \E k \in 1 .. L + 1 : j[k] = o
    OBVIOUS
  <2>1. CASE o = n + 1
    BY <1>2, <2>1
  <2>2. CASE o \in S
    <3>1. PICK k \in 1 .. L : h[k] = o
      BY <1>5, <2>2
    <3>2. k \in 1 .. L + 1 /\ k # L + 1
      BY <1>2
    <3> QED BY <3>1, <3>2
  <2> QED BY <1>4, <2>1, <2>2
<1>9. \A k \in 1 .. L + 1 : more[k] = list[j[k]]
  <2> SUFFICES ASSUME NEW k \in 1 .. L + 1 PROVE more[k] = list[j[k]]
    OBVIOUS
  <2>1. CASE k = L + 1
    BY <1>3, <2>1
  <2>2. CASE k \in 1 .. L
    BY <1>1, <1>2, <1>3, <2>2 DEF L
  <2> QED BY <1>2, <2>1, <2>2
<1> HIDE DEF j
<1>10. j \in Bijection(1 .. L + 1, R)
  BY <1>6, <1>7, <1>8 DEF Bijection, Injection, Surjection, IsInjective
<1>11. Len(more) = L + 1
  BY <1>3
<1> QED BY <1>3, <1>9, <1>10 DEF Picked, more, R

\* All cells of the script, and no others, by induction on how many are looked at.
LEMMA SelectionPicks ==
  ASSUME NEW list \in Seq(Cell), NEW t, NEW F, Selection(list, t, Len(list), F)
  PROVE  Picked(list, t, Len(list), F[Len(list)])
<1> DEFINE T == {n \in Nat : n <= Len(list) => Picked(list, t, n, F[n])}
<1>0. Len(list) \in Nat
  OBVIOUS
<1>1. 0 \in T
  <2>1. F[0] = <<>>
    BY <1>0 DEF Selection
  <2>2. <<>> \in Seq(Cell) /\ Len(<<>>) = 0
    OBVIOUS
  <2>3. {o \in 1 .. 0 : list[o].type = t} = {} /\ 1 .. 0 = {}
    OBVIOUS
  <2> DEFINE h == [k \in {} |-> 0]
  <2>4. h \in Bijection({}, {})
    BY DEF Bijection, Injection, Surjection, IsInjective
  <2> HIDE DEF h
  <2> QED BY <2>1, <2>2, <2>3, <2>4 DEF Picked
<1>2. ASSUME NEW n \in Nat, n \in T PROVE n + 1 \in T
  <2> SUFFICES ASSUME n + 1 <= Len(list) PROVE Picked(list, t, n + 1, F[n + 1])
    OBVIOUS
  <2>1. Picked(list, t, n, F[n])
    BY <1>0, <1>2
  <2>2. F[n + 1] = IF list[n + 1].type = t THEN Append(F[n], list[n + 1]) ELSE F[n]
    <3>1. n + 1 \in 0 .. Len(list) /\ n + 1 # 0 /\ n + 1 - 1 = n
      BY <1>0
    <3>2. ASSUME NEW k \in 0 .. Len(list), k # 0
          PROVE  F[k] = IF list[k].type = t THEN Append(F[k - 1], list[k]) ELSE F[k - 1]
      BY <3>2 DEF Selection
    <3> QED BY <3>1, <3>2
  <2>3. CASE list[n + 1].type = t
    BY <2>1, <2>2, <2>3, PickedAppend
  <2>4. CASE list[n + 1].type # t
    <3>1. {o \in 1 .. n + 1 : list[o].type = t} = {o \in 1 .. n : list[o].type = t}
      BY <2>4
    <3>2. F[n + 1] = F[n]
      BY <2>2, <2>4
    <3> HIDE DEF T
    <3> QED BY <2>1, <3>1, <3>2, Zenon DEF Picked
  <2> QED BY <2>3, <2>4
<1> HIDE DEF T
<1>3. Nat \subseteq T
  BY <1>1, <1>2, CountInduction
<1> QED BY <1>0, <1>3 DEF T

\* The cells of a group, in order, are those of the list with the group's script.
LEMMA GroupPicked ==
  ASSUME NEW list \in Seq(Cell), NEW t
  PROVE  /\ OfScript(list, t) \in Seq(Cell)
         /\ \E h \in Bijection(1 .. Len(OfScript(list, t)), OfType(list, t)) :
              \A k \in 1 .. Len(OfScript(list, t)) : OfScript(list, t)[k] = list[h[k]]
<1>1. PICK F : Selection(list, t, Len(list), F) /\ OfScript(list, t) = F[Len(list)]
  BY OfScriptSelects
<1>2. Picked(list, t, Len(list), OfScript(list, t))
  BY <1>1, SelectionPicks
<1>3. DOMAIN list = 1 .. Len(list)
  OBVIOUS
<1> QED BY <1>2, <1>3 DEF Picked, OfType

\* As many cells, of the same kinds and the same sum, in a group as in the list.
LEMMA GroupFacts ==
  ASSUME NEW list \in Seq(Cell), NEW t
  PROVE  LET g == OfScript(list, t)
         IN  /\ g \in Seq(Cell) /\ Cardinality(OfType(list, t)) = Len(g)
             /\ \A k \in 1 .. Len(g) : \E o \in OfType(list, t) : g[k] = list[o]
             /\ \A o \in OfType(list, t) : \E k \in 1 .. Len(g) : g[k] = list[o]
             /\ Total(g, 1 .. Len(g)) = Total(list, OfType(list, t))
<1> DEFINE g == OfScript(list, t)
           S == OfType(list, t)
<1>1. PICK h \in Bijection(1 .. Len(g), S) : \A k \in 1 .. Len(g) : g[k] = list[h[k]]
  BY GroupPicked
<1>2. g \in Seq(Cell)
  BY GroupPicked
<1>3. IsFiniteSet(1 .. Len(g)) /\ Cardinality(1 .. Len(g)) = Len(g)
  <2>1. Len(g) \in Nat /\ Len(g) \in Int /\ 1 \in Int
    BY <1>2
  <2> HIDE DEF g
  <2>2. /\ IsFiniteSet(1 .. Len(g))
        /\ Cardinality(1 .. Len(g)) = IF 1 > Len(g) THEN 0 ELSE Len(g) - 1 + 1
    BY <2>1, FS_Interval
  <2> QED BY <2>1, <2>2
<1>4. Cardinality(S) = Len(g)
  <2> HIDE DEF g, S
  <2>1. ExistsBijection(1 .. Len(g), S)
    BY <1>1 DEF ExistsBijection
  <2> QED BY <1>3, <2>1, FS_Bijection
<1>5. /\ h \in [1 .. Len(g) -> S] /\ \A o \in S : \E k \in 1 .. Len(g) : h[k] = o
  BY <1>1 DEF Bijection, Injection, Surjection
<1>6. Total(g, 1 .. Len(g)) = Total(list, S)
  <2> DEFINE f == [o \in S |-> list[o].amt]
  <2>1. f \in [S -> Nat]
    <3>1. \A o \in S : list[o] \in Cell
      BY DEF OfType
    <3> QED BY <3>1, WidthAssumption DEF Cell, Amounts
  <2>2. Total(g, 1 .. Len(g)) = Sum([k \in 1 .. Len(g) |-> f[h[k]]])
    <3>1. \A k \in 1 .. Len(g) : f[h[k]] = g[k].amt
      BY <1>1, <1>5
    <3>2. [k \in 1 .. Len(g) |-> f[h[k]]] = [k \in 1 .. Len(g) |-> g[k].amt]
      BY <3>1
    <3> QED BY <3>2 DEF Total
  <2>3. Total(list, S) = Sum(f)
    BY DEF Total
  <2> HIDE DEF f, g, S
  <2>4. Sum([k \in 1 .. Len(g) |-> f[h[k]]]) = Sum(f)
    <3> DEFINE D == 1 .. Len(g)
    <3>1. IsFiniteSet(D) /\ h \in Bijection(D, S)
      BY <1>1, <1>3
    <3> HIDE DEF D
    <3>2. Sum([k \in D |-> f[h[k]]]) = Sum(f)
      BY <2>1, <3>1, SumRenamed
    <3> QED BY <3>2 DEF D
  <2> QED BY <2>2, <2>3, <2>4
<1> HIDE DEF S
<1> QED BY <1>1, <1>2, <1>4, <1>5, <1>6 DEF S

-----------------------------------------------------------------------------
\* The cells a run looks at.
LEMMA ViewCells ==
  ASSUME view \in Views
  PROVE  /\ view.script \in TypeScripts /\ view.consumed \in Seq(Cell) /\ view.created \in Seq(Cell)
         /\ \A s : Cells(s) \in Seq(Cell) /\ Group(s) \in Seq(Cell)
<1>1. view.script \in TypeScripts /\ view.consumed \in Seq(Cell) /\ view.created \in Seq(Cell)
  BY ViewsAssumption
<1>2. ASSUME NEW s PROVE Cells(s) \in Seq(Cell) /\ Group(s) \in Seq(Cell)
  <2>1. Cells(s) \in Seq(Cell)
    BY <1>1 DEF Cells
  <2> QED BY <2>1, GroupPicked DEF Group
<1> QED BY <1>1, <1>2

\* What a load of a cell's data puts in an uint64_t is one.
LEMMA LoadedAmounts == ASSUME NEW cell \in Cell PROVE Loaded(cell) \subseteq Amounts
  BY DEF Loaded, Cell, DataSizes

LEMMA ReturnTyped ==
  ASSUME TypeOK, NEW code \in Codes, Return(code) PROVE TypeOK'
  BY DEF TypeOK, Return, values, Stages

LEMMA EnterTyped ==
  ASSUME TypeOK, NEW stage \in Stages, NEW s \in {"in", "out"}, Enter(stage, s), UNCHANGED values
  PROVE  TypeOK'
  BY DEF TypeOK, Enter, values

LEMMA EndLoopTyped ==
  ASSUME TypeOK, NEW stage \in Stages, EndLoop(stage), UNCHANGED values PROVE TypeOK'
  BY EnterTyped DEF EndLoop, TypeOK

LEMMA Increment8Typed ==
  ASSUME TypeOK, Increment8, Continue, UNCHANGED <<count, supply, udt_script>>,
         total' \in [{"in", "out"} -> Amounts]
  PROVE  TypeOK'
<1>1. (i + 1) % U8 \in Nat
  BY WidthAssumption DEF TypeOK
<1> QED BY <1>1 DEF TypeOK, Increment8, Continue

LEMMA AddTyped ==
  ASSUME TypeOK, NEW amt \in Amounts, Add(amt)
  PROVE  total' \in [{"in", "out"} -> Amounts] /\ UNCHANGED <<count, supply>>
<1>1. total[side] \in Nat /\ amt \in Nat
  BY WidthAssumption DEF TypeOK, Amounts
<1>2. (total[side] + amt) % U64 \in Amounts
  BY <1>1, WidthAssumption DEF Amounts
<1> QED BY <1>2 DEF Add, Added, TypeOK

LEMMA CountedTyped == ASSUME TypeOK, Counted PROVE TypeOK'
<1>1. CASE Return("ERROR_TYPE_ID_VIOLATION")
  BY <1>1, ReturnTyped DEF Codes
<1>2. CASE /\ count[side] + 1 <= 1 /\ count' = [count EXCEPT ![side] = @ + 1]
           /\ Increment /\ Continue /\ UNCHANGED <<supply, total, udt_script>>
  <2>1. count' \in [{"in", "out"} -> 0 .. 1]
    <3>1. count[side] + 1 \in 0 .. 1
      BY <1>2 DEF TypeOK
    <3> QED BY <1>2, <3>1 DEF TypeOK
  <2> QED BY <1>2, <2>1 DEF TypeOK, Increment, Continue
<1> QED BY <1>1, <1>2 DEF Counted

\* Every variable of a run of the two scripts stays in its domain: amounts, sums and
\* supplies fit uint64_t, and the type id check counts no further than to one.
THEOREM Typing == Spec => []TypeOK
<1>1. Init => TypeOK
  <2> SUFFICES ASSUME Init PROVE TypeOK
    OBVIOUS
  <2>1. 0 \in Amounts
    BY WidthAssumption DEF Amounts
  <2> QED BY <2>1 DEF Init, TypeOK, Both, Stages, Codes
<1>2. TypeOK /\ [Next]_vars => TypeOK'
  <2> SUFFICES ASSUME TypeOK, [Next]_vars PROVE TypeOK'
    OBVIOUS
  <2>0. /\ side \in {"in", "out"} /\ pc \in Stages /\ i \in Nat
        /\ \A s : Group(s) \in Seq(Cell) /\ Cells(s) \in Seq(Cell)
    BY ViewCells DEF TypeOK
  <2>1. CASE VerifyUdtData
    <3>1. CASE EndLoop("create_mode") /\ UNCHANGED values
      BY <3>1, EndLoopTyped DEF Stages
    <3>2. CASE Increment8 /\ Continue /\ UNCHANGED <<values, udt_script>>
      BY <3>2, Increment8Typed DEF values, TypeOK
    <3>3. CASE \E code \in Codes : Return(code)
      BY <3>3, ReturnTyped
    <3> QED BY <2>1, <3>1, <3>2, <3>3 DEF VerifyUdtData, Codes
  <2>2. CASE CreateMode
    <3>1. CASE \E code \in Codes : Return(code)
      BY <3>1, ReturnTyped
    <3>2. CASE /\ Enter(IF IsUdtDef THEN "search" ELSE "verify_type_id_update", "in")
               /\ UNCHANGED values
      BY <3>2, EnterTyped DEF Stages
    <3> QED BY <2>2, <3>1, <3>2 DEF CreateMode, Codes
  <2>3. CASE Search
    <3>1. CASE Enter("sum", "in") /\ UNCHANGED values
      BY <3>1, EnterTyped DEF Stages
    <3>2. CASE Increment8 /\ Continue /\ UNCHANGED <<values, udt_script>>
      BY <3>2, Increment8Typed DEF values, TypeOK
    <3>3. CASE \E code \in Codes : Return(code)
      BY <3>3, ReturnTyped
    <3> QED BY <2>3, <3>1, <3>2, <3>3 DEF Search, Codes
  <2>4. CASE SumGroup
    <3>1. CASE EndLoop("decide") /\ UNCHANGED values
      BY <3>1, EndLoopTyped DEF Stages
    <3>2. CASE /\ ~AtEnd(Group(side)) /\ Add(Group(side)[i + 1].amt)
               /\ Increment8 /\ Continue /\ UNCHANGED udt_script
      <4>1. Group(side)[i + 1] \in Cell
        BY <2>0, <3>2 DEF AtEnd
      <4>2. Group(side)[i + 1].amt \in Amounts
        BY <4>1 DEF Cell
      <4> QED BY <3>2, <4>2, AddTyped, Increment8Typed
    <3> QED BY <2>4, <3>1, <3>2 DEF SumGroup
  <2>5. CASE VerifyTypeIdUpdate
    <3>1. CASE \E stage \in Stages : EndLoop(stage) /\ UNCHANGED values
      BY <3>1, EndLoopTyped
    <3>2. CASE Return("ERROR_TYPE_ID_VIOLATION")
      BY <3>2, ReturnTyped DEF Codes
    <3> QED BY <2>0, <2>5, <3>1, <3>2, CountedTyped DEF VerifyTypeIdUpdate, Stages
  <2>6. CASE LoadSupplies
    <3>1. CASE Return("load_code")
      BY <3>1, ReturnTyped DEF Codes
    <3>2. ASSUME NEW x \in IF Group("in") = <<>> THEN {} ELSE Loaded(Group("in")[1]),
                 NEW y \in IF Group("out") = <<>> THEN {} ELSE Loaded(Group("out")[1]),
                 supply' = [in |-> x, out |-> y],
                 Enter("get_udt_instance_amount", "in"), UNCHANGED <<count, total>>
          PROVE  TypeOK'
      <4>1. \A s : Group(s) # <<>> => Loaded(Group(s)[1]) \subseteq Amounts
        BY <2>0, LoadedAmounts
      <4>2. supply' \in [{"in", "out"} -> Amounts]
        <5>1. x \in Amounts /\ y \in Amounts
          BY <4>1
        <5> QED BY <3>2, <5>1
      <4> QED BY <3>2, <4>2 DEF TypeOK, Enter, Stages
    <3> QED BY <2>6, <3>1, <3>2 DEF LoadSupplies
  <2>7. CASE GetUdtInstanceAmount
    <3>1. CASE EndLoop("decide") /\ UNCHANGED values
      BY <3>1, EndLoopTyped DEF Stages
    <3>2. CASE Return("load_code")
      BY <3>2, ReturnTyped DEF Codes
    <3>3. ASSUME ~AtEnd(Cells(side)), NEW script \in Parsed(Cells(side)[i + 1]), udt_script' = script,
                 Increment, Continue,
                 UNCHANGED values \/ \E amt \in Loaded(Cells(side)[i + 1]) : Add(amt)
          PROVE  TypeOK'
      <4>1. Cells(side)[i + 1] \in Cell
        BY <2>0, <3>3 DEF AtEnd
      <4>2. script \in TypeScripts \union {NoType}
        <5>1. InstanceScript \in TypeScripts
          BY ViewCells DEF InstanceScript, UdtOf, Script, TypeScripts, Programs, Args, TypeOK
        <5> QED BY <3>3, <4>1, <5>1 DEF Parsed, Cell, TypeOK
      <4>3. total' \in [{"in", "out"} -> Amounts] /\ UNCHANGED <<count, supply>>
        BY <3>3, <4>1, LoadedAmounts, AddTyped DEF values, TypeOK
      <4> QED BY <3>3, <4>2, <4>3 DEF TypeOK, Increment, Continue
    <3> QED BY <2>7, <3>1, <3>2, <3>3 DEF GetUdtInstanceAmount
  <2>8. CASE Decide
    <3>1. Verdict(supply.in, supply.out, total.in, total.out) \in Codes
      BY DEF Verdict, Codes
    <3> QED BY <2>8, <3>1, ReturnTyped DEF Decide
  <2>9. CASE SyscallFails
    BY <2>9, CountedTyped, ReturnTyped DEF SyscallFails, Codes
  <2>10. CASE OutOfCycles
    BY <2>10, ReturnTyped DEF OutOfCycles, Codes
  <2>11. CASE UNCHANGED vars
    BY <2>11 DEF vars, values, TypeOK
  <2> QED BY <2>1, <2>2, <2>3, <2>4, <2>5, <2>6, <2>7, <2>8, <2>9, <2>10, <2>11 DEF Next
<1> QED BY <1>1, <1>2, PTL DEF Spec

-----------------------------------------------------------------------------
Sides == {"in", "out"}
Id == view.script.id
Whole(s) == 1 .. Len(Group(s))
Exact(s, S) == \A k \in S : Group(s)[k].size = "exact"

\* What is known of a sum of the amounts a loop of the instances' script, or of the
\* info cell's, has come across: those of the cells at S, and those at some part of
\* the cells at 1 .. n that may pass for instances.
SumOver(s, S) == total[s] = Total(Group(s), S) % U64
SomeSum(sum, cells, id, n) ==
  \E S \in SUBSET ((Instances(cells, id) \union Typeless(cells)) \intersect 1 .. n) :
    /\ Instances(cells, id) \intersect 1 .. n \subseteq S
    /\ \E f \in [S -> Amounts] : /\ \A o \in S : f[o] \in Loaded(cells[o])
                                 /\ sum = Sum(f) % U64
SumUpto(s, n) == SomeSum(total[s], Cells(s), Id, n)

\* Before the sums.
Fresh == pc \in {"verify_udt_data", "create_mode", "search", "verify_type_id_update", "supply"}
           => total = Both(0)

\* The stages of main() of udt_def.c.
VerifyKnown ==
  pc = "verify_udt_data" =>
    /\ i < U8
    /\ laps = 0 => i <= Len(Group(side)) /\ Exact(side, 1 .. i)
    /\ laps = 1 => ~EndsAfter(Len(Group(side)))
    /\ side = "out" => EndsAfter(Len(Group("in"))) /\ Exact("in", Whole("in"))
SearchKnown ==
  pc = "search" =>
    /\ i < U8
    /\ laps = 0 => /\ i <= Len(view.created)
                   /\ \A k \in 1 .. i : view.created[k].type # NoType /\ ~IsInfo(view.created[k].type)
    /\ laps = 1 => /\ ~EndsAfter(Len(view.created))
                   /\ \A k \in 1 .. U8 : ~IsInfo(view.created[k].type)
SumKnown ==
  pc = "sum" =>
    /\ laps = 0 /\ i <= Len(Group(side)) /\ SumOver(side, 1 .. i)
    /\ side = "in" => total.out = 0
    /\ side = "out" => SumOver("in", Whole("in"))
UdtDefKnown ==
  IsUdtDef =>
    /\ pc \in {"verify_udt_data", "create_mode", "search", "sum", "decide", "done"}
    /\ VerifyKnown /\ SearchKnown /\ SumKnown
    /\ pc \in {"create_mode", "search", "sum", "decide"} =>
         verify_udt_data(view.script, view.consumed, view.created)
    /\ pc \in {"sum", "decide"} => InfoMissed(Id, view.created)
    /\ pc = "decide" => \A s \in Sides : SumOver(s, Whole(s))

\* The stages of main() of udt_info_type.c.  A failing load counts for a cell.
Single(s) == Len(Group(s)) <= 1 /\ (MayFail(view) \/ Len(Group(s)) = 1)
CountKnown ==
  pc = "verify_type_id_update" =>
    /\ i <= 1 /\ count[side] = i /\ (MayFail(view) \/ i <= Len(Group(side)))
    /\ side = "in" => count.out = 0
    /\ side = "out" => /\ Len(Group("in")) <= count.in
                       /\ MayFail(view) \/ Len(Group("in")) = count.in
SupplyKnown(s) == Len(Group(s)) = 1 /\ supply[s] \in Loaded(Group(s)[1])
AmountKnown ==
  pc = "get_udt_instance_amount" =>
    /\ i <= Len(Cells(side)) /\ SumUpto(side, i)
    /\ side = "in" => total.out = 0
    /\ side = "out" => total.in \in InstanceAmounts(Id, view.consumed)
InfoKnown ==
  ~IsUdtDef =>
    /\ pc \in {"create_mode", "verify_type_id_update", "supply", "get_udt_instance_amount",
               "decide", "done"}
    /\ laps = 0 /\ CountKnown /\ AmountKnown
    /\ pc = "create_mode" => count = Both(0)
    /\ pc = "supply" => \A s \in Sides : Single(s)
    /\ pc \in {"get_udt_instance_amount", "decide"} => \A s \in Sides : SupplyKnown(s)
    /\ pc = "decide" => \A s \in Sides : total[s] \in InstanceAmounts(Id, Cells(s))

\* A run past the creation of the token has args of its script's length and is no
\* creation; a verdict is the decision's.
NoCreation ==
  pc \notin {"verify_udt_data", "create_mode", "done"} => ArgsFit /\ view.first # Id
MayBeAccepted == MayAccept(view.script, view.first, view.consumed, view.created)
MustBeAccepted == MustAccept(view.script, view.first, view.consumed, view.created)
Decided ==
  /\ ret = "none" <=> pc # "done"
  /\ pc = "done" => IF ret = "SUCCESS" THEN MayBeAccepted ELSE MayFail(view) \/ ~MustBeAccepted

DInv == Fresh /\ UdtDefKnown /\ InfoKnown /\ NoCreation /\ Decided

\* What only depends on the transaction does not change.
LEMMA ViewKept ==
  ASSUME view' = view
  PROVE  /\ \A s : Cells(s)' = Cells(s) /\ Group(s)' = Group(s) /\ Whole(s)' = Whole(s)
         /\ Id' = Id /\ (IsUdtDef' <=> IsUdtDef) /\ (ArgsFit' <=> ArgsFit)
         /\ (MayBeAccepted' <=> MayBeAccepted) /\ (MustBeAccepted' <=> MustBeAccepted)
<1>1. \A s : Cells(s)' = Cells(s)
  BY DEF Cells
<1>2. \A s : Group(s)' = Group(s)
  BY <1>1 DEF Group
<1>3. \A s : Whole(s)' = Whole(s)
  BY <1>2 DEF Whole
<1> QED BY <1>1, <1>2, <1>3 DEF Id, IsUdtDef, ArgsFit, MayBeAccepted, MustBeAccepted

\* The groups are those the decisions speak of.
LEMMA GroupOf ==
  ASSUME TypeOK
  PROVE  /\ Cells("in") = view.consumed /\ Cells("out") = view.created
         /\ Id \in Ids
         /\ \A s : /\ Len(Group(s)) \in Nat
                   /\ Cardinality(OfType(Cells(s), view.script)) = Len(Group(s))
                   /\ \A k \in 1 .. Len(Group(s)) :
                        \E o \in OfType(Cells(s), view.script) : Group(s)[k] = Cells(s)[o]
                   /\ \A o \in OfType(Cells(s), view.script) :
                        \E k \in 1 .. Len(Group(s)) : Group(s)[k] = Cells(s)[o]
                   /\ Total(Group(s), Whole(s)) = Total(Cells(s), OfType(Cells(s), view.script))
<1>1. view.script \in TypeScripts /\ \A s : Cells(s) \in Seq(Cell) /\ Group(s) \in Seq(Cell)
  BY ViewCells DEF TypeOK
<1>2. Id \in Ids
  BY <1>1 DEF Id, TypeScripts
<1>3. ASSUME NEW s
      PROVE  /\ Len(Group(s)) \in Nat
             /\ Cardinality(OfType(Cells(s), view.script)) = Len(Group(s))
             /\ \A k \in 1 .. Len(Group(s)) :
                  \E o \in OfType(Cells(s), view.script) : Group(s)[k] = Cells(s)[o]
             /\ \A o \in OfType(Cells(s), view.script) :
                  \E k \in 1 .. Len(Group(s)) : Group(s)[k] = Cells(s)[o]
             /\ Total(Group(s), Whole(s)) = Total(Cells(s), OfType(Cells(s), view.script))
  BY <1>1, GroupFacts DEF Group, Whole
<1> QED BY <1>2, <1>3 DEF Cells

\* verify_udt_data looks at the groups cell by cell.
LEMMA VerifiedGroups ==
  ASSUME TypeOK
  PROVE  verify_udt_data(view.script, view.consumed, view.created)
           <=> \A s \in Sides : EndsAfter(Len(Group(s))) /\ Exact(s, Whole(s))
<1>1. ASSUME NEW s
      PROVE  /\ Cardinality(OfType(Cells(s), view.script)) = Len(Group(s))
             /\ (\A o \in OfType(Cells(s), view.script) : Cells(s)[o].size = "exact")
                  <=> Exact(s, Whole(s))
  <2>1. /\ Cardinality(OfType(Cells(s), view.script)) = Len(Group(s))
        /\ \A k \in 1 .. Len(Group(s)) :
             \E o \in OfType(Cells(s), view.script) : Group(s)[k] = Cells(s)[o]
        /\ \A o \in OfType(Cells(s), view.script) :
             \E k \in 1 .. Len(Group(s)) : Group(s)[k] = Cells(s)[o]
    BY GroupOf
  <2>2. (\A o \in OfType(Cells(s), view.script) : Cells(s)[o].size = "exact")
          <=> \A k \in 1 .. Len(Group(s)) : Group(s)[k].size = "exact"
    BY <2>1
  <2> QED BY <2>1, <2>2 DEF Exact, Whole
<1>2. Cells("in") = view.consumed /\ Cells("out") = view.created
  BY GroupOf
<1> QED BY <1>1, <1>2 DEF verify_udt_data, Sides

LEMMA UdtDefVerdict ==
  ASSUME IsUdtDef
  PROVE  /\ MayBeAccepted <=> UdtDefAccepts(view.script, view.first, view.consumed, view.created)
         /\ MustBeAccepted <=> UdtDefAccepts(view.script, view.first, view.consumed, view.created)
  BY Zenon DEF IsUdtDef, MayBeAccepted, MustBeAccepted, MayAccept, MustAccept

LEMMA InfoVerdict ==
  ASSUME TypeOK, ~IsUdtDef
  PROVE  /\ MayBeAccepted <=> InfoMayAccept(view.script, view.first, view.consumed, view.created)
         /\ MustBeAccepted <=> InfoMustAccept(view.script, view.first, view.consumed, view.created)
<1>1. view.script.code = "udt_info"
  BY ViewsAssumption DEF TypeOK, TypeScripts, Programs, IsUdtDef
<1>2. "udt_info" # "udt_def"
  OBVIOUS
<1> QED BY <1>1, <1>2, Zenon DEF MayBeAccepted, MustBeAccepted, MayAccept, MustAccept

\* A run that returns for a reason has decided.
LEMMA Returned ==
  ASSUME DInv, NEW code, code # "none", Return(code), pc # "done",
         IF code = "SUCCESS" THEN MayBeAccepted ELSE MayFail(view) \/ ~MustBeAccepted
  PROVE  DInv'
<1>1. pc' = "done" /\ ret' = code /\ view' = view /\ laps' = laps
  BY DEF Return
<1>2. (MayBeAccepted' <=> MayBeAccepted) /\ (MustBeAccepted' <=> MustBeAccepted)
      /\ (IsUdtDef' <=> IsUdtDef) /\ (MayFail(view)' <=> MayFail(view))
  BY <1>1, ViewKept DEF MayFail
<1>3. Decided'
  BY <1>1, <1>2 DEF Decided
<1>4. Fresh' /\ NoCreation'
  BY <1>1 DEF Fresh, NoCreation
<1>5. UdtDefKnown'
  BY <1>1 DEF UdtDefKnown, VerifyKnown, SearchKnown, SumKnown
<1>6. InfoKnown'
  BY <1>1, <1>2 DEF DInv, InfoKnown, CountKnown, AmountKnown
<1> QED BY <1>3, <1>4, <1>5, <1>6 DEF DInv

\* The other steps of a run: of udt_def.c, and of udt_info_type.c.
LEMMA UdtDefGoesOn ==
  ASSUME DInv, IsUdtDef, view' = view, UNCHANGED ret, pc # "done", pc' # "done",
         pc' \notin {"sum", "decide"} => total' = Both(0), UdtDefKnown',
         pc' \in {"search", "sum", "decide"} => ArgsFit /\ view.first # Id
  PROVE  DInv'
<1>1. IsUdtDef' /\ Id' = Id /\ (ArgsFit' <=> ArgsFit)
  BY ViewKept
<1>2. pc' \in {"verify_udt_data", "create_mode", "search", "sum", "decide", "done"}
  BY <1>1 DEF UdtDefKnown
<1> QED BY <1>1, <1>2 DEF DInv, Fresh, InfoKnown, NoCreation, Decided

LEMMA InfoGoesOn ==
  ASSUME DInv, ~IsUdtDef, view' = view, UNCHANGED ret, pc # "done", pc' # "done",
         pc' \in {"create_mode", "verify_type_id_update", "supply"} => total' = Both(0), InfoKnown',
         pc' # "create_mode" => ArgsFit /\ view.first # Id
  PROVE  DInv'
<1>1. ~IsUdtDef' /\ Id' = Id /\ (ArgsFit' <=> ArgsFit)
  BY ViewKept
<1>2. pc' \in {"create_mode", "verify_type_id_update", "supply", "get_udt_instance_amount",
               "decide", "done"}
  BY <1>1 DEF InfoKnown
<1> QED BY <1>1, <1>2 DEF DInv, Fresh, UdtDefKnown, NoCreation, Decided

\* An index that starts again, or goes on.
LEMMA Advances ==
  ASSUME TypeOK, i < U8, Increment8
  PROVE  \/ i + 1 = U8 /\ i' = 0 /\ laps' = 1
         \/ i + 1 < U8 /\ i' = i + 1 /\ laps' = laps
<1>1. i \in Nat /\ U8 \in Nat \ {0} /\ i' = (i + 1) % U8
      /\ laps' = IF i + 1 = U8 THEN 1 ELSE laps
  BY WidthAssumption DEF TypeOK, Increment8
<1>2. CASE i + 1 = U8
  <2>1. U8 % U8 = 0
    BY <1>1
  <2> QED BY <1>1, <1>2, <2>1
<1>3. CASE i + 1 # U8
  <2>1. i + 1 < U8 /\ i + 1 \in Nat
    BY <1>1, <1>3
  <2>2. \A x \in Nat : x < U8 => x % U8 = x
    BY <1>1
  <2> QED BY <1>1, <1>3, <2>1, <2>2
<1> QED BY <1>2, <1>3

-----------------------------------------------------------------------------
\* The checks of the instances' data stop at the first that does not hold, and have
\* looked at every cell of the group when they end.
LEMMA VerifyDecides == ASSUME TypeOK, DInv, VerifyUdtData PROVE DInv'
<1>0. pc = "verify_udt_data" /\ IsUdtDef /\ VerifyKnown /\ i \in Nat /\ side \in Sides
      /\ total = Both(0) /\ laps \in {0, 1} /\ U8 \in Nat \ {0}
  BY WidthAssumption DEF TypeOK, DInv, Fresh, UdtDefKnown, InfoKnown, VerifyUdtData, Sides
<1>a. Len(Group(side)) \in Nat
  BY GroupOf
<1>1. CASE AtEnd(Group(side)) /\ EndLoop("create_mode") /\ UNCHANGED values
  <2>1. laps = 0 /\ EndsAfter(Len(Group(side))) /\ Exact(side, Whole(side))
    <3>1. laps = 0
      BY <1>0, <1>a, <1>1 DEF VerifyKnown, AtEnd, EndsAfter
    <3>2. i = Len(Group(side))
      BY <1>0, <1>a, <1>1, <3>1 DEF VerifyKnown, AtEnd
    <3> QED BY <1>0, <3>1, <3>2 DEF VerifyKnown, EndsAfter, Whole
  <2>2. CASE side = "in"
    <3>1. /\ pc' = "verify_udt_data" /\ side' = "out" /\ i' = 0 /\ laps' = 0
          /\ view' = view /\ UNCHANGED ret /\ total' = total
      BY <1>0, <1>1, <2>2 DEF EndLoop, Enter, values
    <3>2. IsUdtDef' /\ \A s : Group(s)' = Group(s)
      BY <1>0, <3>1, ViewKept
    <3>3. VerifyKnown'
      <4>1. EndsAfter(Len(Group("in")'))
        BY <2>1, <2>2, <3>2
      <4>2. \A k \in 1 .. Len(Group("in")') : Group("in")'[k].size = "exact"
        BY <2>1, <2>2, <3>2 DEF Exact, Whole
      <4>3. 0 <= Len(Group("out")') /\ \A k \in 1 .. 0 : Group("out")'[k].size = "exact"
        BY <3>2, GroupOf
      <4> QED BY <1>0, <3>1, <4>1, <4>2, <4>3 DEF VerifyKnown, Exact, Whole
    <3>4. UdtDefKnown'
      BY <3>1, <3>3 DEF UdtDefKnown, SearchKnown, SumKnown
    <3> QED BY <1>0, <3>1, <3>4, UdtDefGoesOn
  <2>3. CASE side = "out"
    <3>1. /\ pc' = "create_mode" /\ i' = 0 /\ laps' = 0
          /\ view' = view /\ UNCHANGED ret /\ total' = total
      BY <1>0, <1>1, <2>3 DEF EndLoop, Enter, values
    <3>2. verify_udt_data(view.script, view.consumed, view.created)
      <4>1. EndsAfter(Len(Group("in"))) /\ Exact("in", Whole("in"))
        BY <1>0, <2>3 DEF VerifyKnown
      <4> QED BY <1>0, <2>1, <2>3, <4>1, VerifiedGroups DEF Sides
    <3>3. verify_udt_data(view'.script, view'.consumed, view'.created)
      BY <3>1, <3>2, ViewKept
    <3>4. UdtDefKnown'
      BY <3>1, <3>3 DEF UdtDefKnown, VerifyKnown, SearchKnown, SumKnown
    <3> QED BY <1>0, <3>1, <3>4, UdtDefGoesOn
  <2> QED BY <1>0, <2>2, <2>3 DEF Sides
<1>2. CASE /\ ~AtEnd(Group(side)) /\ Group(side)[i + 1].size = "exact"
           /\ Increment8 /\ Continue /\ UNCHANGED values
  <2>1. /\ pc' = "verify_udt_data" /\ side' = side
        /\ view' = view /\ UNCHANGED ret /\ total' = total
    BY <1>0, <1>2 DEF Continue, values
  <2>2. IsUdtDef' /\ \A s : Group(s)' = Group(s)
    BY <1>0, <2>1, ViewKept
  <2>3. i + 1 <= Len(Group(side))
    BY <1>0, <1>a, <1>2 DEF AtEnd
  <2>4. \/ i + 1 = U8 /\ i' = 0 /\ laps' = 1
        \/ i + 1 < U8 /\ i' = i + 1 /\ laps' = laps
    BY <1>0, <1>2, Advances DEF VerifyKnown
  <2>5. i' < U8
    BY <1>0, <2>4
  <2>6. laps' = 0 => i' <= Len(Group(side)) /\ Exact(side, 1 .. i')
    <3> SUFFICES ASSUME laps' = 0 PROVE i' <= Len(Group(side)) /\ Exact(side, 1 .. i')
      OBVIOUS
    <3>1. laps = 0 /\ i' = i + 1
      BY <2>4
    <3>2. Exact(side, 1 .. i)
      BY <1>0, <3>1 DEF VerifyKnown
    <3>3. \A k \in 1 .. i + 1 : k \in 1 .. i \/ k = i + 1
      BY <1>0
    <3> QED BY <1>2, <2>3, <3>1, <3>2, <3>3 DEF Exact
  <2>7. laps' = 1 => ~EndsAfter(Len(Group(side)))
    BY <1>0, <1>a, <2>3, <2>4 DEF VerifyKnown, EndsAfter
  <2>8. side = "out" => EndsAfter(Len(Group("in"))) /\ Exact("in", Whole("in"))
    BY <1>0 DEF VerifyKnown
  <2>9. VerifyKnown'
    BY <2>1, <2>2, <2>5, <2>6, <2>7, <2>8 DEF VerifyKnown, Exact, Whole
  <2>10. UdtDefKnown'
    BY <2>1, <2>9 DEF UdtDefKnown, SearchKnown, SumKnown
  <2> QED BY <1>0, <2>1, <2>10, UdtDefGoesOn
<1>3. ASSUME ~AtEnd(Group(side)), Group(side)[i + 1].size # "exact",
             NEW code, code \notin {"none", "SUCCESS"}, Return(code)
      PROVE  DInv'
  <2>1. i + 1 \in Whole(side)
    BY <1>0, <1>a, <1>3 DEF AtEnd, Whole
  <2>2. ~verify_udt_data(view.script, view.consumed, view.created)
    BY <1>0, <1>3, <2>1, VerifiedGroups DEF Exact
  <2>3. ~MustBeAccepted
    BY <1>0, <2>2, UdtDefVerdict DEF UdtDefAccepts
  <2> QED BY <1>0, <1>3, <2>3, Returned
<1> QED BY <1>1, <1>2, <1>3 DEF VerifyUdtData

\* Both scripts let a creation be; past it they are at the start of a search, or of a
\* count.
LEMMA CreateDecides == ASSUME TypeOK, DInv, CreateMode PROVE DInv'
<1>0. pc = "create_mode" /\ total = Both(0) /\ U8 \in Nat \ {0}
  BY WidthAssumption DEF DInv, Fresh, CreateMode
<1>1. CASE ~ArgsFit /\ Return("ERROR_ARGUMENTS_LEN")
  <2>1. CASE IsUdtDef
    <3>1. ~MustBeAccepted
      BY <1>1, <2>1, UdtDefVerdict DEF UdtDefAccepts, ArgsFit
    <3> QED BY <1>0, <1>1, <3>1, Returned
  <2>2. CASE ~IsUdtDef
    <3>1. ~InfoMayAccept(view.script, view.first, view.consumed, view.created)
      BY <1>1, <2>2 DEF InfoMayAccept, ArgsFit
    <3>2. ~MustBeAccepted
      BY <2>2, <3>1, InfoVerdict DEF InfoMustAccept
    <3> QED BY <1>0, <1>1, <3>2, Returned
  <2> QED BY <2>1, <2>2
<1>2. CASE ArgsFit /\ view.first = Id /\ Return("SUCCESS")
  <2>1. CASE IsUdtDef
    <3>1. verify_udt_data(view.script, view.consumed, view.created)
      BY <1>0, <2>1 DEF DInv, UdtDefKnown
    <3>2. MayBeAccepted
      BY <1>2, <2>1, <3>1, UdtDefVerdict DEF UdtDefAccepts, ArgsFit, Id
    <3> QED BY <1>0, <1>2, <3>2, Returned
  <2>2. CASE ~IsUdtDef
    <3>1. MayBeAccepted
      BY <1>2, <2>2, InfoVerdict DEF InfoMayAccept, ArgsFit, Id
    <3> QED BY <1>0, <1>2, <3>1, Returned
  <2> QED BY <2>1, <2>2
<1>3. CASE /\ ArgsFit /\ view.first # Id /\ UNCHANGED values
           /\ Enter(IF IsUdtDef THEN "search" ELSE "verify_type_id_update", "in")
  <2>1. /\ side' = "in" /\ i' = 0 /\ laps' = 0 /\ view' = view /\ UNCHANGED ret
        /\ total' = total /\ count' = count
        /\ pc' = IF IsUdtDef THEN "search" ELSE "verify_type_id_update"
    BY <1>3 DEF Enter, values
  <2>2. CASE IsUdtDef
    <3>1. verify_udt_data(view'.script, view'.consumed, view'.created)
      BY <1>0, <2>1, <2>2, ViewKept DEF DInv, UdtDefKnown
    <3>2. SearchKnown'
      <4>1. 0 <= Len(view'.created)
        BY <2>1, GroupOf, ViewCells DEF TypeOK
      <4>2. \A k \in 1 .. 0 : view'.created[k].type # NoType /\ ~IsInfo(view.created[k].type)'
        OBVIOUS
      <4> QED BY <1>0, <2>1, <4>1, <4>2 DEF SearchKnown
    <3>3. UdtDefKnown'
      BY <2>1, <2>2, <3>1, <3>2 DEF UdtDefKnown, VerifyKnown, SumKnown
    <3> QED BY <1>0, <1>3, <2>1, <2>2, <3>3, UdtDefGoesOn
  <2>3. CASE ~IsUdtDef
    <3>1. count = Both(0)
      BY <1>0, <2>3 DEF DInv, InfoKnown
    <3>2. 0 <= Len(Group("in")')
      BY <2>1, GroupOf, ViewKept
    <3>3. CountKnown'
      BY <2>1, <3>1, <3>2 DEF CountKnown, Both
    <3>4. InfoKnown'
      BY <2>1, <2>3, <3>3 DEF InfoKnown, AmountKnown
    <3> QED BY <1>0, <1>3, <2>1, <2>3, <3>4, InfoGoesOn
  <2> QED BY <2>2, <2>3
<1> QED BY <1>1, <1>2, <1>3 DEF CreateMode, Id

\* The sum of no cells.
LEMMA NothingSums == ASSUME NEW g PROVE Total(g, 1 .. 0) = 0
<1>1. [k \in 1 .. 0 |-> g[k].amt] \in [{} -> Nat]
  OBVIOUS
<1> QED BY <1>1, SumEmpty DEF Total

\* The search for the info cell ends at the first output that is it, or has no type
\* script; when it ends at neither, there is none.
LEMMA SearchDecides == ASSUME TypeOK, DInv, Search PROVE DInv'
<1> DEFINE list == view.created
<1>0. /\ pc = "search" /\ IsUdtDef /\ SearchKnown /\ i \in Nat /\ total = Both(0)
      /\ laps \in {0, 1} /\ U8 \in Nat \ {0} /\ ArgsFit /\ view.first # Id
      /\ verify_udt_data(view.script, view.consumed, view.created)
  BY WidthAssumption DEF TypeOK, DInv, Fresh, UdtDefKnown, InfoKnown, NoCreation, Search
<1>a. Len(list) \in Nat /\ DOMAIN list = 1 .. Len(list) /\ ~IsInfo(NoType)
  BY ViewCells DEF TypeOK, IsInfo, HasArgs
<1>b. MustBeAccepted => InfoFound(Id, list) \/ InfoMissed(Id, list)
  BY <1>0, UdtDefVerdict DEF UdtDefAccepts, Id
<1>c. /\ \A k : k \in Infos(list, Id) <=> k \in 1 .. Len(list) /\ IsInfo(list[k].type)
      /\ \A k : k \in Typeless(list) <=> k \in 1 .. Len(list) /\ list[k].type = NoType
  BY <1>a DEF Infos, IsInfo, Id, Typeless, OfType
<1>d. /\ laps = 0 => /\ i <= Len(list)
                     /\ \A k \in 1 .. i : list[k].type # NoType /\ ~IsInfo(list[k].type)
      /\ laps = 1 => ~EndsAfter(Len(list)) /\ \A k \in 1 .. U8 : ~IsInfo(list[k].type)
      /\ i < U8
  BY <1>0 DEF SearchKnown
<1> HIDE DEF list
<1>1. CASE AtEnd(list) /\ Enter("sum", "in") /\ UNCHANGED values
  <2>1. laps = 0 /\ i = Len(list)
    <3>1. Len(list) < i + 1
      BY <1>1 DEF AtEnd
    <3>2. (laps = 0 => i <= Len(list)) /\ (laps = 1 => ~(Len(list) < U8)) /\ i < U8
      BY <1>d DEF EndsAfter
    <3>3. i \in Nat /\ U8 \in Nat /\ Len(list) \in Nat /\ laps \in {0, 1}
      BY <1>0, <1>a
    <3> QED BY <3>1, <3>2, <3>3
  <2>2. InfoMissed(Id, list)
    <3>1. Infos(list, Id) = {} /\ Typeless(list) = {}
      BY <1>c, <1>d, <2>1
    <3> QED BY <1>d, <2>1, <3>1 DEF InfoMissed, EndsAfter
  <2>3. /\ pc' = "sum" /\ side' = "in" /\ i' = 0 /\ laps' = 0
        /\ view' = view /\ UNCHANGED ret /\ total' = total
    BY <1>1 DEF Enter, values
  <2>4. SumKnown'
    <3>1. total'["in"] = 0 /\ total'["out"] = 0
      BY <1>0, <2>3 DEF Both
    <3>2. Total(Group("in")', 1 .. 0) = 0
      BY NothingSums
    <3>3. SumOver("in", 1 .. 0)'
      BY <1>0, <2>3, <3>1, <3>2, WidthAssumption DEF SumOver
    <3>4. 0 <= Len(Group("in")')
      BY <2>3, GroupOf, ViewKept
    <3> QED BY <2>3, <3>1, <3>3, <3>4 DEF SumKnown
  <2>5. verify_udt_data(view'.script, view'.consumed, view'.created) /\ InfoMissed(Id', view'.created)
    BY <1>0, <2>2, <2>3, ViewKept DEF list
  <2>6. UdtDefKnown'
    BY <2>3, <2>4, <2>5 DEF UdtDefKnown, VerifyKnown, SearchKnown
  <2> QED BY <1>0, <2>3, <2>6, UdtDefGoesOn
<1>2. CASE ~AtEnd(list) /\ list[i + 1].type = NoType /\ Return("load_code")
  <2>1. i + 1 \in 1 .. Len(list)
    BY <1>0, <1>a, <1>2 DEF AtEnd
  <2>2. ~InfoMissed(Id, list)
    BY <1>2, <1>c, <2>1 DEF InfoMissed
  <2>3. ~InfoFound(Id, list)
    <3> SUFFICES ASSUME NEW k \in Infos(list, Id), k <= U8, \A j \in Typeless(list) : k < j
                 PROVE  FALSE
      BY DEF InfoFound
    <3>1. k \in 1 .. Len(list) /\ IsInfo(list[k].type)
      BY <1>c
    <3>2. CASE laps = 0
      <4>1. k < i + 1 /\ k \in Nat
        BY <1>2, <1>c, <2>1, <3>1
      <4>2. k \in 1 .. i
        BY <1>0, <3>1, <4>1
      <4> QED BY <1>d, <3>1, <3>2, <4>2
    <3>3. CASE laps = 1
      BY <1>0, <1>a, <1>d, <3>1, <3>3
    <3> QED BY <1>0, <3>2, <3>3
  <2> QED BY <1>0, <1>2, <1>b, <2>2, <2>3, Returned
<1>3. CASE ~AtEnd(list) /\ IsInfo(list[i + 1].type) /\ Return("SUCCESS")
  <2>1. i + 1 \in 1 .. Len(list) /\ i + 1 <= U8
    BY <1>0, <1>a, <1>3, <1>d DEF AtEnd
  <2>2. laps = 0
    BY <1>0, <1>3, <1>d, <2>1
  <2>3. \A j \in Typeless(list) : i + 1 < j
    <3> SUFFICES ASSUME NEW j \in Typeless(list), ~(i + 1 < j) PROVE FALSE
      OBVIOUS
    <3>1. j \in 1 .. Len(list) /\ list[j].type = NoType
      BY <1>c
    <3>2. j \in 1 .. i \/ j = i + 1
      BY <1>0, <3>1
    <3> QED BY <1>3, <1>a, <1>d, <2>2, <3>1, <3>2
  <2>4. InfoFound(Id, list)
    BY <1>3, <1>c, <2>1, <2>3 DEF InfoFound
  <2>5. MayBeAccepted
    BY <1>0, <2>4, UdtDefVerdict DEF UdtDefAccepts, ArgsFit, Id, list
  <2> QED BY <1>0, <1>3, <2>5, Returned
<1>4. CASE /\ ~AtEnd(list) /\ list[i + 1].type # NoType /\ ~IsInfo(list[i + 1].type)
           /\ Increment8 /\ Continue /\ UNCHANGED values
  <2>1. /\ pc' = "search" /\ side' = side
        /\ view' = view /\ UNCHANGED ret /\ total' = total
    BY <1>0, <1>4 DEF Continue, values
  <2>2. i + 1 <= Len(list)
    BY <1>0, <1>a, <1>4 DEF AtEnd
  <2>3. \/ i + 1 = U8 /\ i' = 0 /\ laps' = 1
        \/ i + 1 < U8 /\ i' = i + 1 /\ laps' = laps
    BY <1>4, <1>d, Advances
  <2>4. \A k \in 1 .. i + 1 : k \in 1 .. i \/ k = i + 1
    BY <1>0
  <2>5. i' < U8
    BY <1>0, <2>3
  <2>6. laps' = 0 => /\ i' <= Len(list)
                     /\ \A k \in 1 .. i' : list[k].type # NoType /\ ~IsInfo(list[k].type)
    BY <1>4, <1>d, <2>2, <2>3, <2>4
  <2>7. laps' = 1 => ~EndsAfter(Len(list)) /\ \A k \in 1 .. U8 : ~IsInfo(list[k].type)
    <3>1. CASE laps = 1
      BY <1>d, <3>1
    <3>2. CASE laps = 0 /\ laps' = 1
      <4>1. i + 1 = U8
        BY <2>3, <3>2
      <4> QED BY <1>0, <1>a, <1>4, <1>d, <2>2, <2>4, <3>2, <4>1 DEF EndsAfter
    <3> QED BY <1>0, <3>1, <3>2
  <2>8. view'.created = list /\ Id' = Id
    BY <2>1, ViewKept DEF list
  <2>9. SearchKnown'
    BY <2>1, <2>5, <2>6, <2>7, <2>8 DEF SearchKnown, IsInfo
  <2>10. verify_udt_data(view'.script, view'.consumed, view'.created)
    BY <1>0, <2>1, ViewKept
  <2>11. UdtDefKnown'
    BY <2>1, <2>9, <2>10 DEF UdtDefKnown, VerifyKnown, SumKnown
  <2> QED BY <1>0, <2>1, <2>11, UdtDefGoesOn
<1> QED BY <1>1, <1>2, <1>3, <1>4 DEF Search, list

\* The sum of one more cell of a group.
LEMMA TotalNext ==
  ASSUME NEW g \in Seq(Cell), NEW n \in Nat, n + 1 <= Len(g)
  PROVE  /\ Total(g, 1 .. n) \in Nat /\ g[n + 1].amt \in Amounts
         /\ Total(g, 1 .. n + 1) = Total(g, 1 .. n) + g[n + 1].amt
<1> DEFINE S == 1 .. n + 1
           f == [k \in S |-> g[k].amt]
<1>1. \A k \in S : g[k] \in Cell /\ g[k].amt \in Amounts /\ g[k].amt \in Nat
  <2>1. \A k \in S : g[k] \in Cell
    OBVIOUS
  <2>2. Amounts \subseteq Nat
    BY WidthAssumption DEF Amounts
  <2> QED BY <2>1, <2>2 DEF Cell
<1>2. IsFiniteSet(S) /\ IsFiniteSet(1 .. n)
  <2>1. 1 \in Int /\ n \in Int /\ n + 1 \in Int
    OBVIOUS
  <2> QED BY <2>1, FS_Interval
<1>3. f \in [S -> Nat] /\ n + 1 \in S /\ S \ {n + 1} = 1 .. n
  BY <1>1
<1>4. Sum(f) = f[n + 1] + Sum(On(f, 1 .. n))
  <2> HIDE DEF f, S
  <2>1. Sum(f) = f[n + 1] + Sum(On(f, S \ {n + 1}))
    BY <1>2, <1>3, SumRemove
  <2> QED BY <1>3, <2>1
<1>5. On(f, 1 .. n) = [k \in 1 .. n |-> g[k].amt] /\ On(f, 1 .. n) \in [1 .. n -> Nat]
  BY <1>1 DEF On
<1>6. Sum(On(f, 1 .. n)) \in Nat
  <2> HIDE DEF f
  <2> QED BY <1>2, <1>5, SumType
<1>7. Sum(f) = Total(g, 1 .. n + 1) /\ Sum(On(f, 1 .. n)) = Total(g, 1 .. n)
      /\ f[n + 1] = g[n + 1].amt
  BY <1>3, <1>5 DEF Total
<1>8. g[n + 1].amt \in Nat /\ g[n + 1].amt \in Amounts
  BY <1>1, <1>3
<1> HIDE DEF f
<1> QED BY <1>4, <1>6, <1>7, <1>8

\* The loops over the groups add up all of their cells, in an uint64_t.
LEMMA SumDecides == ASSUME TypeOK, DInv, SumGroup PROVE DInv'
<1>0. /\ pc = "sum" /\ IsUdtDef /\ SumKnown /\ i \in Nat /\ side \in Sides
      /\ U8 \in Nat \ {0} /\ U64 \in Nat \ {0} /\ ArgsFit /\ view.first # Id
      /\ InfoMissed(Id, view.created) /\ verify_udt_data(view.script, view.consumed, view.created)
      /\ total \in [Sides -> Amounts]
  BY WidthAssumption DEF TypeOK, DInv, UdtDefKnown, InfoKnown, NoCreation, SumGroup, Sides
<1>a. Len(Group(side)) \in Nat /\ EndsAfter(Len(Group(side))) /\ Group(side) \in Seq(Cell)
  BY <1>0, GroupOf, VerifiedGroups, ViewCells DEF TypeOK
<1>b. /\ laps = 0 /\ i <= Len(Group(side)) /\ SumOver(side, 1 .. i)
      /\ (side = "in" => total["out"] = 0) /\ (side = "out" => SumOver("in", Whole("in")))
  BY <1>0 DEF SumKnown
<1>1. CASE AtEnd(Group(side)) /\ EndLoop("decide") /\ UNCHANGED values
  <2>1. SumOver(side, Whole(side))
    <3>1. i = Len(Group(side))
      BY <1>0, <1>a, <1>b, <1>1 DEF AtEnd
    <3> QED BY <1>b, <3>1 DEF Whole
  <2>2. view' = view /\ UNCHANGED ret /\ total' = total /\ i' = 0 /\ laps' = 0
    BY <1>1 DEF EndLoop, Enter, values
  <2>3. \A s : Group(s)' = Group(s) /\ Whole(s)' = Whole(s)
    BY <2>2, ViewKept
  <2>4. verify_udt_data(view'.script, view'.consumed, view'.created) /\ InfoMissed(Id', view'.created)
    BY <1>0, <2>2, ViewKept
  <2>5. CASE side = "in"
    <3>1. pc' = "sum" /\ side' = "out"
      BY <1>0, <1>1, <2>5 DEF EndLoop, Enter
    <3>2. SumOver("in", Whole("in"))'
      BY <2>1, <2>2, <2>3, <2>5 DEF SumOver
    <3>3. Total(Group("out")', 1 .. 0) = 0
      BY NothingSums
    <3>4. SumOver("out", 1 .. 0)'
      BY <1>0, <1>b, <2>2, <2>5, <3>3 DEF SumOver
    <3>5. 0 <= Len(Group("out")')
      BY <2>3, GroupOf
    <3>6. SumKnown'
      BY <2>2, <3>1, <3>2, <3>4, <3>5 DEF SumKnown
    <3>7. UdtDefKnown'
      BY <2>4, <3>1, <3>6 DEF UdtDefKnown, VerifyKnown, SearchKnown
    <3> QED BY <1>0, <2>2, <3>1, <3>7, UdtDefGoesOn
  <2>6. CASE side = "out"
    <3>1. pc' = "decide"
      BY <1>0, <1>1, <2>6 DEF EndLoop, Enter
    <3>2. ASSUME NEW s \in Sides PROVE SumOver(s, Whole(s))'
      BY <1>b, <2>1, <2>2, <2>3, <2>6 DEF SumOver, Sides
    <3>3. UdtDefKnown'
      BY <2>4, <3>1, <3>2 DEF UdtDefKnown, VerifyKnown, SearchKnown, SumKnown
    <3> QED BY <1>0, <2>2, <3>1, <3>3, UdtDefGoesOn
  <2> QED BY <1>0, <2>5, <2>6 DEF Sides
<1>2. CASE /\ ~AtEnd(Group(side)) /\ Add(Group(side)[i + 1].amt) /\ Increment8 /\ Continue
  <2>1. pc' = "sum" /\ side' = side /\ view' = view /\ UNCHANGED ret
    BY <1>0, <1>2 DEF Continue
  <2>2. i + 1 <= Len(Group(side)) /\ i < U8 /\ i + 1 # U8
    BY <1>0, <1>a, <1>2 DEF AtEnd, EndsAfter
  <2>3. i' = i + 1 /\ laps' = 0
    BY <1>2, <1>b, <2>2, Advances
  <2>4. /\ total'[side] = (total[side] + Group(side)[i + 1].amt) % U64
        /\ \A s \in Sides : s # side => total'[s] = total[s]
    BY <1>0, <1>2 DEF Add, Added
  <2>5. /\ Total(Group(side), 1 .. i) \in Nat /\ Group(side)[i + 1].amt \in Amounts
        /\ Total(Group(side), 1 .. i + 1) = Total(Group(side), 1 .. i) + Group(side)[i + 1].amt
    BY <1>0, <1>a, <2>2, TotalNext
  <2>6. total'[side] = Total(Group(side), 1 .. i + 1) % U64
    <3>1. Group(side)[i + 1].amt \in Nat
      BY <1>0, <2>5 DEF Amounts
    <3>2. total[side] = Total(Group(side), 1 .. i) % U64
      BY <1>b DEF SumOver
    <3>3. ((Total(Group(side), 1 .. i) % U64) + Group(side)[i + 1].amt) % U64
            = (Total(Group(side), 1 .. i) + Group(side)[i + 1].amt) % U64
      BY <1>0, <2>5, <3>1, WrapAdd
    <3> QED BY <2>4, <2>5, <3>2, <3>3
  <2>7. \A s : Group(s)' = Group(s) /\ Whole(s)' = Whole(s)
    BY <2>1, ViewKept
  <2>8. SumOver(side, 1 .. i)'
    BY <2>1, <2>3, <2>6, <2>7 DEF SumOver
  <2>9. side = "out" => SumOver("in", Whole("in"))'
    BY <1>b, <2>4, <2>7 DEF SumOver, Sides
  <2>10. side = "in" => total'["out"] = 0
    BY <1>b, <2>4 DEF Sides
  <2>11. SumKnown'
    BY <2>1, <2>2, <2>3, <2>7, <2>8, <2>9, <2>10 DEF SumKnown
  <2>12. verify_udt_data(view'.script, view'.consumed, view'.created) /\ InfoMissed(Id', view'.created)
    BY <1>0, <2>1, ViewKept
  <2>13. UdtDefKnown'
    BY <2>1, <2>11, <2>12 DEF UdtDefKnown, VerifyKnown, SearchKnown
  <2> QED BY <1>0, <2>1, <2>13, UdtDefGoesOn
<1> QED BY <1>1, <1>2 DEF SumGroup

\* A run that goes in circles was on a list it could not have accepted.
LEMMA CirclesDecide == ASSUME TypeOK, IInv, DInv, OutOfCycles PROVE DInv'
<1>1. laps = 1 /\ pc \in Loops8 /\ IsUdtDef /\ Return("out_of_cycles") /\ side \in Sides
  BY DEF OutOfCycles, IInv, Laps, TypeOK, Sides
<1>2. ~MustBeAccepted
  <2>1. CASE pc = "verify_udt_data"
    <3>1. ~verify_udt_data(view.script, view.consumed, view.created)
      BY <1>1, <2>1, VerifiedGroups DEF DInv, UdtDefKnown, VerifyKnown
    <3> QED BY <1>1, <3>1, UdtDefVerdict DEF UdtDefAccepts
  <2>2. CASE pc = "search"
    <3>1. ~EndsAfter(Len(view.created)) /\ \A k \in 1 .. U8 : ~IsInfo(view.created[k].type)
      BY <1>1, <2>2 DEF DInv, UdtDefKnown, SearchKnown
    <3>2. ~InfoMissed(Id, view.created) /\ view.first # Id
      BY <2>2, <3>1 DEF InfoMissed, DInv, NoCreation
    <3>3. ~InfoFound(Id, view.created)
      <4>1. DOMAIN view.created \subseteq Nat \ {0} /\ U8 \in Nat
        BY ViewCells, WidthAssumption DEF TypeOK
      <4> QED BY <3>1, <4>1 DEF InfoFound, Infos, IsInfo, Id
    <3> QED BY <1>1, <3>2, <3>3, UdtDefVerdict DEF UdtDefAccepts, Id
  <2>3. CASE pc = "sum"
    BY <1>1, <2>3 DEF DInv, UdtDefKnown, SumKnown
  <2> QED BY <1>1, <2>1, <2>2, <2>3 DEF Loops8
<1> QED BY <1>1, <1>2, Returned DEF Loops8

-----------------------------------------------------------------------------
\* The info cell's script counts the cells of its groups to two at most.  A failing
\* load counts for one, and does not matter: a promise is only made where none may fail.
LEMMA CountedDecides ==
  ASSUME TypeOK, DInv, pc = "verify_type_id_update", Counted, MayFail(view) \/ ~AtEnd(Group(side))
  PROVE  DInv'
<1>0. /\ ~IsUdtDef /\ side \in Sides /\ CountKnown /\ ArgsFit /\ view.first # Id
      /\ laps = 0 /\ total = Both(0) /\ i \in Nat /\ Len(Group(side)) \in Nat /\ count \in [Sides -> 0 .. 1]
  BY GroupOf DEF TypeOK, DInv, UdtDefKnown, InfoKnown, NoCreation, Fresh, Sides
<1>a. /\ i <= 1 /\ count[side] = i /\ (MayFail(view) \/ i <= Len(Group(side)))
      /\ (side = "in" => count["out"] = 0)
      /\ (side = "out" => /\ Len(Group("in")) <= count["in"]
                          /\ MayFail(view) \/ Len(Group("in")) = count["in"])
  BY <1>0 DEF CountKnown
<1>1. CASE count[side] + 1 > 1 /\ Return("ERROR_TYPE_ID_VIOLATION")
  <2>1. MayFail(view) \/ Len(Group(side)) # 1
    BY <1>0, <1>1, <1>a DEF AtEnd
  <2>2. Len(Group(side)) # 1 => ~MustBeAccepted
    <3> SUFFICES ASSUME Len(Group(side)) # 1 PROVE ~MustBeAccepted
      OBVIOUS
    <3>1. ~verify_type_id_update(view.script, view.consumed, view.created)
      BY <1>0, GroupOf DEF verify_type_id_update, Sides
    <3> QED BY <1>0, <3>1, InfoVerdict DEF InfoMustAccept, InfoMayAccept, Id
  <2> QED BY <1>1, <2>1, <2>2, Returned
<1>2. CASE /\ count[side] + 1 <= 1 /\ count' = [count EXCEPT ![side] = @ + 1]
           /\ Increment /\ Continue /\ UNCHANGED <<supply, total, udt_script>>
  <2>1. /\ pc' = "verify_type_id_update" /\ side' = side /\ view' = view /\ UNCHANGED ret
        /\ total' = total /\ i' = i + 1 /\ laps' = laps
    BY <1>2 DEF Continue, Increment
  <2>2. /\ count'[side] = i + 1 /\ i + 1 <= 1
        /\ \A s \in Sides : s # side => count'[s] = count[s]
    BY <1>0, <1>2, <1>a
  <2>3. \A s : Group(s)' = Group(s)
    BY <2>1, ViewKept
  <2>4. MayFail(view) \/ i + 1 <= Len(Group(side))
    BY <1>0 DEF AtEnd
  <2>5. CountKnown'
    <3>1. MayFail(view') = MayFail(view)
      BY <2>1
    <3>2. /\ (side = "in" => count'["out"] = 0)
          /\ (side = "out" => count'["in"] = count["in"])
      BY <1>a, <2>2 DEF Sides
    <3> QED BY <1>a, <2>1, <2>2, <2>3, <2>4, <3>1, <3>2 DEF CountKnown
  <2>6. InfoKnown'
    BY <1>0, <2>1, <2>5 DEF InfoKnown, AmountKnown
  <2> QED BY <1>0, <2>1, <2>6, InfoGoesOn
<1> QED BY <1>1, <1>2 DEF Counted

\* The type id check passes groups of one cell each.
LEMMA UpdateDecides == ASSUME TypeOK, DInv, VerifyTypeIdUpdate PROVE DInv'
<1>0. /\ pc = "verify_type_id_update" /\ ~IsUdtDef /\ side \in Sides /\ CountKnown
      /\ ArgsFit /\ view.first # Id /\ laps = 0 /\ total = Both(0)
      /\ i \in Nat /\ (\A s : Len(Group(s)) \in Nat) /\ count \in [Sides -> 0 .. 1]
  BY GroupOf DEF TypeOK, DInv, UdtDefKnown, InfoKnown, NoCreation, Fresh, Sides, VerifyTypeIdUpdate
<1>a. /\ i <= 1 /\ count[side] = i /\ (MayFail(view) \/ i <= Len(Group(side)))
      /\ (side = "in" => count["out"] = 0)
      /\ (side = "out" => /\ Len(Group("in")) <= count["in"]
                          /\ MayFail(view) \/ Len(Group("in")) = count["in"])
  BY <1>0 DEF CountKnown
<1>b. AtEnd(Group(side)) => /\ Len(Group(side)) <= count[side]
                            /\ MayFail(view) \/ Len(Group(side)) = count[side]
  BY <1>0, <1>a DEF AtEnd
<1>1. CASE ~AtEnd(Group(side)) /\ Counted
  BY <1>0, <1>1, CountedDecides
<1>2. CASE AtEnd(Group(side)) /\ side = "in" /\ EndLoop(pc) /\ UNCHANGED values
  <2>1. /\ pc' = "verify_type_id_update" /\ side' = "out" /\ i' = 0 /\ laps' = 0 /\ view' = view
        /\ UNCHANGED ret /\ total' = total /\ count' = count
    BY <1>0, <1>2 DEF EndLoop, Enter, values
  <2>2. (\A s : Group(s)' = Group(s)) /\ MayFail(view') = MayFail(view)
    BY <2>1, ViewKept
  <2>3. CountKnown'
    BY <1>0, <1>2, <1>a, <1>b, <2>1, <2>2 DEF CountKnown
  <2>4. InfoKnown'
    BY <2>1, <2>3 DEF InfoKnown, AmountKnown
  <2> QED BY <1>0, <2>1, <2>4, InfoGoesOn
<1>3. CASE AtEnd(Group(side)) /\ side = "out" /\ count = Both(1) /\ EndLoop("supply") /\ UNCHANGED values
  <2>1. /\ pc' = "supply" /\ i' = 0 /\ laps' = 0 /\ view' = view /\ UNCHANGED ret /\ total' = total
    BY <1>0, <1>3 DEF EndLoop, Enter, values
  <2>2. (\A s : Group(s)' = Group(s)) /\ MayFail(view') = MayFail(view)
    BY <2>1, ViewKept
  <2>3. count["in"] = 1 /\ count["out"] = 1
    BY <1>3 DEF Both
  <2>4. \A s \in Sides : Single(s)'
    BY <1>3, <1>a, <1>b, <2>2, <2>3 DEF Single, Sides
  <2>5. InfoKnown'
    BY <2>1, <2>4 DEF InfoKnown, CountKnown, AmountKnown
  <2> QED BY <1>0, <2>1, <2>5, InfoGoesOn
<1>4. CASE /\ AtEnd(Group(side)) /\ side = "out" /\ count # Both(1)
           /\ Return("ERROR_TYPE_ID_VIOLATION")
  <2>1. count["in"] # 1 \/ count["out"] # 1
    <3> SUFFICES ASSUME count["in"] = 1, count["out"] = 1 PROVE FALSE
      OBVIOUS
    <3>1. count = Both(1)
      BY <1>0 DEF Both, Sides
    <3> QED BY <1>4, <3>1
  <2>2. MayFail(view) \/ Len(Group("in")) # 1 \/ Len(Group("out")) # 1
    BY <1>4, <1>a, <1>b, <2>1
  <2>3. Len(Group("in")) # 1 \/ Len(Group("out")) # 1 => ~MustBeAccepted
    <3> SUFFICES ASSUME Len(Group("in")) # 1 \/ Len(Group("out")) # 1 PROVE ~MustBeAccepted
      OBVIOUS
    <3>1. ~verify_type_id_update(view.script, view.consumed, view.created)
      BY GroupOf DEF verify_type_id_update
    <3> QED BY <1>0, <3>1, InfoVerdict DEF InfoMustAccept, InfoMayAccept, Id
  <2> QED BY <1>0, <1>4, <2>2, <2>3, Returned
<1> QED BY <1>1, <1>2, <1>3, <1>4 DEF VerifyTypeIdUpdate

\* The sums that end with no cell, and with all of them.
LEMMA NoAmounts ==
  ASSUME NEW s, view' = view, total'[s] = 0 PROVE SumUpto(s, 0)'
<1>1. 1 .. 0 = {}
  OBVIOUS
<1> DEFINE f == [o \in {} |-> 0]
<1>2. f \in [{} -> Amounts] /\ f \in [{} -> Nat] /\ \A o \in {} : f[o] \in Loaded(Cells(s)[o])'
  OBVIOUS
<1>3. total'[s] = Sum(f) % U64
  <2>1. Sum(f) = 0
    BY <1>2, SumEmpty
  <2> QED BY <2>1, WidthAssumption
<1> HIDE DEF f
<1> QED BY <1>1, <1>2, <1>3 DEF SumUpto, SomeSum

LEMMA AllAmounts ==
  ASSUME TypeOK, NEW s, SumUpto(s, Len(Cells(s))) PROVE total[s] \in InstanceAmounts(Id, Cells(s))
<1> DEFINE N == 1 .. Len(Cells(s))
           I == Instances(Cells(s), Id)
           E == Typeless(Cells(s))
<1>1. I \subseteq N /\ E \subseteq N
  BY ViewCells DEF TypeOK, Instances, Typeless, OfType
<1>2. PICK S \in SUBSET ((I \union E) \intersect N) :
        /\ I \intersect N \subseteq S
        /\ \E f \in [S -> Amounts] : /\ \A o \in S : f[o] \in Loaded(Cells(s)[o])
                                     /\ total[s] = Sum(f) % U64
  BY DEF SumUpto, SomeSum
<1>3. S = I \union (S \intersect E) /\ S \intersect E \in SUBSET E
  BY <1>1, <1>2
<1>4. S \in {I \union T : T \in SUBSET E}
  BY <1>3
<1>5. PICK f \in [S -> Amounts] : (\A o \in S : f[o] \in Loaded(Cells(s)[o])) /\ total[s] = Sum(f) % U64
  BY <1>2
<1>6. f \in {g \in [S -> Amounts] : \A o \in S : g[o] \in Loaded(Cells(s)[o])}
  BY <1>5
<1>7. total[s] \in {Sum(amt) % U64 :
                     amt \in {g \in [S -> Amounts] : \A o \in S : g[o] \in Loaded(Cells(s)[o])}}
  BY <1>5, <1>6
<1> QED BY <1>4, <1>7 DEF InstanceAmounts

\* The supplies are those of the one cell of each group.
LEMMA SuppliesDecide == ASSUME TypeOK, DInv, LoadSupplies PROVE DInv'
<1>0. /\ pc = "supply" /\ ~IsUdtDef /\ ArgsFit /\ view.first # Id /\ laps = 0 /\ total = Both(0)
      /\ \A s \in Sides : Single(s) /\ Len(Group(s)) \in Nat /\ Group(s) \in Seq(Cell)
  BY GroupOf, ViewCells DEF TypeOK, DInv, UdtDefKnown, InfoKnown, NoCreation, Fresh, LoadSupplies
<1>a. \A s \in Sides : Group(s) # <<>> => Len(Group(s)) = 1
  <2> SUFFICES ASSUME NEW s \in Sides, Group(s) # <<>> PROVE Len(Group(s)) = 1
    OBVIOUS
  <2>1. Group(s) \in Seq(Cell) /\ Len(Group(s)) <= 1 /\ Len(Group(s)) \in Nat
    BY <1>0 DEF Single
  <2>2. Len(Group(s)) # 0
    BY <2>1
  <2>3. \A n \in Nat : n <= 1 /\ n # 0 => n = 1
    OBVIOUS
  <2> QED BY <2>1, <2>2, <2>3
<1>1. ASSUME NEW x \in IF Group("in") = <<>> THEN {} ELSE Loaded(Group("in")[1]),
             NEW y \in IF Group("out") = <<>> THEN {} ELSE Loaded(Group("out")[1]),
             supply' = [in |-> x, out |-> y],
             Enter("get_udt_instance_amount", "in"), UNCHANGED <<count, total>>
      PROVE  DInv'
  <2>1. /\ pc' = "get_udt_instance_amount" /\ side' = "in" /\ i' = 0 /\ laps' = 0 /\ view' = view
        /\ UNCHANGED ret /\ total' = total
    BY <1>1 DEF Enter
  <2>2. \A s : Group(s)' = Group(s) /\ Cells(s)' = Cells(s)
    BY <2>1, ViewKept
  <2>3. \A s \in Sides : SupplyKnown(s)'
    <3>1. Group("in") # <<>> /\ Group("out") # <<>>
      BY <1>1
    <3>2. supply'["in"] \in Loaded(Group("in")[1]) /\ supply'["out"] \in Loaded(Group("out")[1])
      BY <1>1, <3>1
    <3> QED BY <1>a, <2>2, <3>1, <3>2 DEF SupplyKnown, Sides
  <2>4. total'["in"] = 0 /\ total'["out"] = 0
    BY <1>0, <2>1 DEF Both
  <2>5. SumUpto("in", 0)'
    BY <2>1, <2>4, NoAmounts
  <2>6. 0 <= Len(Cells("in")')
    BY <2>2, ViewCells DEF TypeOK
  <2>7. SumUpto(side, i)'
    BY <2>1, <2>5 DEF SumUpto, Cells, Id
  <2>8. AmountKnown'
    BY <2>1, <2>4, <2>6, <2>7 DEF AmountKnown
  <2>9. InfoKnown'
    BY <2>1, <2>3, <2>8 DEF InfoKnown, CountKnown
  <2> QED BY <1>0, <2>1, <2>9, InfoGoesOn
<1>2. ASSUME NEW s \in Sides, (IF Group(s) = <<>> THEN {} ELSE Loaded(Group(s)[1])) = {},
             Return("load_code")
      PROVE  DInv'
  <2>1. MayFail(view) \/ ~MustBeAccepted
    <3> SUFFICES ASSUME ~MayFail(view), MustBeAccepted PROVE FALSE
      OBVIOUS
    <3>1. Len(Group(s)) = 1 /\ Group(s) # <<>>
      BY <1>0 DEF Single
    <3>2. Loaded(Group(s)[1]) = {}
      BY <1>2, <3>1
    <3>3. PICK o \in OfType(view.consumed, view.script), k \in OfType(view.created, view.script) :
            Loaded(view.consumed[o]) # {} /\ Loaded(view.created[k]) # {}
      BY <1>0, InfoVerdict DEF InfoMustAccept, InfoMayAccept, Id
    <3>4. \E p \in OfType(Cells(s), view.script) : Loaded(Cells(s)[p]) # {}
      BY <3>3, GroupOf DEF Sides
    <3>5. PICK p \in OfType(Cells(s), view.script) : Loaded(Cells(s)[p]) # {}
      BY <3>4
    <3>6. PICK m \in 1 .. Len(Group(s)) : Group(s)[m] = Cells(s)[p]
      BY GroupOf
    <3>7. m = 1
      BY <3>1, <3>6
    <3> QED BY <3>2, <3>5, <3>6, <3>7
  <2> QED BY <1>0, <1>2, <2>1, Returned
<1> QED BY <1>1, <1>2 DEF LoadSupplies, Sides

\* A cell that is no instance leaves the sum as it is.
LEMMA AmountSkipped ==
  ASSUME NEW s, NEW n \in Nat, SumUpto(s, n), view' = view, total'[s] = total[s],
         ~HasArgs(Cells(s)[n + 1].type, "instance", Id)
  PROVE  SumUpto(s, n + 1)'
<1> DEFINE I == Instances(Cells(s), Id)
           E == Typeless(Cells(s))
<1>1. Cells(s)' = Cells(s) /\ Id' = Id
  BY ViewKept
<1>2. n + 1 \notin I
  BY DEF Instances
<1>3. PICK S \in SUBSET ((I \union E) \intersect 1 .. n) :
        /\ I \intersect 1 .. n \subseteq S
        /\ \E f \in [S -> Amounts] : /\ \A o \in S : f[o] \in Loaded(Cells(s)[o])
                                     /\ total[s] = Sum(f) % U64
  BY DEF SumUpto, SomeSum
<1>4. \A k : k \in 1 .. n + 1 <=> k \in 1 .. n \/ k = n + 1
  OBVIOUS
<1> HIDE DEF I, E
<1>5. S \in SUBSET ((I \union E) \intersect 1 .. n + 1) /\ I \intersect 1 .. n + 1 \subseteq S
  BY <1>2, <1>3, <1>4
<1> QED BY <1>1, <1>3, <1>5 DEF SumUpto, SomeSum, I, E

\* A cell that is taken for an instance adds what is loaded of it.
LEMMA AmountAdded ==
  ASSUME TypeOK, NEW s, NEW n \in Nat, n + 1 <= Len(Cells(s)), SumUpto(s, n), view' = view,
         HasArgs(Cells(s)[n + 1].type, "instance", Id) \/ Cells(s)[n + 1].type = NoType,
         NEW amt \in Loaded(Cells(s)[n + 1]), total'[s] = (total[s] + amt) % U64
  PROVE  SumUpto(s, n + 1)'
<1> DEFINE I == Instances(Cells(s), Id)
           E == Typeless(Cells(s))
           k == n + 1
<1>1. Cells(s)' = Cells(s) /\ Id' = Id
  BY ViewKept
<1>2. Cells(s) \in Seq(Cell)
  BY ViewCells DEF TypeOK
<1>3. k \in I \union E
  BY <1>2 DEF Instances, Typeless, OfType
<1>4. PICK S \in SUBSET ((I \union E) \intersect 1 .. n) :
        /\ I \intersect 1 .. n \subseteq S
        /\ \E f \in [S -> Amounts] : /\ \A o \in S : f[o] \in Loaded(Cells(s)[o])
                                     /\ total[s] = Sum(f) % U64
  BY DEF SumUpto, SomeSum
<1>5. PICK f \in [S -> Amounts] : (\A o \in S : f[o] \in Loaded(Cells(s)[o])) /\ total[s] = Sum(f) % U64
  BY <1>4
<1>6. (\A j : j \in 1 .. k <=> j \in 1 .. n \/ j = k) /\ k \notin 1 .. n
  OBVIOUS
<1>7. amt \in Amounts /\ amt \in Nat /\ U64 \in Nat \ {0} /\ Amounts \subseteq Nat
  <2>1. Cells(s)[k] \in Cell
    BY <1>2
  <2> QED BY <2>1, LoadedAmounts, WidthAssumption DEF Amounts
<1> HIDE DEF I, E, k
<1> DEFINE R == S \union {k}
           g == [o \in R |-> IF o = k THEN amt ELSE f[o]]
<1>8. R \in SUBSET ((I \union E) \intersect 1 .. k) /\ I \intersect 1 .. k \subseteq R /\ k \notin S
  BY <1>3, <1>4, <1>6
<1>9. g \in [R -> Amounts] /\ g \in [R -> Nat] /\ g[k] = amt /\ \A o \in R : g[o] \in Loaded(Cells(s)[o])
  BY <1>5, <1>7, <1>8 DEF k
<1>10. IsFiniteSet(S) /\ IsFiniteSet(R)
  <2>1. 1 \in Int /\ n \in Int
    OBVIOUS
  <2>2. IsFiniteSet(1 .. n)
    BY <2>1, FS_Interval
  <2>3. IsFiniteSet(S)
    BY <1>4, <2>2, FS_Subset
  <2> QED BY <2>3, FS_AddElement
<1>11. R \ {k} = S /\ On(g, S) = f
  <2>1. \A o \in S : o \in R /\ g[o] = f[o]
    BY <1>8
  <2>2. f = [o \in S |-> f[o]]
    BY <1>5
  <2>3. [o \in S |-> g[o]] = [o \in S |-> f[o]]
    BY <2>1
  <2> HIDE DEF g
  <2> QED BY <1>8, <2>2, <2>3 DEF On
<1> HIDE DEF g, R
<1>12. Sum(g) = amt + Sum(f) /\ Sum(f) \in Nat
  <2>1. k \in R /\ f \in [S -> Nat]
    BY <1>7, <1>5 DEF R
  <2>2. Sum(g) = g[k] + Sum(On(g, R \ {k}))
    BY <1>9, <1>10, <2>1, SumRemove
  <2> QED BY <1>9, <1>10, <1>11, <2>1, <2>2, SumType
<1>13. total'[s] = Sum(g) % U64
  <2>1. ((Sum(f) % U64) + amt) % U64 = (Sum(f) + amt) % U64
    BY <1>7, <1>12, WrapAdd
  <2>2. amt + Sum(f) = Sum(f) + amt
    BY <1>7, <1>12
  <2> QED BY <1>5, <1>12, <2>1, <2>2
<1>14. k = n + 1
  BY DEF k
<1> QED BY <1>1, <1>8, <1>9, <1>13, <1>14 DEF SumUpto, SomeSum, I, E

\* The loops over the cells of the transaction add up what may pass for instances.
LEMMA AmountsDecide == ASSUME TypeOK, DInv, GetUdtInstanceAmount PROVE DInv'
<1>0. /\ pc = "get_udt_instance_amount" /\ ~IsUdtDef /\ side \in Sides /\ ArgsFit /\ view.first # Id
      /\ laps = 0 /\ i \in Nat /\ (\A s : Len(Cells(s)) \in Nat) /\ total \in [Sides -> Amounts]
  BY ViewCells DEF TypeOK, DInv, UdtDefKnown, InfoKnown, NoCreation, Sides, GetUdtInstanceAmount
<1>a. /\ i <= Len(Cells(side)) /\ SumUpto(side, i) /\ (side = "in" => total["out"] = 0)
      /\ side = "out" => total["in"] \in InstanceAmounts(Id, view.consumed)
  BY <1>0 DEF DInv, InfoKnown, AmountKnown
<1>b. (\A s \in Sides : SupplyKnown(s)) /\ Cells("in") = view.consumed /\ Cells("out") = view.created
  BY <1>0, GroupOf DEF DInv, InfoKnown
<1>c. ~IsInstance(NoType) /\ \A type : IsInstance(type) <=> HasArgs(type, "instance", Id)
  BY DEF IsInstance, HasArgs, Id
<1>1. CASE AtEnd(Cells(side)) /\ EndLoop("decide") /\ UNCHANGED values
  <2>1. i = Len(Cells(side))
    BY <1>0, <1>1, <1>a DEF AtEnd
  <2>2. total[side] \in InstanceAmounts(Id, Cells(side))
    BY <1>a, <2>1, AllAmounts
  <2>3. /\ i' = 0 /\ laps' = 0 /\ view' = view /\ UNCHANGED ret /\ total' = total /\ supply' = supply
    BY <1>1 DEF EndLoop, Enter, values
  <2>4. Id' = Id /\ \A s : Cells(s)' = Cells(s) /\ Group(s)' = Group(s)
    BY <2>3, ViewKept
  <2>5. \A s \in Sides : SupplyKnown(s)'
    BY <1>b, <2>3, <2>4 DEF SupplyKnown
  <2>6. CASE side = "in"
    <3>1. pc' = "get_udt_instance_amount" /\ side' = "out"
      BY <1>0, <1>1, <2>6 DEF EndLoop, Enter
    <3>2. SumUpto("out", 0)'
      BY <1>a, <2>3, <2>6, NoAmounts
    <3>3. SumUpto(side, i)'
      BY <2>3, <3>1, <3>2 DEF SumUpto, Cells, Id
    <3>4. 0 <= Len(Cells("out")')
      BY <1>0, <2>4
    <3>5. total'["in"] \in InstanceAmounts(Id', view'.consumed)
      BY <1>b, <2>2, <2>3, <2>4, <2>6
    <3>6. AmountKnown'
      BY <2>3, <3>1, <3>3, <3>4, <3>5 DEF AmountKnown
    <3>7. InfoKnown'
      BY <2>3, <2>5, <3>1, <3>6 DEF InfoKnown, CountKnown
    <3> QED BY <1>0, <2>3, <3>1, <3>7, InfoGoesOn
  <2>7. CASE side = "out"
    <3>1. pc' = "decide"
      BY <1>0, <1>1, <2>7 DEF EndLoop, Enter
    <3>2. \A s \in Sides : total'[s] \in InstanceAmounts(Id', Cells(s)')
      BY <1>a, <1>b, <2>2, <2>3, <2>4, <2>7 DEF Sides
    <3>3. InfoKnown'
      BY <2>3, <2>5, <3>1, <3>2 DEF InfoKnown, CountKnown, AmountKnown
    <3> QED BY <1>0, <2>3, <3>1, <3>3, InfoGoesOn
  <2> QED BY <1>0, <2>6, <2>7 DEF Sides
<1>2. ASSUME ~AtEnd(Cells(side)), Increment, Continue, UNCHANGED supply,
             \A s \in Sides : s # side => total'[s] = total[s], SumUpto(side, i)'
      PROVE  DInv'
  <2>1. /\ pc' = "get_udt_instance_amount" /\ side' = side /\ i' = i + 1 /\ laps' = 0 /\ view' = view
        /\ UNCHANGED ret
    BY <1>0, <1>2 DEF Continue, Increment
  <2>2. Id' = Id /\ \A s : Cells(s)' = Cells(s) /\ Group(s)' = Group(s)
    BY <2>1, ViewKept
  <2>3. \A s \in Sides : SupplyKnown(s)'
    BY <1>2, <1>b, <2>2 DEF SupplyKnown
  <2>4. i + 1 <= Len(Cells(side))
    BY <1>0, <1>2 DEF AtEnd
  <2>5. AmountKnown'
    BY <1>2, <1>a, <2>1, <2>2, <2>4 DEF AmountKnown, Sides
  <2>6. InfoKnown'
    BY <2>1, <2>3, <2>5 DEF InfoKnown, CountKnown
  <2> QED BY <1>0, <2>1, <2>6, InfoGoesOn
<1>3. ASSUME ~AtEnd(Cells(side)), NEW script \in Parsed(Cells(side)[i + 1])
      PROVE  /\ IsInstance(Cells(side)[i + 1].type) => IsInstance(script)
             /\ IsInstance(script) => IsInstance(Cells(side)[i + 1].type) \/ Cells(side)[i + 1].type = NoType
  BY <1>3, <1>c DEF Parsed
<1>4. ~AtEnd(Cells(side)) => i + 1 <= Len(Cells(side)) /\ Cells(side) \in Seq(Cell)
  BY <1>0, ViewCells DEF AtEnd, TypeOK
<1>5. ASSUME ~AtEnd(Cells(side)), NEW script \in Parsed(Cells(side)[i + 1]), ~IsInstance(script),
             Increment, Continue, UNCHANGED values
      PROVE  DInv'
  <2>1. ~HasArgs(Cells(side)[i + 1].type, "instance", Id)
    BY <1>3, <1>5, <1>c
  <2>2. view' = view /\ side' = side /\ total' = total /\ supply' = supply /\ i' = i + 1
    BY <1>5 DEF Continue, values, Increment
  <2>3. SumUpto(side, i)'
    <3>1. ASSUME NEW s, s = side, NEW n \in Nat, n = i PROVE SumUpto(s, n + 1)'
      BY <1>a, <2>1, <2>2, <3>1, AmountSkipped
    <3> QED BY <1>0, <2>2, <3>1 DEF SumUpto, Cells, Id
  <2> QED BY <1>2, <1>5, <2>2, <2>3
<1>6. ASSUME ~AtEnd(Cells(side)), NEW script \in Parsed(Cells(side)[i + 1]), IsInstance(script),
             NEW amt \in Loaded(Cells(side)[i + 1]), Add(amt), Increment, Continue
      PROVE  DInv'
  <2>1. HasArgs(Cells(side)[i + 1].type, "instance", Id) \/ Cells(side)[i + 1].type = NoType
    BY <1>3, <1>6, <1>c
  <2>2. /\ view' = view /\ side' = side /\ supply' = supply /\ i' = i + 1
        /\ total'[side] = (total[side] + amt) % U64
        /\ \A s \in Sides : s # side => total'[s] = total[s]
    BY <1>0, <1>6 DEF Continue, Increment, Add, Added
  <2>3. i + 1 <= Len(Cells(side))
    BY <1>0, <1>6 DEF AtEnd
  <2>4. SumUpto(side, i)'
    <3>1. ASSUME NEW s, s = side, NEW n \in Nat, n = i PROVE SumUpto(s, n + 1)'
      BY <1>6, <1>a, <2>1, <2>2, <2>3, <3>1, AmountAdded
    <3> QED BY <1>0, <2>2, <3>1 DEF SumUpto, Cells, Id
  <2> QED BY <1>2, <1>6, <2>2, <2>4
<1>7. ASSUME ~AtEnd(Cells(side)), NEW script \in Parsed(Cells(side)[i + 1]), IsInstance(script),
             Cells(side)[i + 1].size = "long", Return("load_code")
      PROVE  DInv'
  <2>1. /\ HasArgs(Cells(side)[i + 1].type, "instance", Id) \/ Cells(side)[i + 1].type = NoType
        /\ i + 1 \in DOMAIN Cells(side)
    BY <1>0, <1>3, <1>4, <1>7, <1>c
  <2>2. i + 1 \in Instances(Cells(side), Id) \/ Typeless(Cells(side)) # {}
    BY <2>1 DEF Instances, Typeless, OfType
  <2>3. ~MustBeAccepted
    BY <1>0, <1>7, <1>b, <2>2, InfoVerdict DEF InfoMustAccept, Id, Sides
  <2> QED BY <1>0, <1>7, <2>3, Returned
<1> QED BY <1>1, <1>5, <1>6, <1>7 DEF GetUdtInstanceAmount

\* The scripts decide on the sums.
LEMMA SumsDecide == ASSUME TypeOK, DInv, Decide, IsUdtDef PROVE DInv'
<1>0. /\ pc = "decide" /\ ArgsFit /\ view.first # Id /\ InfoMissed(Id, view.created)
      /\ verify_udt_data(view.script, view.consumed, view.created) /\ \A s \in Sides : SumOver(s, Whole(s))
  BY DEF DInv, UdtDefKnown, NoCreation, Decide
<1>1. /\ total["in"] = Total(view.consumed, OfType(view.consumed, view.script)) % U64
      /\ total["out"] = Total(view.created, OfType(view.created, view.script)) % U64
  <2>1. ASSUME NEW s \in Sides
        PROVE  total[s] = Total(Cells(s), OfType(Cells(s), view.script)) % U64
    <3>1. Total(Group(s), Whole(s)) = Total(Cells(s), OfType(Cells(s), view.script))
      BY GroupOf
    <3> QED BY <1>0, <3>1 DEF SumOver
  <2> QED BY <2>1, GroupOf DEF Sides
<1>2. MayBeAccepted <=> total["in"] = total["out"]
  <2>1. ~InfoFound(Id, view.created)
    BY <1>0 DEF InfoFound, InfoMissed
  <2>2. UdtDefAccepts(view.script, view.first, view.consumed, view.created)
          <=> SumsEqual(view.script, view.consumed, view.created)
    BY <1>0, <2>1 DEF UdtDefAccepts, ArgsFit, Id
  <2> QED BY <1>1, <2>2, UdtDefVerdict DEF SumsEqual
<1>3. MustBeAccepted <=> MayBeAccepted
  BY UdtDefVerdict
<1>4. CASE total["in"] = total["out"]
  <2>1. Return("SUCCESS")
    BY <1>4 DEF Decide, Verdict
  <2> QED BY <1>0, <1>2, <1>4, <2>1, Returned
<1>5. CASE total["in"] # total["out"]
  <2>1. Return("ERROR_AMOUNT")
    BY <1>5 DEF Decide, Verdict
  <2> QED BY <1>0, <1>2, <1>3, <1>5, <2>1, Returned
<1> QED BY <1>4, <1>5

\* The order of the comparisons in main() of udt_info_type.c does not matter.
LEMMA VerdictKept ==
  ASSUME ~IsUdtDef, NEW in_supply \in Nat, NEW out_supply \in Nat, NEW in_amt \in Nat, NEW out_amt \in Nat
  PROVE  /\ Verdict(in_supply, out_supply, in_amt, out_amt) # "none"
         /\ Verdict(in_supply, out_supply, in_amt, out_amt) = "SUCCESS"
              <=> SupplyKept(in_supply, out_supply, in_amt, out_amt)
<1>1. CASE out_supply > in_supply
  BY <1>1 DEF Verdict, SupplyKept
<1>2. CASE ~(out_supply > in_supply) /\ out_amt > in_amt
  BY <1>2 DEF Verdict, SupplyKept
<1>3. CASE ~(out_supply > in_supply \/ out_amt > in_amt)
  BY <1>3 DEF Verdict, SupplyKept
<1> QED BY <1>1, <1>2, <1>3

\* Of cells that can be read there is one sum.
LEMMA OneAmount ==
  ASSUME NEW family, NEW id, Typeless(family) = {},
         \A o \in Instances(family, id) : family[o].size = "exact",
         NEW x \in InstanceAmounts(id, family), NEW y \in InstanceAmounts(id, family)
  PROVE  x = y
<1> DEFINE S == Instances(family, id)
           Read(T) == {f \in [T -> Amounts] : \A o \in T : f[o] \in Loaded(family[o])}
<1>1. ASSUME NEW sum \in InstanceAmounts(id, family)
      PROVE  sum = Sum([o \in S |-> family[o].amt]) % U64
  <2>1. PICK T \in SUBSET Typeless(family) : \E f \in Read(S \union T) : sum = Sum(f) % U64
    <3>1. PICK R \in {S \union T : T \in SUBSET Typeless(family)} :
            sum \in {Sum(f) % U64 : f \in Read(R)}
      BY <1>1, Zenon DEF InstanceAmounts
    <3> HIDE DEF S, Read
    <3> QED BY <3>1
  <2>2. S \union T = S
    BY <2>1
  <2>3. PICK f \in Read(S) : sum = Sum(f) % U64
    BY <2>1, <2>2
  <2>4. f = [o \in S |-> f[o]] /\ \A o \in S : f[o] = family[o].amt
    BY <2>3 DEF Loaded
  <2>5. f = [o \in S |-> family[o].amt]
    BY <2>4
  <2> QED BY <2>3, <2>5
<1> QED BY <1>1

LEMMA SupplyDecides == ASSUME TypeOK, DInv, Decide, ~IsUdtDef PROVE DInv'
<1> DEFINE t == view.script
           a == supply["in"]
           b == supply["out"]
           x == total["in"]
           y == total["out"]
           code == Verdict(a, b, x, y)
<1>0. /\ pc = "decide" /\ ArgsFit /\ view.first # Id /\ Return(code)
      /\ \A s \in Sides : SupplyKnown(s) /\ total[s] \in InstanceAmounts(Id, Cells(s))
  BY DEF DInv, InfoKnown, NoCreation, Decide
<1>1. /\ a \in Nat /\ b \in Nat /\ x \in Nat /\ y \in Nat
      /\ x \in InstanceAmounts(Id, view.consumed) /\ y \in InstanceAmounts(Id, view.created)
  <2>1. Amounts \subseteq Nat
    BY WidthAssumption DEF Amounts
  <2> QED BY <1>0, <2>1, GroupOf DEF TypeOK, Sides
<1>2. code # "none" /\ (code = "SUCCESS" <=> SupplyKept(a, b, x, y))
  BY <1>1, VerdictKept
<1>3. \A s \in Sides : Cardinality(OfType(Cells(s), t)) = 1
  BY <1>0, GroupOf DEF SupplyKnown
<1>4. verify_type_id_update(t, view.consumed, view.created)
  BY <1>3, GroupOf DEF verify_type_id_update, Sides
<1>5. ASSUME NEW s \in Sides
      PROVE  /\ \E o \in OfType(Cells(s), t) : Cells(s)[o] = Group(s)[1]
             /\ \A o \in OfType(Cells(s), t) : Cells(s)[o] = Group(s)[1]
  <2>1. Len(Group(s)) = 1
    BY <1>0 DEF SupplyKnown
  <2>2. /\ \A k \in 1 .. 1 : \E o \in OfType(Cells(s), t) : Group(s)[k] = Cells(s)[o]
        /\ \A o \in OfType(Cells(s), t) : \E k \in 1 .. 1 : Group(s)[k] = Cells(s)[o]
    <3>1. /\ \A k \in 1 .. Len(Group(s)) : \E o \in OfType(Cells(s), t) : Group(s)[k] = Cells(s)[o]
          /\ \A o \in OfType(Cells(s), t) : \E k \in 1 .. Len(Group(s)) : Group(s)[k] = Cells(s)[o]
      BY GroupOf
    <3> QED BY <2>1, <3>1
  <2> QED BY <2>2
<1>6. PICK o \in OfType(view.consumed, t), k \in OfType(view.created, t) :
        view.consumed[o] = Group("in")[1] /\ view.created[k] = Group("out")[1]
  <2>1. /\ \E o \in OfType(Cells("in"), t) : Cells("in")[o] = Group("in")[1]
        /\ \E k \in OfType(Cells("out"), t) : Cells("out")[k] = Group("out")[1]
    BY <1>5 DEF Sides
  <2>2. Cells("in") = view.consumed /\ Cells("out") = view.created
    BY GroupOf
  <2> QED BY <2>1, <2>2
<1>7. a \in Loaded(view.consumed[o]) /\ b \in Loaded(view.created[k])
  BY <1>0, <1>6 DEF SupplyKnown, Sides
<1>8. CASE SupplyKept(a, b, x, y)
  <2>1. InfoMayAccept(t, view.first, view.consumed, view.created)
    BY <1>0, <1>1, <1>4, <1>7, <1>8 DEF InfoMayAccept, ArgsFit, Id
  <2> QED BY <1>0, <1>2, <1>8, <2>1, InfoVerdict, Returned
<1>9. CASE ~SupplyKept(a, b, x, y)
  <2>1. ~MustBeAccepted
    <3> SUFFICES ASSUME MustBeAccepted PROVE FALSE
      OBVIOUS
    <3>1. InfoMustAccept(t, view.first, view.consumed, view.created) /\ view.first # t.id /\ t.id = Id
      BY <1>0, InfoVerdict DEF Id
    <3>2. /\ Typeless(view.consumed) = {} /\ Typeless(view.created) = {}
          /\ \A p \in OfType(view.consumed, t) \union Instances(view.consumed, t.id) :
               view.consumed[p].size = "exact"
          /\ \A p \in OfType(view.created, t) \union Instances(view.created, t.id) :
               view.created[p].size = "exact"
          /\ InfoMayAccept(t, view.first, view.consumed, view.created)
      BY <3>1 DEF InfoMustAccept
    <3>3. PICK p \in OfType(view.consumed, t), q \in OfType(view.created, t) :
            \E in_supply \in Loaded(view.consumed[p]), out_supply \in Loaded(view.created[q]),
               in_amt \in InstanceAmounts(t.id, view.consumed),
               out_amt \in InstanceAmounts(t.id, view.created) :
              SupplyKept(in_supply, out_supply, in_amt, out_amt)
      BY <3>1, <3>2 DEF InfoMayAccept
    <3>4. PICK in_supply \in Loaded(view.consumed[p]), out_supply \in Loaded(view.created[q]),
               in_amt \in InstanceAmounts(t.id, view.consumed),
               out_amt \in InstanceAmounts(t.id, view.created) :
              SupplyKept(in_supply, out_supply, in_amt, out_amt)
      BY <3>3
    <3>5. in_amt = x /\ out_amt = y
      BY <1>1, <3>1, <3>2, OneAmount
    <3>6. view.consumed[p] = view.consumed[o] /\ view.created[q] = view.created[k]
      BY <1>5, <1>6, GroupOf DEF Sides
    <3>7. in_supply = a /\ out_supply = b
      BY <1>7, <3>2, <3>6 DEF Loaded
    <3> QED BY <1>9, <3>4, <3>5, <3>7
  <2> QED BY <1>0, <1>2, <1>9, <2>1, Returned
<1> QED BY <1>8, <1>9

LEMMA FailureDecides == ASSUME TypeOK, DInv, SyscallFails PROVE DInv'
<1>1. CASE pc = "verify_type_id_update"
  BY <1>1, CountedDecides DEF SyscallFails
<1>2. CASE pc # "verify_type_id_update"
  BY <1>2, Returned DEF SyscallFails
<1> QED BY <1>1, <1>2

LEMMA DecidedStep == ASSUME TypeOK, IInv, DInv, [Next]_vars PROVE DInv'
<1>1. CASE UNCHANGED vars
  <2>1. UNCHANGED <<view, pc, side, i, laps, count, supply, total, ret>>
    BY <1>1 DEF vars, values
  <2>2. /\ (\A s : Cells(s)' = Cells(s) /\ Group(s)' = Group(s) /\ Whole(s)' = Whole(s))
        /\ Id' = Id /\ (IsUdtDef' <=> IsUdtDef) /\ (MayFail(view)' <=> MayFail(view))
        /\ (ArgsFit' <=> ArgsFit)
        /\ (MayBeAccepted' <=> MayBeAccepted) /\ (MustBeAccepted' <=> MustBeAccepted)
    BY <2>1, ViewKept
  <2>3. Fresh' /\ NoCreation' /\ Decided'
    BY <2>1, <2>2 DEF DInv, Fresh, NoCreation, Decided
  <2>4. VerifyKnown' <=> VerifyKnown
    BY <2>1, <2>2 DEF VerifyKnown, Exact
  <2>5. SearchKnown' <=> SearchKnown
    BY <2>1, <2>2 DEF SearchKnown, IsInfo
  <2>6. SumKnown' <=> SumKnown
    BY <2>1, <2>2 DEF SumKnown, SumOver
  <2>7. \A s \in Sides : SumOver(s, Whole(s))' <=> SumOver(s, Whole(s))
    BY <2>1, <2>2 DEF SumOver
  <2>8. UdtDefKnown'
    BY <2>1, <2>2, <2>4, <2>5, <2>6, <2>7 DEF DInv, UdtDefKnown
  <2>9. CountKnown' <=> CountKnown
    BY <2>1, <2>2 DEF CountKnown
  <2>10. AmountKnown' <=> AmountKnown
    BY <2>1, <2>2 DEF AmountKnown, SumUpto
  <2>11. \A s \in Sides : (Single(s)' <=> Single(s)) /\ (SupplyKnown(s)' <=> SupplyKnown(s))
    BY <2>1, <2>2 DEF Single, SupplyKnown
  <2>12. InfoKnown'
    BY <2>1, <2>2, <2>9, <2>10, <2>11 DEF DInv, InfoKnown
  <2> QED BY <2>3, <2>8, <2>12 DEF DInv
<1> QED
  BY <1>1, VerifyDecides, CreateDecides, SearchDecides, SumDecides, UpdateDecides, SuppliesDecide,
     AmountsDecide, SumsDecide, SupplyDecides, FailureDecides, CirclesDecide DEF Next

\* What a run has come to know of the transaction is what the decision asks: a
\* verdict it gives is the one promised.
THEOREM Deciding == Spec => []DInv
<1>1. Init => DInv
  <2> SUFFICES ASSUME Init PROVE DInv
    OBVIOUS
  <2>1. /\ view \in Views /\ side = "in" /\ i = 0 /\ laps = 0 /\ ret = "none"
        /\ count = Both(0) /\ total = Both(0)
        /\ pc = IF IsUdtDef THEN "verify_udt_data" ELSE "create_mode"
    BY DEF Init
  <2>2. Len(Group("in")) \in Nat /\ U8 \in Nat \ {0}
    BY <2>1, ViewCells, WidthAssumption
  <2>3. VerifyKnown
    BY <2>1, <2>2 DEF VerifyKnown, Exact
  <2>4. UdtDefKnown
    BY <2>1, <2>3 DEF UdtDefKnown, SearchKnown, SumKnown
  <2>5. InfoKnown
    BY <2>1 DEF InfoKnown, CountKnown, AmountKnown
  <2> QED BY <2>1, <2>4, <2>5 DEF DInv, Fresh, NoCreation, Decided
<1>2. TypeOK /\ IInv /\ DInv /\ [Next]_vars => DInv'
  BY DecidedStep
<1> QED BY <1>1, <1>2, Typing, Invariant, PTL DEF Spec

\* A run of main() of udt_def.c or udt_info_type.c, loop by loop, is one look at the
\* transaction: it accepts only what the decisions of UdtScripts may accept, and
\* refuses what must be accepted only when a load fails; for every list of cells,
\* every width of the sums and of the index.
THEOREM UdtImplementsVerdict == Spec => ImplementsVerdict
<1>1. Init => Decision!Init
  BY DEF Init, Decision!Init
<1>2. TypeOK /\ DInv /\ DInv' /\ [Next]_vars => [Decision!Next]_(Decision!vvars)
  <2> SUFFICES ASSUME TypeOK, DInv, DInv', [Next]_vars PROVE [Decision!Next]_(Decision!vvars)
    OBVIOUS
  <2>1. view' = view
    BY DEF Next, vars, VerifyUdtData, CreateMode, Search, SumGroup, VerifyTypeIdUpdate, LoadSupplies,
           GetUdtInstanceAmount, Decide, SyscallFails, OutOfCycles, Counted, Return, EndLoop, Enter,
           Continue
  <2>2. (pc = "done" <=> ret # "none") /\ (pc' = "done" <=> ret' # "none")
    BY DEF DInv, Decided
  <2>3. CASE pc # "done" /\ pc' = "done"
    <3>1. IF ret' = "SUCCESS" THEN MayBeAccepted ELSE MayFail(view) \/ ~MustBeAccepted
      <4>1. IF ret' = "SUCCESS" THEN MayBeAccepted' ELSE MayFail(view') \/ ~MustBeAccepted'
        BY <2>3 DEF DInv, Decided
      <4> QED BY <2>1, <4>1, ViewKept
    <3> QED BY <2>1, <2>2, <2>3, <3>1
         DEF Decision!Next, Decision!Accept, Decision!Reject, MayBeAccepted, MustBeAccepted
  <2>4. CASE pc # "done" /\ pc' # "done"
    BY <2>1, <2>2, <2>4 DEF Decision!vvars
  <2>5. CASE pc = "done"
    <3>1. UNCHANGED vars
      BY <2>5 DEF Next, VerifyUdtData, CreateMode, Search, SumGroup, VerifyTypeIdUpdate, LoadSupplies,
                  GetUdtInstanceAmount, Decide, SyscallFails, OutOfCycles
    <3> QED BY <3>1 DEF vars, Decision!vvars
  <2> QED BY <2>3, <2>4, <2>5
<1> QED BY <1>1, <1>2, Typing, Deciding, PTL DEF Spec, ImplementsVerdict, Decision!Spec
=============================================================================
