-------------------------- MODULE UdtChain_proofs --------------------------
(***************************************************************************)
(* For chains, transactions, tokens and integer widths of any size: a live *)
(* info cell's id is a consumed outpoint, live instances can be read, the  *)
(* number of info cells of a token is settled by one transaction, the      *)
(* supply never falls, and what a transaction mints is added to it, scripts*)
(* of other code with a token's args among the cells told apart.           *)
(***************************************************************************)
EXTENDS UdtChain, FamilySums_proofs

\* What the transactions of Next look like.
Shape(ins, first, list) ==
  ins \in SUBSET DOMAIN cells /\ first \in ins /\ list \in OutputLists

\* The cells a transaction leaves behind.
After(ins, list) ==
  /\ height' = height + 1
  /\ DOMAIN Created(list) = {height + 1} \X (1 .. Len(list)) /\ Len(list) \in Nat
  /\ \A k \in 1 .. Len(list) : list[k] \in Cell
  /\ \A o \in DOMAIN Created(list) : Created(list)[o] = list[o[2]]
  /\ DOMAIN Created(list) \cap DOMAIN cells = {}
  /\ DOMAIN cells' = (DOMAIN cells \ ins) \union DOMAIN Created(list)
  /\ \A o \in DOMAIN cells \ ins : cells'[o] = cells[o]
  /\ \A o \in DOMAIN Created(list) : cells'[o] = list[o[2]]

LEMMA CommitCells ==
  ASSUME TypeOK, NEW ins, NEW first, NEW list, Shape(ins, first, list), Commit(ins, first, list)
  PROVE  After(ins, list)
<1>1. list \in Seq(Cell)
  BY CellsAssumption DEF Shape
<1>2. DOMAIN list = 1 .. Len(list) /\ Len(list) \in Nat /\ \A k \in 1 .. Len(list) : list[k] \in Cell
  BY <1>1
<1>3. /\ DOMAIN Created(list) = {height + 1} \X (1 .. Len(list))
      /\ \A o \in DOMAIN Created(list) : o[1] = height + 1 /\ Created(list)[o] = list[o[2]]
  BY <1>2 DEF Created
<1>4. height \in Nat /\ \A o \in DOMAIN cells : o[1] \in Nat /\ o[1] <= height
  BY DEF TypeOK
<1>5. DOMAIN Created(list) \cap DOMAIN cells = {}
  BY <1>3, <1>4
<1>6. /\ cells' = [o \in (DOMAIN cells \ ins) \union DOMAIN Created(list) |->
                     IF o \in DOMAIN Created(list) THEN Created(list)[o] ELSE cells[o]]
      /\ height' = height + 1
  BY DEF Commit
<1>7. /\ DOMAIN cells' = (DOMAIN cells \ ins) \union DOMAIN Created(list)
      /\ \A o \in DOMAIN cells \ ins : cells'[o] = cells[o]
      /\ \A o \in DOMAIN Created(list) : cells'[o] = list[o[2]]
  BY <1>3, <1>5, <1>6
<1> QED BY <1>2, <1>3, <1>5, <1>6, <1>7 DEF After

\* Well-typed chains stay so.
LEMMA CommitTyped ==
  ASSUME TypeOK, NEW ins, NEW first, NEW list, Shape(ins, first, list), Commit(ins, first, list)
  PROVE  TypeOK'
<1> DEFINE D == DOMAIN Created(list)
<1>0. After(ins, list)
  BY CommitCells
<1>1. /\ height \in Nat /\ height' = height + 1
      /\ D = {height + 1} \X (1 .. Len(list)) /\ Len(list) \in Nat
      /\ \A k \in 1 .. Len(list) : list[k] \in Cell
      /\ DOMAIN cells' = (DOMAIN cells \ ins) \union D
      /\ \A o \in DOMAIN cells \ ins : cells'[o] = cells[o]
      /\ \A o \in D : cells'[o] = list[o[2]]
  BY <1>0 DEF After, TypeOK
<1> HIDE DEF D
<1>2. IsFiniteSet(D)
  <2>1. 1 \in Int /\ Len(list) \in Int
    BY <1>1
  <2>2. IsFiniteSet({height + 1}) /\ IsFiniteSet(1 .. Len(list))
    BY <2>1, FS_Interval, FS_Singleton
  <2>3. IsFiniteSet({height + 1} \X (1 .. Len(list)))
    BY <2>2, FS_Product
  <2> QED BY <1>1, <2>3
<1>3. IsFiniteSet(DOMAIN cells')
  <2>1. DOMAIN cells \ ins \in SUBSET DOMAIN cells /\ IsFiniteSet(DOMAIN cells)
    BY DEF TypeOK
  <2>2. IsFiniteSet(DOMAIN cells \ ins)
    BY <2>1, FS_Subset
  <2>3. IsFiniteSet((DOMAIN cells \ ins) \union D)
    BY <1>2, <2>2, FS_Union
  <2> QED BY <1>1, <2>3
<1>4. DOMAIN cells' \subseteq (0 .. height') \X (Nat \ {0})
  <2>1. D \subseteq (0 .. height') \X (Nat \ {0})
    BY <1>1
  <2>2. 0 .. height \subseteq 0 .. height'
    BY <1>1
  <2>3. DOMAIN cells \subseteq (0 .. height') \X (Nat \ {0})
    BY <2>2 DEF TypeOK
  <2> QED BY <1>1, <2>1, <2>3
<1>5. \A o \in DOMAIN cells' : cells'[o] \in Cell
  <2>1. \A o \in D : o[2] \in 1 .. Len(list)
    BY <1>1
  <2> QED BY <1>1, <2>1 DEF TypeOK
<1> QED BY <1>1, <1>3, <1>4, <1>5 DEF TypeOK

\* A token's own scripts.
LEMMA OwnScripts ==
  ASSUME NEW id \in Ids
  PROVE  /\ InfoOf(id) \in TypeScripts /\ InfoOf(id) # NoType
         /\ InfoOf(id).code = "udt_info" /\ InfoOf(id).args = "info" /\ InfoOf(id).id = id
         /\ UdtOf(id) \in TypeScripts /\ UdtOf(id) # NoType
         /\ UdtOf(id).code = "udt_def" /\ UdtOf(id).args = "instance" /\ UdtOf(id).id = id
<1>1. InfoOf(id) \in TypeScripts /\ UdtOf(id) \in TypeScripts
  BY DEF TypeScripts, Programs, Args, InfoOf, UdtOf, Script
<1> QED BY <1>1, NoTypeAssumption DEF InfoOf, UdtOf, Script

\* What an accepting script says of a new cell: an info cell comes with the id's
\* outpoint or from an info cell; an instance can be read.
LEMMA Verdicts ==
  ASSUME NEW ins, NEW first, NEW list, Commit(ins, first, list),
         NEW k \in DOMAIN list, list[k] \in Cell, list[k].type # NoType
  PROVE  /\ list[k].type.code = "udt_info" =>
              \/ first = list[k].type.id
              \/ \E p \in ins : cells[p].type = list[k].type
         /\ list[k].type.code = "udt_def" => list[k].size = "exact"
<1> DEFINE t == list[k].type
<1>1. t \in TypeScripts /\ t \in Types(list)
  BY DEF Cell, Types
<1>2. MayAccept(t, first, Consumed(ins), list)
  BY <1>1 DEF Commit
<1>3. ASSUME t.code = "udt_info"
      PROVE  first = t.id \/ \E p \in ins : cells[p].type = t
  <2>1. InfoMayAccept(t, first, Consumed(ins), list)
    BY <1>2, <1>3 DEF MayAccept
  <2>2. first = t.id \/ \E p \in OfType(Consumed(ins), t) : TRUE
    BY <2>1 DEF InfoMayAccept
  <2> QED BY <2>2 DEF OfType, Consumed
<1>4. ASSUME t.code = "udt_def"
      PROVE  list[k].size = "exact"
  <2>1. UdtDefAccepts(t, first, Consumed(ins), list)
    BY <1>2, <1>4 DEF MayAccept
  <2>2. \A j \in OfType(list, t) : list[j].size = "exact"
    BY <2>1 DEF UdtDefAccepts, verify_udt_data
  <2>3. k \in OfType(list, t)
    BY DEF OfType
  <2> QED BY <2>2, <2>3
<1> QED BY <1>3, <1>4

\* A transaction keeps the invariant.
LEMMA CommitInv ==
  ASSUME IInv, NEW ins, NEW first, NEW list, Shape(ins, first, list), Commit(ins, first, list)
  PROVE  IInv'
<1> DEFINE D == DOMAIN Created(list)
           SpentNext(o) == o[1] <= height' /\ o \notin DOMAIN cells'
<1>1. TypeOK /\ IdsSpent /\ InstancesReadable
  BY DEF IInv
<1>2. After(ins, list)
  BY <1>1, CommitCells
<1>3. /\ height \in Nat /\ height' = height + 1
      /\ D \cap DOMAIN cells = {} /\ D = {height + 1} \X (1 .. Len(list))
      /\ DOMAIN cells' = (DOMAIN cells \ ins) \union D
      /\ \A o \in DOMAIN cells \ ins : cells'[o] = cells[o]
      /\ \A o \in D : cells'[o] = list[o[2]]
      /\ \A k \in 1 .. Len(list) : list[k] \in Cell
  BY <1>1, <1>2 DEF After, TypeOK
<1>4. \A o \in D : o[1] = height + 1 /\ o[2] \in 1 .. Len(list)
  BY <1>3
<1>5. DOMAIN list = 1 .. Len(list)
  BY CellsAssumption DEF Shape
<1> HIDE DEF D
<1>6. ASSUME NEW id \in Nat \X (Nat \ {0}), Spent(id) PROVE SpentNext(id)
  <2>1. id[1] \in Nat /\ id[1] <= height /\ id \notin DOMAIN cells
    BY <1>6 DEF Spent
  <2>2. id \notin D
    BY <1>3, <1>4, <2>1
  <2> QED BY <1>3, <2>1, <2>2
<1>7. SpentNext(first)
  <2>1. first \in ins /\ first \in DOMAIN cells
    BY DEF Shape
  <2>2. first[1] \in Nat /\ first[1] <= height
    BY <1>1, <1>3, <2>1 DEF TypeOK
  <2> QED BY <1>3, <2>1, <2>2
<1>8. ASSUME NEW o \in DOMAIN cells', cells'[o].type # NoType, cells'[o].type.code = "udt_info"
      PROVE  SpentNext(cells'[o].type.id)
  <2> DEFINE Old(p) == p \in DOMAIN cells /\ cells[p].type = cells'[o].type
  <2>1. ASSUME NEW p, Old(p) PROVE SpentNext(cells'[o].type.id)
    <3>1. cells[p].type \in TypeScripts /\ Spent(cells[p].type.id)
      BY <1>1, <1>8, <2>1 DEF TypeOK, Cell, IdsSpent, RunsCode
    <3>2. cells[p].type.id \in Nat \X (Nat \ {0})
      BY <3>1, IdsAssumption DEF TypeScripts
    <3>3. SpentNext(cells[p].type.id)
      BY <1>6, <3>1, <3>2
    <3> QED BY <2>1, <3>3
  <2>2. CASE o \in DOMAIN cells \ ins
    BY <1>3, <2>1, <2>2
  <2>3. CASE o \in D
    <3>1. o[2] \in DOMAIN list /\ cells'[o] = list[o[2]] /\ list[o[2]] \in Cell
      BY <1>3, <1>4, <1>5, <2>3
    <3>2. \/ first = cells'[o].type.id
          \/ \E p \in ins : cells[p].type = cells'[o].type
      BY <1>8, <3>1, Verdicts
    <3>3. CASE first = cells'[o].type.id
      BY <1>7, <3>3
    <3>4. ASSUME NEW p \in ins, cells[p].type = cells'[o].type PROVE SpentNext(cells'[o].type.id)
      <4>1. Old(p)
        BY <3>4 DEF Shape
      <4> QED BY <2>1, <4>1
    <3> QED BY <3>2, <3>3, <3>4
  <2> QED BY <1>3, <2>2, <2>3
<1>9. ASSUME NEW o \in DOMAIN cells', cells'[o].type # NoType, cells'[o].type.code = "udt_def"
      PROVE  cells'[o].size = "exact"
  <2>1. CASE o \in DOMAIN cells \ ins
    BY <1>1, <1>3, <1>9, <2>1 DEF InstancesReadable, RunsCode
  <2>2. CASE o \in D
    <3>1. o[2] \in DOMAIN list /\ cells'[o] = list[o[2]] /\ list[o[2]] \in Cell
      BY <1>3, <1>4, <1>5, <2>2
    <3> QED BY <1>9, <3>1, Verdicts
  <2> QED BY <1>3, <2>1, <2>2
<1>10. TypeOK'
  BY <1>1, CommitTyped
<1>11. IdsSpent'
  BY <1>8 DEF IdsSpent, Spent, RunsCode
<1>12. InstancesReadable'
  BY <1>9 DEF InstancesReadable, RunsCode
<1> QED BY <1>10, <1>11, <1>12 DEF IInv

-----------------------------------------------------------------------------
\* A transaction of Next has the shape above and is committed.
LEMMA NextCommits ==
  ASSUME Next
  PROVE  \E ins, first, list : Shape(ins, first, list) /\ Commit(ins, first, list)
BY DEF Next, Shape

\* Init gives a chain that satisfies the invariant: no cell has a type script.
LEMMA InitInv == Init => IInv
<1> SUFFICES ASSUME Init PROVE IInv
  OBVIOUS
<1>1. /\ DOMAIN Genesis = 1 .. Len(Genesis) /\ Len(Genesis) \in Nat
      /\ \A k \in 1 .. Len(Genesis) : Genesis[k] \in Cell /\ Genesis[k].type = NoType
  BY CellsAssumption
<1>2. /\ DOMAIN cells = {0} \X (1 .. Len(Genesis)) /\ height = 0
      /\ \A o \in DOMAIN cells : o[2] \in 1 .. Len(Genesis) /\ cells[o] = Genesis[o[2]]
  BY <1>1 DEF Init
<1>3. 1 \in Int /\ Len(Genesis) \in Int
  BY <1>1
<1>4. IsFiniteSet({0}) /\ IsFiniteSet(1 .. Len(Genesis))
  BY <1>3, FS_Singleton, FS_Interval
<1>5. IsFiniteSet({0} \X (1 .. Len(Genesis)))
  BY <1>4, FS_Product
<1>6. DOMAIN cells \subseteq (0 .. height) \X (Nat \ {0})
  BY <1>1, <1>2
<1> QED BY <1>1, <1>2, <1>5, <1>6 DEF IInv, TypeOK, IdsSpent, InstancesReadable, RunsCode

LEMMA InductiveStep == IInv /\ [Next]_vars => IInv'
<1> SUFFICES ASSUME IInv, [Next]_vars PROVE IInv'
  OBVIOUS
<1>1. CASE Next
  <2>1. PICK ins, first, list : Shape(ins, first, list) /\ Commit(ins, first, list)
    BY <1>1, NextCommits
  <2> QED BY <2>1, CommitInv
<1>2. CASE UNCHANGED vars
  BY <1>2 DEF vars, IInv, TypeOK, IdsSpent, InstancesReadable, RunsCode, Spent
<1> QED BY <1>1, <1>2

\* A live info cell's id is a consumed outpoint, and live instances hold readable
\* amounts, whatever transactions were made.
THEOREM Invariant == Spec => []IInv
<1>1. Init => IInv
  BY InitInv
<1>2. IInv /\ [Next]_vars => IInv'
  BY InductiveStep
<1> QED BY <1>1, <1>2, PTL DEF Spec

-----------------------------------------------------------------------------
\* What leaves and what joins the live info cells of a token.
Leaving(ins, id) == InfoCells(Consumed(ins), id)
Joining(list, id) == {height + 1} \X InfoCells(list, id)

LEMMA InfoCellsAfter ==
  ASSUME TypeOK, NEW ins, NEW first, NEW list, Shape(ins, first, list),
         Commit(ins, first, list), NEW id
  PROVE  /\ InfoCells(cells', id) = (InfoCells(cells, id) \ Leaving(ins, id)) \union Joining(list, id)
         /\ Leaving(ins, id) \subseteq InfoCells(cells, id)
         /\ Joining(list, id) \cap InfoCells(cells, id) = {}
<1> DEFINE D == DOMAIN Created(list)
           t == InfoOf(id)
<1>0. After(ins, list)
  BY CommitCells
<1>1. /\ D \cap DOMAIN cells = {} /\ D = {height + 1} \X DOMAIN list
      /\ DOMAIN cells' = (DOMAIN cells \ ins) \union D
      /\ \A o \in DOMAIN cells \ ins : cells'[o] = cells[o]
      /\ \A o \in D : cells'[o] = list[o[2]]
  BY <1>0 DEF After, Created
<1>2. Leaving(ins, id) = OfType(cells, t) \cap ins
  BY DEF Shape, Leaving, InfoCells, OfType, Consumed
<1>3. Joining(list, id) = {o \in D : list[o[2]].type = t}
  BY <1>1 DEF Joining, InfoCells, OfType
<1> HIDE DEF D, t
<1>4. OfType(cells', t) = (OfType(cells, t) \ Leaving(ins, id)) \union Joining(list, id)
  BY <1>1, <1>2, <1>3 DEF OfType
<1>5. Joining(list, id) \cap OfType(cells, t) = {}
  BY <1>1, <1>3 DEF OfType
<1> QED BY <1>2, <1>4, <1>5 DEF InfoCells, t

\* The verdict on the info cells of one token: a creation, an update, or nothing.
LEMMA InfoVerdicts ==
  ASSUME NEW ins, NEW first, NEW list, Commit(ins, first, list), NEW id \in Ids
  PROVE  \/ first = id
         \/ /\ Cardinality(Leaving(ins, id)) = 1
            /\ Cardinality(InfoCells(list, id)) = 1
         \/ Leaving(ins, id) = {} /\ InfoCells(list, id) = {}
<1> DEFINE t == InfoOf(id)
<1>1. t.code = "udt_info" /\ t.id = id /\ t # NoType
  BY OwnScripts
<1>2. CASE t \in Types(Consumed(ins)) \union Types(list)
  <2>1. InfoMayAccept(t, first, Consumed(ins), list)
    BY <1>1, <1>2 DEF Commit, MayAccept
  <2> QED BY <1>1, <2>1 DEF InfoMayAccept, verify_type_id_update, Leaving, InfoCells
<1>3. CASE t \notin Types(Consumed(ins)) \union Types(list)
  BY <1>1, <1>3 DEF Types, Leaving, InfoCells, OfType
<1> QED BY <1>2, <1>3

\* A transaction that replaces one member of a finite set by a new one.
LEMMA Exchange ==
  ASSUME NEW G, IsFiniteSet(G), NEW x \in G, NEW y, y \notin G
  PROVE  Cardinality((G \ {x}) \union {y}) = Cardinality(G)
<1>1. IsFiniteSet(G \ {x}) /\ Cardinality(G \ {x}) = Cardinality(G) - 1
  BY FS_RemoveElement
<1>2. Cardinality((G \ {x}) \union {y}) = Cardinality(G \ {x}) + 1
  BY <1>1, FS_AddElement
<1>3. Cardinality(G) \in Nat
  BY FS_CardinalityType
<1> QED BY <1>1, <1>2, <1>3

\* A transaction changes the number of info cells of a token only by consuming
\* its id first, and then there was none.
LEMMA CommitInfo ==
  ASSUME IInv, NEW ins, NEW first, NEW list, Shape(ins, first, list),
         Commit(ins, first, list), NEW id \in Ids
  PROVE  \/ Cardinality(InfoCells(cells', id)) = Cardinality(InfoCells(cells, id))
         \/ tx'.first = id /\ InfoCells(cells, id) = {}
<1>1. TypeOK /\ IdsSpent
  BY DEF IInv
<1>2. /\ InfoCells(cells', id) = (InfoCells(cells, id) \ Leaving(ins, id)) \union Joining(list, id)
      /\ Leaving(ins, id) \subseteq InfoCells(cells, id)
      /\ Joining(list, id) \cap InfoCells(cells, id) = {}
  BY <1>1, InfoCellsAfter
<1>3. IsFiniteSet(InfoCells(cells, id))
  <2>1. InfoCells(cells, id) \in SUBSET DOMAIN cells /\ IsFiniteSet(DOMAIN cells)
    BY <1>1 DEF TypeOK, InfoCells, OfType
  <2> QED BY <2>1, FS_Subset
<1>4. CASE first = id
  <2>1. id \in DOMAIN cells
    BY <1>4 DEF Shape
  <2>2. ASSUME NEW o \in InfoCells(cells, id) PROVE FALSE
    <3>1. o \in DOMAIN cells /\ cells[o].type = InfoOf(id)
      BY <2>2 DEF InfoCells, OfType
    <3>3. Spent(id)
      BY <1>1, <3>1, OwnScripts DEF IdsSpent, RunsCode
    <3> QED BY <2>1, <3>3 DEF Spent
  <2>3. tx'.first = first
    BY DEF Commit
  <2> QED BY <1>4, <2>2, <2>3
<1>5. CASE Cardinality(Leaving(ins, id)) = 1 /\ Cardinality(InfoCells(list, id)) = 1
  <2>1. IsFiniteSet(Leaving(ins, id))
    BY <1>2, <1>3, FS_Subset
  <2>2. PICK x : Leaving(ins, id) = {x}
    BY <1>5, <2>1, FS_Singleton
  <2>3. IsFiniteSet(InfoCells(list, id))
    <3>1. After(ins, list)
      BY <1>1, CommitCells
    <3>2. Len(list) \in Nat /\ list \in Seq(Cell)
      BY <3>1, CellsAssumption DEF After, Shape
    <3>3. InfoCells(list, id) \in SUBSET (1 .. Len(list)) /\ 1 \in Int /\ Len(list) \in Int
      BY <3>2 DEF InfoCells, OfType
    <3>4. IsFiniteSet(1 .. Len(list))
      BY <3>3, FS_Interval
    <3> QED BY <3>3, <3>4, FS_Subset
  <2>4. PICK k : InfoCells(list, id) = {k}
    BY <1>5, <2>3, FS_Singleton
  <2>5. Joining(list, id) = {<<height + 1, k>>}
    BY <2>4 DEF Joining
  <2>6. x \in InfoCells(cells, id) /\ <<height + 1, k>> \notin InfoCells(cells, id)
    BY <1>2, <2>2, <2>5
  <2>7. Cardinality((InfoCells(cells, id) \ {x}) \union {<<height + 1, k>>})
          = Cardinality(InfoCells(cells, id))
    BY <1>3, <2>6, Exchange
  <2> QED BY <1>2, <2>2, <2>5, <2>7
<1>6. CASE Leaving(ins, id) = {} /\ InfoCells(list, id) = {}
  <2>1. Joining(list, id) = {}
    BY <1>6 DEF Joining
  <2>2. InfoCells(cells', id) = InfoCells(cells, id)
    BY <1>2, <1>6, <2>1
  <2> QED BY <2>2
<1> QED BY <1>4, <1>5, <1>6, InfoVerdicts

\* The number of info cells of a token is settled by the transaction that consumes
\* the token's id first (main() of udt_info_type.c, lines 281-294).
THEOREM InfoCellsSettled == Spec => InfoSettledOnce
<1>1. IInv /\ [Next]_vars =>
        [\A id \in Ids :
           Cardinality(InfoCells(cells', id)) # Cardinality(InfoCells(cells, id)) =>
             tx'.first = id /\ InfoCells(cells, id) = {}]_vars
  <2> SUFFICES ASSUME IInv, Next, NEW id \in Ids,
                      Cardinality(InfoCells(cells', id)) # Cardinality(InfoCells(cells, id))
               PROVE  tx'.first = id /\ InfoCells(cells, id) = {}
    OBVIOUS
  <2>1. PICK ins, first, list : Shape(ins, first, list) /\ Commit(ins, first, list)
    BY NextCommits
  <2> QED BY <2>1, CommitInfo
<1> QED BY <1>1, Invariant, PTL DEF Spec, InfoSettledOnce

-----------------------------------------------------------------------------
\* What the info cell script has found of an update: the two cells, the supplies
\* it loaded from them and the sums it made of the instances.
Update(ins, list, id) ==
  \E o \in InfoCells(Consumed(ins), id), k \in InfoCells(list, id) :
    \E in_supply \in Loaded(Consumed(ins)[o]), out_supply \in Loaded(list[k]),
       in_amt \in InstanceAmounts(id, Consumed(ins)), out_amt \in InstanceAmounts(id, list) :
      SupplyKept(in_supply, out_supply, in_amt, out_amt)

LEMMA InfoUpdate ==
  ASSUME NEW ins, NEW first, NEW list, Commit(ins, first, list), NEW id \in Ids, first # id,
         InfoCells(Consumed(ins), id) # {} \/ InfoCells(list, id) # {}
  PROVE  Update(ins, list, id)
<1> DEFINE t == InfoOf(id)
<1>1. t.code = "udt_info" /\ t.id = id /\ t # NoType
  BY OwnScripts
<1>2. t \in Types(Consumed(ins)) \union Types(list)
  BY <1>1 DEF Types, InfoCells, OfType
<1>3. InfoMayAccept(t, first, Consumed(ins), list)
  BY <1>1, <1>2 DEF Commit, MayAccept
<1> QED BY <1>1, <1>3 DEF InfoMayAccept, Update, InfoCells

\* The cells of a transaction are well-typed.
LEMMA TxTyped ==
  ASSUME TypeOK, NEW ins, NEW first, NEW list, Shape(ins, first, list), Commit(ins, first, list)
  PROVE  /\ tx'.first = first /\ tx'.consumed = Consumed(ins) /\ tx'.created = list
         /\ DOMAIN Consumed(ins) = ins /\ ins \subseteq DOMAIN cells
         /\ \A o \in ins : Consumed(ins)[o] = cells[o] /\ Consumed(ins)[o] \in Cell
         /\ \A k \in DOMAIN list : list[k] \in Cell
<1>1. tx' = [first |-> first, consumed |-> Consumed(ins), created |-> list]
  BY DEF Commit
<1>2. list \in Seq(Cell)
  BY CellsAssumption DEF Shape
<1>3. \A k \in DOMAIN list : list[k] \in Cell
  BY <1>2
<1>4. ins \subseteq DOMAIN cells /\ DOMAIN Consumed(ins) = ins
  BY DEF Shape, Consumed
<1>5. \A o \in ins : Consumed(ins)[o] = cells[o] /\ Consumed(ins)[o] \in Cell
  BY <1>4 DEF Consumed, TypeOK
<1> QED BY <1>1, <1>3, <1>4, <1>5

LEMMA ReadSupplies ==
  ASSUME NEW id, NEW consumed, NEW created, Readable(id)',
         tx'.consumed = consumed, tx'.created = created, NEW o \in InfoCells(consumed, id), NEW k \in InfoCells(created, id)
  PROVE  Loaded(consumed[o]) = {consumed[o].amt} /\ Loaded(created[k]) = {created[k].amt}
<1>1. tx'.consumed[o].size = "exact" /\ tx'.created[k].size = "exact"
  BY DEF Readable, Sides
<1> QED BY <1>1 DEF Loaded

\* An info cell consumed by a transaction that does not create its token is
\* followed by one with no less supply.
LEMMA CommitSupply ==
  ASSUME IInv, NEW ins, NEW first, NEW list, Shape(ins, first, list),
         Commit(ins, first, list), NEW id \in Ids, Readable(id)',
         NEW o \in InfoCells(tx'.consumed, id)
  PROVE  \E k \in InfoCells(tx'.created, id) : tx'.created[k].amt >= tx'.consumed[o].amt
<1>1. TypeOK /\ IdsSpent
  BY DEF IInv
<1>2. /\ tx'.consumed = Consumed(ins) /\ tx'.created = list
      /\ DOMAIN Consumed(ins) = ins /\ ins \subseteq DOMAIN cells
      /\ \A p \in ins : Consumed(ins)[p] = cells[p] /\ Consumed(ins)[p] \in Cell
      /\ \A k \in DOMAIN list : list[k] \in Cell
  BY <1>1, TxTyped
<1>3. o \in InfoCells(Consumed(ins), id) /\ o \in ins /\ cells[o].type = InfoOf(id)
  BY <1>2 DEF InfoCells, OfType
<1>4. first # id
  <2>2. Spent(id)
    BY <1>1, <1>2, <1>3, OwnScripts DEF IdsSpent, RunsCode
  <2> QED BY <2>2 DEF Spent, Shape
<1>5. Update(ins, list, id)
  BY <1>3, <1>4, InfoUpdate
<1>6. PICK p \in InfoCells(Consumed(ins), id), k \in InfoCells(list, id) :
        \E in_supply \in Loaded(Consumed(ins)[p]), out_supply \in Loaded(list[k]),
           in_amt \in InstanceAmounts(id, Consumed(ins)), out_amt \in InstanceAmounts(id, list) :
          SupplyKept(in_supply, out_supply, in_amt, out_amt)
  BY <1>5 DEF Update
<1>7. p = o
  <2>1. \/ first = id
        \/ Cardinality(InfoCells(Consumed(ins), id)) = 1
        \/ InfoCells(Consumed(ins), id) = {}
    BY InfoVerdicts DEF Leaving
  <2>2. Cardinality(InfoCells(Consumed(ins), id)) = 1
    BY <1>3, <1>4, <2>1
  <2>3. IsFiniteSet(InfoCells(Consumed(ins), id))
    <3>1. IsFiniteSet(DOMAIN cells) /\ InfoCells(Consumed(ins), id) \in SUBSET DOMAIN cells
      BY <1>1, <1>2 DEF TypeOK, InfoCells, OfType
    <3> QED BY <3>1, FS_Subset
  <2>4. PICK x : InfoCells(Consumed(ins), id) = {x}
    BY <2>2, <2>3, FS_Singleton
  <2> QED BY <1>3, <1>6, <2>4
<1>8. Loaded(Consumed(ins)[o]) = {Consumed(ins)[o].amt} /\ Loaded(list[k]) = {list[k].amt}
  BY <1>2, <1>3, <1>6, ReadSupplies
<1>9. Consumed(ins)[o].amt \in Nat /\ list[k].amt \in Nat
  <2>1. Consumed(ins)[o] \in Cell /\ list[k] \in Cell
    BY <1>2, <1>3, <1>6 DEF InfoCells, OfType
  <2> QED BY <2>1, WidthAssumption DEF Cell, Amounts
<1>10. \E in_amt, out_amt : SupplyKept(Consumed(ins)[o].amt, list[k].amt, in_amt, out_amt)
  BY <1>6, <1>7, <1>8
<1>11. list[k].amt >= Consumed(ins)[o].amt
  BY <1>9, <1>10 DEF SupplyKept
<1> QED BY <1>2, <1>6, <1>11

\* No transaction lowers the supply in an info cell or loses the cell, as long as
\* it can be read (ERROR_UNAUTHORIZED_BURN, verify_type_id_update).
THEOREM SupplyKeptForever == Spec => SupplyNeverFalls
<1>1. IInv /\ [Next]_vars =>
        [\A id \in Ids : Readable(id)' =>
           \A o \in InfoCells(tx'.consumed, id) :
             \E k \in InfoCells(tx'.created, id) : tx'.created[k].amt >= tx'.consumed[o].amt]_vars
  <2> SUFFICES ASSUME IInv, Next, NEW id \in Ids, Readable(id)',
                      NEW o \in InfoCells(tx'.consumed, id)
               PROVE  \E k \in InfoCells(tx'.created, id) : tx'.created[k].amt >= tx'.consumed[o].amt
    OBVIOUS
  <2>1. PICK ins, first, list : Shape(ins, first, list) /\ Commit(ins, first, list)
    BY NextCommits
  <2> QED BY <2>1, CommitSupply
<1> QED BY <1>1, Invariant, PTL DEF Spec, SupplyNeverFalls

-----------------------------------------------------------------------------
\* Where there is one info cell, it is the one.
LEMMA OnlyInfoCells ==
  ASSUME NEW S, Cardinality(S) = 1, IsFiniteSet(S), NEW x \in S, NEW y \in S
  PROVE  x = y
BY FS_Singleton

\* The sums of a transaction's own instances are those of an uint64_t.
LEMMA CirculatingType ==
  ASSUME NEW family, IsFiniteSet(DOMAIN family), NEW id,
         \A o \in DOMAIN family : family[o] \in Cell
  PROVE  Circulating(family, id) \in Amounts
<1> DEFINE S == OwnInstances(family, id)
           amt == [o \in S |-> family[o].amt]
<1>1. S \in SUBSET DOMAIN family
  BY DEF OwnInstances, OfType
<1>2. IsFiniteSet(S)
  BY <1>1, FS_Subset
<1>3. \A o \in S : family[o].amt \in Nat
  BY <1>1, WidthAssumption DEF Cell, Amounts
<1>4. amt \in [S -> Nat]
  BY <1>3
<1> HIDE DEF amt, S
<1>5. Sum(amt) \in Nat
  BY <1>2, <1>4, SumType
<1>6. Circulating(family, id) = Sum(amt) % U64
  BY DEF Circulating, Total, amt, S
<1> QED BY <1>5, <1>6, WidthAssumption, SMT DEF Amounts

\* Of readable instances of the token's own, and without others or cells of no
\* type, the info cell's script makes no other sum than theirs.
LEMMA InstanceSum ==
  ASSUME NEW family, NEW id, Typeless(family) = {},
         Instances(family, id) = OwnInstances(family, id),
         \A o \in OwnInstances(family, id) : family[o].size = "exact",
         NEW sum \in InstanceAmounts(id, family)
  PROVE  sum = Circulating(family, id)
<1> DEFINE S == OwnInstances(family, id)
           Read(T) == {f \in [T -> Amounts] : \A o \in T : f[o] \in Loaded(family[o])}
<1>1. PICK T \in SUBSET Typeless(family) : \E f \in Read(S \union T) : sum = Sum(f) % U64
  BY DEF InstanceAmounts
<1>2. S \union T = S
  BY <1>1
<1>3. PICK f \in Read(S) : sum = Sum(f) % U64
  BY <1>1, <1>2
<1>4. f = [o \in S |-> f[o]] /\ \A o \in S : f[o] = family[o].amt
  BY <1>3 DEF Loaded
<1>5. f = [o \in S |-> family[o].amt]
  BY <1>4
<1> QED BY <1>3, <1>5 DEF Circulating, Total

\* The token's own instances in a transaction can be read.
LEMMA TxInstances ==
  ASSUME IInv, NEW ins, NEW first, NEW list, Shape(ins, first, list),
         Commit(ins, first, list), NEW id \in Ids
  PROVE  /\ \A o \in OwnInstances(Consumed(ins), id) : Consumed(ins)[o].size = "exact"
         /\ \A k \in OwnInstances(list, id) : list[k].size = "exact"
<1> DEFINE t == UdtOf(id)
<1>1. TypeOK /\ InstancesReadable
  BY DEF IInv
<1>2. /\ DOMAIN Consumed(ins) = ins /\ ins \subseteq DOMAIN cells
      /\ \A o \in ins : Consumed(ins)[o] = cells[o]
      /\ \A k \in DOMAIN list : list[k] \in Cell
  BY <1>1, TxTyped
<1>3. t # NoType /\ t.code = "udt_def"
  BY OwnScripts
<1>4. ASSUME NEW o \in OwnInstances(Consumed(ins), id) PROVE Consumed(ins)[o].size = "exact"
  <2>1. o \in DOMAIN cells /\ Consumed(ins)[o] = cells[o] /\ cells[o].type = t
    BY <1>2 DEF OwnInstances, OfType
  <2> QED BY <1>1, <1>3, <2>1 DEF InstancesReadable, RunsCode
<1>5. ASSUME NEW k \in OwnInstances(list, id) PROVE list[k].size = "exact"
  <2>1. k \in DOMAIN list /\ list[k].type = t
    BY DEF OwnInstances, OfType
  <2> QED BY <1>2, <1>3, <2>1, Verdicts
<1> QED BY <1>4, <1>5

\* With nothing in it that passes for an info cell, a transaction hands on as much
\* of a token as it consumes: udt_def.c compares the sums of every instance.
LEMMA SumsKept ==
  ASSUME NEW ins, NEW first, NEW list, Commit(ins, first, list), NEW id \in Ids, first # id,
         Infos(list, id) = {}
  PROVE  Circulating(list, id) = Circulating(Consumed(ins), id)
<1> DEFINE t == UdtOf(id)
<1>1. t.code = "udt_def" /\ t.id = id /\ t # NoType
  BY OwnScripts
<1>2. CASE t \in Types(Consumed(ins)) \union Types(list)
  <2>1. UdtDefAccepts(t, first, Consumed(ins), list)
    BY <1>1, <1>2 DEF Commit, MayAccept
  <2>2. SumsEqual(t, Consumed(ins), list)
    BY <1>1, <2>1 DEF UdtDefAccepts, InfoFound
  <2> QED BY <2>2 DEF SumsEqual, Circulating, OwnInstances
<1>3. CASE t \notin Types(Consumed(ins)) \union Types(list)
  <2>1. OwnInstances(Consumed(ins), id) = {} /\ OwnInstances(list, id) = {}
    BY <1>1, <1>3 DEF Types, OwnInstances, OfType
  <2>2. [o \in {} |-> Consumed(ins)[o].amt] = [k \in {} |-> list[k].amt]
    OBVIOUS
  <2> QED BY <2>1, <2>2 DEF Circulating, Total
<1> QED BY <1>2, <1>3

\* A transaction that does not create the token, and has nothing forged in it, adds
\* to the supply what it adds to the circulation.
LEMMA CommitMint ==
  ASSUME IInv, NEW ins, NEW first, NEW list, Shape(ins, first, list),
         Commit(ins, first, list), NEW id \in Ids, first # id,
         AllTyped', Readable(id)', ~Forged(id)', Grows(id)' \/ SupplyGrows(id)'
  PROVE  Backed(id)'
<1> DEFINE in_amt == Circulating(Consumed(ins), id)
           out_amt == Circulating(list, id)
<1>1. TypeOK
  BY DEF IInv
<1>2. /\ tx'.consumed = Consumed(ins) /\ tx'.created = list
      /\ DOMAIN Consumed(ins) = ins /\ ins \in SUBSET DOMAIN cells
      /\ \A p \in ins : Consumed(ins)[p] \in Cell
      /\ \A k \in DOMAIN list : list[k] \in Cell
  BY <1>1, TxTyped
<1>3. /\ in_amt \in Amounts /\ out_amt \in Amounts
      /\ IsFiniteSet(InfoCells(Consumed(ins), id)) /\ IsFiniteSet(InfoCells(list, id))
  <2>1. IsFiniteSet(ins)
    BY <1>1, <1>2, FS_Subset DEF TypeOK
  <2>2. DOMAIN list = 1 .. Len(list) /\ Len(list) \in Nat
    BY CellsAssumption DEF Shape
  <2>3. 1 \in Int /\ Len(list) \in Int
    BY <2>2
  <2>4. IsFiniteSet(DOMAIN list)
    BY <2>2, <2>3, FS_Interval
  <2>5. InfoCells(Consumed(ins), id) \in SUBSET ins /\ InfoCells(list, id) \in SUBSET DOMAIN list
    BY <1>2 DEF InfoCells, OfType
  <2>6. IsFiniteSet(InfoCells(Consumed(ins), id)) /\ IsFiniteSet(InfoCells(list, id))
    BY <2>1, <2>4, <2>5, FS_Subset
  <2> QED BY <1>2, <2>1, <2>4, <2>6, CirculatingType
<1>4. /\ Typeless(Consumed(ins)) = {} /\ Typeless(list) = {}
      /\ Instances(Consumed(ins), id) = OwnInstances(Consumed(ins), id)
      /\ Instances(list, id) = OwnInstances(list, id)
      /\ Infos(list, id) # {} => InfoCells(list, id) # {}
  BY <1>2 DEF AllTyped, Forged, FakeInfo, FakeInstance, Sides
<1>5. out_amt > in_amt \/ InfoCells(list, id) # {}
  BY <1>2 DEF Grows, SupplyGrows
<1>6. InfoCells(list, id) # {}
  BY <1>3, <1>4, <1>5, SumsKept, WidthAssumption DEF Amounts
<1>7. PICK o \in InfoCells(Consumed(ins), id), k \in InfoCells(list, id) :
        \E in_supply \in Loaded(Consumed(ins)[o]), out_supply \in Loaded(list[k]),
           in_sum \in InstanceAmounts(id, Consumed(ins)), out_sum \in InstanceAmounts(id, list) :
          SupplyKept(in_supply, out_supply, in_sum, out_sum)
  BY <1>6, InfoUpdate DEF Update
<1>8. Loaded(Consumed(ins)[o]) = {Consumed(ins)[o].amt} /\ Loaded(list[k]) = {list[k].amt}
  BY <1>2, ReadSupplies
<1>9. /\ \A sum \in InstanceAmounts(id, Consumed(ins)) : sum = in_amt
      /\ \A sum \in InstanceAmounts(id, list) : sum = out_amt
  BY <1>4, TxInstances, InstanceSum
<1>10. SupplyKept(Consumed(ins)[o].amt, list[k].amt, in_amt, out_amt)
  BY <1>7, <1>8, <1>9
<1>11. Consumed(ins)[o].amt \in Nat /\ list[k].amt \in Nat
  <2>1. Consumed(ins)[o] \in Cell /\ list[k] \in Cell
    BY <1>2 DEF InfoCells, OfType
  <2> QED BY <2>1, WidthAssumption DEF Cell, Amounts
<1>12. out_amt > in_amt \/ list[k].amt > Consumed(ins)[o].amt
  <2>1. ASSUME SupplyGrows(id)' PROVE list[k].amt > Consumed(ins)[o].amt
    <3>1. PICK p \in InfoCells(Consumed(ins), id), j \in InfoCells(list, id) :
            list[j].amt > Consumed(ins)[p].amt
      BY <1>2, <2>1 DEF SupplyGrows
    <3>2. Cardinality(Leaving(ins, id)) = 1 /\ Cardinality(InfoCells(list, id)) = 1
      BY <1>6, InfoVerdicts
    <3>3. p = o /\ j = k
      BY <1>3, <3>1, <3>2, OnlyInfoCells DEF Leaving
    <3> QED BY <3>1, <3>3
  <2> QED BY <1>2, <2>1 DEF Grows
<1> HIDE DEF in_amt, out_amt
<1>13. out_amt - in_amt = list[k].amt - Consumed(ins)[o].amt
  BY <1>3, <1>10, <1>11, <1>12, WidthAssumption DEF SupplyKept, Amounts
<1> QED BY <1>2, <1>13 DEF Backed, in_amt, out_amt

\* The info cell's script and the instances' script together keep the circulation
\* and the supply in step: after a token's creation both grow, by the same amount,
\* or neither does, where nothing in the transaction is untyped, unreadable or of
\* other code with the token's args.
THEOREM MintsAreBacked == Spec => MintMatchesSupply
<1>1. IInv /\ [Next]_vars =>
        [\A id \in Ids : AllTyped' /\ Readable(id)' /\ (Grows(id)' \/ SupplyGrows(id)')
                           => tx'.first = id \/ Backed(id)' \/ Forged(id)']_vars
  <2> SUFFICES ASSUME IInv, Next, NEW id \in Ids, AllTyped', Readable(id)',
                      Grows(id)' \/ SupplyGrows(id)', tx'.first # id, ~Forged(id)'
               PROVE  Backed(id)'
    OBVIOUS
  <2>1. PICK ins, first, list : Shape(ins, first, list) /\ Commit(ins, first, list)
    BY NextCommits
  <2>2. tx'.first = first
    BY <2>1, TxTyped DEF IInv
  <2> QED BY <2>1, <2>2, CommitMint
<1> QED BY <1>1, Invariant, PTL DEF Spec, MintMatchesSupply

-----------------------------------------------------------------------------
\* A consumed cell of the info script can be read, or its token is created.
LEMMA ConsumedReadable ==
  ASSUME IInv, NEW ins, NEW first, NEW list, Shape(ins, first, list),
         Commit(ins, first, list), NEW o \in ins, RunsCode(cells[o], "udt_info")
  PROVE  cells[o].size # "long"
<1> DEFINE t == cells[o].type
           G == OfType(Consumed(ins), t)
<1>1. TypeOK /\ IdsSpent
  BY DEF IInv
<1>2. /\ DOMAIN Consumed(ins) = ins /\ ins \in SUBSET DOMAIN cells /\ first \in ins
      /\ \A p \in ins : Consumed(ins)[p] = cells[p]
  BY <1>1, TxTyped DEF Shape
<1>3. t \in Types(Consumed(ins)) /\ t.code = "udt_info" /\ o \in G
  BY <1>2 DEF RunsCode, Types, OfType
<1>4. InfoMayAccept(t, first, Consumed(ins), list)
  BY <1>3 DEF Commit, MayAccept
<1>5. first # t.id
  BY <1>1, <1>2 DEF IdsSpent, Spent
<1>6. Cardinality(G) = 1 /\ \E p \in G : Loaded(Consumed(ins)[p]) # {}
  BY <1>4, <1>5 DEF InfoMayAccept, verify_type_id_update
<1>7. G \in SUBSET DOMAIN cells
  BY <1>2 DEF OfType
<1>8. IsFiniteSet(G)
  BY <1>1, <1>7, FS_Subset DEF TypeOK
<1> HIDE DEF G
<1>9. PICK x : G = {x}
  BY <1>6, <1>8, FS_Singleton
<1>10. Loaded(cells[o]) # {}
  BY <1>2, <1>3, <1>6, <1>9
<1> QED BY <1>10 DEF Loaded

\* An info cell whose supply is longer than an uint64_t is never consumed.
THEOREM LongSuppliesStay == Spec => LongSupplyStays
<1>1. IInv /\ [Next]_vars =>
        [\A o \in DOMAIN cells : RunsCode(cells[o], "udt_info") /\ cells[o].size = "long"
                                   => o \in DOMAIN cells']_vars
  <2> SUFFICES ASSUME IInv, Next, NEW o \in DOMAIN cells,
                      RunsCode(cells[o], "udt_info"), cells[o].size = "long"
               PROVE  o \in DOMAIN cells'
    OBVIOUS
  <2>1. PICK ins, first, list : Shape(ins, first, list) /\ Commit(ins, first, list)
    BY NextCommits
  <2>2. DOMAIN cells' = (DOMAIN cells \ ins) \union DOMAIN Created(list)
    BY <2>1, CommitCells DEF IInv, After
  <2>3. o \notin ins
    BY <2>1, ConsumedReadable
  <2> QED BY <2>2, <2>3
<1> QED BY <1>1, Invariant, PTL DEF Spec, LongSupplyStays
=============================================================================
