------------------------- MODULE TypeIdChain_proofs -------------------------
(***************************************************************************)
(* For chains, transactions and numbers of cells of any size: the id of a  *)
(* live cell is a consumed outpoint, and the number of cells with an id is *)
(* settled by one transaction.                                             *)
(***************************************************************************)
EXTENDS TypeIdChain, FiniteSetTheorems, TLAPS

\* What the transactions of Next look like.
Shape(ins, first, n, list) ==
  /\ height < MaxHeight
  /\ ins \in SUBSET DOMAIN cells /\ first \in ins
  /\ n \in 1 .. MaxOutputs /\ list \in [1 .. n -> Ids \union {NoId}]

\* The cells a transaction leaves behind.
After(ins, n, list) ==
  /\ height \in Nat /\ height' = height + 1 /\ height' \in 0 .. MaxHeight
  /\ DOMAIN Created(list) = {height + 1} \X (1 .. n) /\ n \in Nat
  /\ \A o \in DOMAIN Created(list) : Created(list)[o] \in Ids \union {NoId}
  /\ DOMAIN Created(list) \cap DOMAIN cells = {}
  /\ DOMAIN cells' = (DOMAIN cells \ ins) \union DOMAIN Created(list)
  /\ \A o \in DOMAIN cells \ ins : cells'[o] = cells[o]
  /\ \A o \in DOMAIN Created(list) : cells'[o] = Created(list)[o] /\ o[1] = height + 1

LEMMA CommitCells ==
  ASSUME TypeOK, NEW ins, NEW first, NEW n, NEW list, Shape(ins, first, n, list),
         Commit(ins, first, list)
  PROVE  After(ins, n, list)
<1>1. /\ DOMAIN list = 1 .. n /\ n \in Nat /\ height \in Nat /\ MaxHeight \in Nat
      /\ height < MaxHeight /\ height' = height + 1
  BY BoundsAssumption DEF TypeOK, Shape, Commit
<1>2. \A o \in DOMAIN cells : o[1] \in Nat /\ o[1] <= height
  BY <1>1 DEF TypeOK
<1>3. /\ DOMAIN Created(list) = {height + 1} \X (1 .. n)
      /\ \A o \in DOMAIN Created(list) : o[1] = height + 1 /\ Created(list)[o] = list[o[2]]
  BY <1>1 DEF Created
<1>4. \A o \in DOMAIN Created(list) : Created(list)[o] \in Ids \union {NoId}
  BY <1>1, <1>3 DEF Shape
<1>5. DOMAIN Created(list) \cap DOMAIN cells = {}
  BY <1>1, <1>2, <1>3
<1>6. cells' = [o \in (DOMAIN cells \ ins) \union DOMAIN Created(list) |->
                  IF o \in DOMAIN Created(list) THEN Created(list)[o] ELSE cells[o]]
  BY DEF Commit
<1>7. /\ DOMAIN cells' = (DOMAIN cells \ ins) \union DOMAIN Created(list)
      /\ \A o \in DOMAIN cells \ ins : cells'[o] = cells[o]
      /\ \A o \in DOMAIN Created(list) : cells'[o] = Created(list)[o]
  BY <1>5, <1>6
<1>8. height' \in 0 .. MaxHeight
  BY <1>1
<1> QED BY <1>1, <1>3, <1>4, <1>5, <1>7, <1>8 DEF After

\* Group by group: what leaves and what joins the live cells of an id.
LEMMA GroupAfter ==
  ASSUME TypeOK, NEW ins, NEW first, NEW n, NEW list, Shape(ins, first, n, list),
         Commit(ins, first, list), NEW id
  PROVE  /\ Group(cells', id) =
              (Group(cells, id) \ Group(Consumed(ins), id)) \union Group(Created(list), id)
         /\ Group(Consumed(ins), id) \subseteq Group(cells, id)
         /\ Group(Created(list), id) \cap Group(cells, id) = {}
<1>0. After(ins, n, list)
  BY CommitCells
<1>1. /\ DOMAIN Created(list) \cap DOMAIN cells = {}
      /\ DOMAIN cells' = (DOMAIN cells \ ins) \union DOMAIN Created(list)
      /\ \A o \in DOMAIN cells \ ins : cells'[o] = cells[o]
      /\ \A o \in DOMAIN Created(list) : cells'[o] = Created(list)[o]
  BY <1>0 DEF After
<1>2. ins \subseteq DOMAIN cells
  BY DEF Shape
<1>3. Group(Consumed(ins), id) = Group(cells, id) \cap ins
  BY <1>2 DEF Group, Consumed
<1> QED BY <1>1, <1>2, <1>3 DEF Group

\* The script's verdict on one id, by groups: a creation, an update, or nothing.
LEMMA Verdicts ==
  ASSUME NEW ins, NEW first, NEW list, Commit(ins, first, list), NEW id, id # NoId
  PROVE  \/ first = id
         \/ /\ ExactlyOne(Group(Consumed(ins), id))
            /\ ExactlyOne(Group(Created(list), id))
         \/ Group(Consumed(ins), id) = {} /\ Group(Created(list), id) = {}
<1>1. CASE id \in IdsIn(Consumed(ins)) \union IdsIn(Created(list))
  BY <1>1 DEF Commit, Accepts, verify_type_id_creation, verify_type_id_update
<1>2. CASE id \notin IdsIn(Consumed(ins)) \union IdsIn(Created(list))
  BY <1>2 DEF Group, IdsIn
<1> QED BY <1>1, <1>2

\* Well-typed chains stay so.
LEMMA CommitTyped ==
  ASSUME TypeOK, NEW ins, NEW first, NEW n, NEW list, Shape(ins, first, n, list),
         Commit(ins, first, list)
  PROVE  TypeOK'
<1> DEFINE D == DOMAIN Created(list)
<1>0. After(ins, n, list)
  BY CommitCells
<1>1. /\ height \in Nat /\ height' = height + 1 /\ height' \in 0 .. MaxHeight
      /\ D = {height + 1} \X (1 .. n) /\ n \in Nat
      /\ \A o \in D : Created(list)[o] \in Ids \union {NoId}
      /\ DOMAIN cells' = (DOMAIN cells \ ins) \union D
      /\ \A o \in DOMAIN cells \ ins : cells'[o] = cells[o]
      /\ \A o \in D : cells'[o] = Created(list)[o]
  BY <1>0 DEF After
<1>2. IsFiniteSet(D)
  <2>1. IsFiniteSet({height + 1}) /\ IsFiniteSet(1 .. n)
    <3>1. 1 \in Int /\ n \in Int
      BY <1>1
    <3> QED BY <3>1, FS_Interval, FS_Singleton
  <2>2. IsFiniteSet({height + 1} \X (1 .. n))
    BY <2>1, FS_Product
  <2> QED BY <1>1, <2>2
<1>3. IsFiniteSet(DOMAIN cells \ ins)
  <2>1. DOMAIN cells \ ins \in SUBSET DOMAIN cells /\ IsFiniteSet(DOMAIN cells)
    BY DEF TypeOK
  <2> QED BY <2>1, FS_Subset
<1>4. IsFiniteSet(DOMAIN cells')
  <2> HIDE DEF D
  <2>1. IsFiniteSet((DOMAIN cells \ ins) \union D)
    BY <1>2, <1>3, FS_Union
  <2> QED BY <1>1, <2>1
<1>5. DOMAIN cells' \subseteq (0 .. height') \X Positive
  <2>1. D \subseteq (0 .. height') \X Positive
    BY <1>1 DEF Positive
  <2>2. 0 .. height \subseteq 0 .. height'
    BY <1>1
  <2>3. DOMAIN cells \subseteq (0 .. height') \X Positive
    BY <2>2 DEF TypeOK
  <2> QED BY <1>1, <2>1, <2>3
<1>6. \A o \in DOMAIN cells' : cells'[o] \in Outpoints \union {NoId}
  <2>1. Ids \subseteq Outpoints
    BY BoundsAssumption DEF Ids, Outpoints, Positive
  <2> HIDE DEF D
  <2> QED BY <1>1, <2>1 DEF TypeOK
<1> QED BY <1>1, <1>4, <1>5, <1>6 DEF TypeOK

\* A transaction keeps the ids of live cells on consumed outpoints.
LEMMA CommitInv ==
  ASSUME IInv, NEW ins, NEW first, NEW n, NEW list, Shape(ins, first, n, list),
         Commit(ins, first, list)
  PROVE  IInv'
<1> DEFINE D == DOMAIN Created(list)
           SpentNext(o) == o[1] <= height' /\ o \notin DOMAIN cells'
<1>1. TypeOK /\ \A o \in DOMAIN cells : cells[o] # NoId => Spent(cells[o])
  BY DEF IInv
<1>0. After(ins, n, list)
  BY <1>1, CommitCells
<1>2. /\ height \in Nat /\ height' = height + 1
      /\ D \cap DOMAIN cells = {}
      /\ DOMAIN cells' = (DOMAIN cells \ ins) \union D
      /\ \A o \in DOMAIN cells \ ins : cells'[o] = cells[o]
      /\ \A o \in D : cells'[o] = Created(list)[o] /\ o[1] = height + 1
      /\ \A o \in D : Created(list)[o] \in Ids \union {NoId}
  BY <1>0 DEF After
<1> HIDE DEF D
<1>3. ASSUME NEW id \in Outpoints, Spent(id) PROVE SpentNext(id)
  <2>1. id[1] \in Nat /\ id[1] <= height /\ id \notin DOMAIN cells
    BY <1>3 DEF Spent, Outpoints
  <2>2. id \notin D
    BY <1>2, <2>1
  <2> QED BY <1>2, <2>1, <2>2
<1>4. SpentNext(first)
  <2>1. first \in ins /\ first \in DOMAIN cells
    BY DEF Shape
  <2>2. first[1] \in Nat /\ first[1] <= height
    BY <1>1, <1>2, <2>1 DEF TypeOK
  <2> QED BY <1>2, <2>1, <2>2
<1>5. ASSUME NEW o \in DOMAIN cells', cells'[o] # NoId PROVE SpentNext(cells'[o])
  <2>1. CASE o \in DOMAIN cells \ ins
    <3>1. cells'[o] = cells[o] /\ cells[o] \in Outpoints /\ Spent(cells[o])
      BY <1>1, <1>2, <1>5, <2>1 DEF TypeOK
    <3> QED BY <1>3, <3>1
  <2>2. CASE o \in D
    <3> DEFINE id == Created(list)[o]
    <3>1. cells'[o] = id /\ id # NoId /\ o \in Group(Created(list), id)
      BY <1>2, <1>5, <2>2 DEF Group, D
    <3> HIDE DEF id
    <3>2. CASE ExactlyOne(Group(Consumed(ins), id))
      <4>1. PICK p \in ins : cells[p] = id
        BY <3>2 DEF ExactlyOne, Group, Consumed
      <4>2. p \in DOMAIN cells
        BY <4>1 DEF Shape
      <4>3. Spent(id) /\ id \in Outpoints
        BY <1>1, <3>1, <4>1, <4>2 DEF TypeOK
      <4> QED BY <1>3, <3>1, <4>3
    <3>3. CASE first = id
      BY <1>4, <3>1, <3>3
    <3> QED BY <3>1, <3>2, <3>3, Verdicts
  <2> QED BY <1>2, <2>1, <2>2
<1>6. TypeOK'
  BY <1>1, CommitTyped
<1>7. \A o \in DOMAIN cells' : cells'[o] # NoId => Spent(cells[o])'
  BY <1>5 DEF Spent
<1> QED BY <1>6, <1>7 DEF IInv

-----------------------------------------------------------------------------
\* A transaction of Next has the shape above and is committed.
LEMMA NextCommits ==
  ASSUME Next
  PROVE  \E ins, first, n, list : Shape(ins, first, n, list) /\ Commit(ins, first, list)
BY DEF Next, Shape

\* Init, and every transaction, give a chain that satisfies the invariant.
LEMMA InitInv == Init => IInv
<1> SUFFICES ASSUME Init PROVE IInv
  OBVIOUS
<1>1. /\ DOMAIN cells = {0} \X (1 .. GenesisSize) /\ height = 0
      /\ \A o \in DOMAIN cells : cells[o] = NoId
  BY DEF Init
<1>2. GenesisSize \in Int /\ 1 \in Int /\ MaxHeight \in Nat
  BY BoundsAssumption DEF Positive
<1>3. IsFiniteSet({0}) /\ IsFiniteSet(1 .. GenesisSize)
  BY <1>2, FS_Singleton, FS_Interval
<1>4. IsFiniteSet(DOMAIN cells)
  <2>1. IsFiniteSet({0} \X (1 .. GenesisSize))
    BY <1>3, FS_Product
  <2> QED BY <1>1, <2>1
<1>5. DOMAIN cells \subseteq (0 .. height) \X Positive
  BY <1>1, <1>2 DEF Positive
<1> QED BY <1>1, <1>2, <1>4, <1>5 DEF IInv, TypeOK

LEMMA InductiveStep == IInv /\ [Next]_vars => IInv'
<1> SUFFICES ASSUME IInv, [Next]_vars PROVE IInv'
  OBVIOUS
<1>1. CASE Next
  <2>1. PICK ins, first, n, list : Shape(ins, first, n, list) /\ Commit(ins, first, list)
    BY <1>1, NextCommits
  <2> QED BY <2>1, CommitInv
<1>2. CASE UNCHANGED vars
  BY <1>2 DEF vars, IInv, TypeOK, Spent
<1> QED BY <1>1, <1>2

\* A live cell's id is a consumed outpoint, whatever transactions were made
\* (main() of type_id.c and the two checks it tries).
THEOREM Invariant == Spec => []IInv
<1>1. Init => IInv
  BY InitInv
<1>2. IInv /\ [Next]_vars => IInv'
  BY InductiveStep
<1> QED BY <1>1, <1>2, PTL DEF Spec

\* A transaction that replaces one member of a finite set by a new one.
LEMMA Exchange ==
  ASSUME NEW G, IsFiniteSet(G), NEW old, NEW new, ExactlyOne(old), ExactlyOne(new),
         old \subseteq G, new \cap G = {}
  PROVE  Cardinality((G \ old) \union new) = Cardinality(G)
<1>1. PICK x \in G : old = {x}
  BY DEF ExactlyOne, AtMostOne
<1>2. PICK y : new = {y} /\ y \notin G
  BY DEF ExactlyOne, AtMostOne
<1>3. IsFiniteSet(G \ {x}) /\ Cardinality(G \ {x}) = Cardinality(G) - 1
  BY FS_RemoveElement
<1>4. Cardinality((G \ {x}) \union {y}) = Cardinality(G \ {x}) + 1
  BY <1>2, <1>3, FS_AddElement
<1>5. Cardinality(G) \in Nat
  BY FS_CardinalityType
<1> QED BY <1>1, <1>2, <1>3, <1>4, <1>5

\* A transaction changes the number of cells of an id only by consuming the
\* outpoint the id is, and then there was none.
LEMMA CommitCopies ==
  ASSUME IInv, NEW ins, NEW first, NEW n, NEW list, Shape(ins, first, n, list),
         Commit(ins, first, list), NEW id \in Ids
  PROVE  \/ Copies(cells', id) = Copies(cells, id)
         \/ id \in DOMAIN cells \ DOMAIN cells' /\ Copies(cells, id) = 0
<1>1. /\ TypeOK /\ id # NoId
      /\ \A o \in DOMAIN cells : cells[o] # NoId => Spent(cells[o])
  BY BoundsAssumption, NoIdAssumption DEF IInv, Ids, Outpoints, Positive
<1>2. /\ Group(cells', id) =
           (Group(cells, id) \ Group(Consumed(ins), id)) \union Group(Created(list), id)
      /\ Group(Consumed(ins), id) \subseteq Group(cells, id)
      /\ Group(Created(list), id) \cap Group(cells, id) = {}
  BY <1>1, GroupAfter
<1>3. After(ins, n, list)
  BY <1>1, CommitCells
<1>4. CASE first = id
  <2>1. id \in ins /\ id \in DOMAIN cells
    BY <1>4 DEF Shape
  <2>2. id \notin DOMAIN cells'
    BY <1>3, <2>1 DEF After
  <2>3. Group(cells, id) = {}
    BY <1>1, <2>1 DEF Group, Spent
  <2>4. Copies(cells, id) = 0
    BY <2>3, FS_EmptySet DEF Copies
  <2> QED BY <2>1, <2>2, <2>4
<1>5. CASE /\ ExactlyOne(Group(Consumed(ins), id))
           /\ ExactlyOne(Group(Created(list), id))
  <2>1. Group(cells, id) \in SUBSET DOMAIN cells /\ IsFiniteSet(DOMAIN cells)
    BY <1>1 DEF Group, TypeOK
  <2>2. IsFiniteSet(Group(cells, id))
    BY <2>1, FS_Subset
  <2> QED BY <1>2, <1>5, <2>2, Exchange DEF Copies
<1>6. CASE Group(Consumed(ins), id) = {} /\ Group(Created(list), id) = {}
  <2>1. Group(cells', id) = Group(cells, id)
    BY <1>2, <1>6
  <2> QED BY <2>1 DEF Copies
<1> QED BY <1>1, <1>4, <1>5, <1>6, Verdicts

\* The number of live cells of an id is settled by the transaction that consumes
\* the outpoint it is (verify_type_id_creation), and no other changes it.
THEOREM CopiesSettled == Spec => CopiesSetOnce
<1>1. IInv /\ [Next]_vars =>
        [\A id \in Ids :
           Copies(cells', id) # Copies(cells, id) =>
             /\ id \in DOMAIN cells \ DOMAIN cells'
             /\ Copies(cells, id) = 0]_vars
  <2> SUFFICES ASSUME IInv, Next, NEW id \in Ids, Copies(cells', id) # Copies(cells, id)
               PROVE  id \in DOMAIN cells \ DOMAIN cells' /\ Copies(cells, id) = 0
    OBVIOUS
  <2>1. PICK ins, first, n, list : Shape(ins, first, n, list) /\ Commit(ins, first, list)
    BY NextCommits
  <2> QED BY <2>1, CommitCopies
<1> QED BY <1>1, Invariant, PTL DEF Spec, CopiesSetOnce
=============================================================================
