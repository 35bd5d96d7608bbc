---------------------------- MODULE TypeIdChain ----------------------------
(***************************************************************************)
(* Cells with a unique id: the type script c/type_id.c on a chain of       *)
(* transactions of anybody's making.  An id is an outpoint, in the args of *)
(* the script.  A cell with that id may be created by the transaction that *)
(* consumes that outpoint as its first input; after that it may only be    *)
(* handed on.  Locks, capacities and data do not matter to the script and  *)
(* are left out: every transaction the owners could sign is tried.         *)
(***************************************************************************)
EXTENDS Naturals, Sequences, FiniteSets

CONSTANTS
  NoId,         \* "no type script, or another one"
  GenesisSize,  \* number of cells the chain starts with
  MaxInputs,    \* bound on the cells a transaction consumes
  MaxOutputs,   \* bound on the cells a transaction creates
  MaxHeight     \* bound on the number of transactions

Positive == Nat \ {0}
\* A transaction's number, from 0 for the genesis, and the index of its output, from 1.
Outpoints == (0 .. MaxHeight) \X Positive

ASSUME BoundsAssumption ==
  /\ GenesisSize \in Positive /\ MaxInputs \in Positive
  /\ MaxOutputs \in Positive /\ MaxHeight \in Nat
ASSUME NoIdAssumption == NoId \notin Outpoints

\* The ids a transaction may try: every outpoint there is or will be.
Ids == (0 .. MaxHeight) \X (1 .. MaxOutputs)

VARIABLES
  cells,  \* the live cells: outpoint -> its id, or NoId
  height  \* transactions committed so far

vars == <<cells, height>>

Init == cells = [o \in {0} \X (1 .. GenesisSize) |-> NoId] /\ height = 0

-----------------------------------------------------------------------------
\* The cells of the script group of an id, among those consumed, created or live.
Group(family, id) == {o \in DOMAIN family : family[o] = id}

AtMostOne(S) == \A x, y \in S : x = y
ExactlyOne(S) == S # {} /\ AtMostOne(S)

\* Mutant of verify_type_id_creation: the transaction's hash is compared alone.
verify_type_id_creation_HashOnly(id, first) == first[1] = id[1]

\* The id is the outpoint of the transaction's first input.
verify_type_id_creation(id, first) == first = id

\* Mutant of verify_type_id_update: no group input is no error.
verify_type_id_update_AnyInput(id, consumed, created) ==
  AtMostOne(Group(consumed, id)) /\ ExactlyOne(Group(created, id))

\* One cell of the id consumed and one created.
verify_type_id_update(id, consumed, created) ==
  ExactlyOne(Group(consumed, id)) /\ ExactlyOne(Group(created, id))

\* main(): the script accepts a creation, however many cells it creates, and
\* else an update.
Accepts(id, first, consumed, created) ==
  \/ verify_type_id_creation(id, first)
  \/ verify_type_id_update(id, consumed, created)

IdsIn(family) == {family[o] : o \in DOMAIN family} \ {NoId}

\* What a transaction consumes, and creates under outpoints of its own.
Consumed(ins) == [o \in ins |-> cells[o]]
Created(list) == [o \in {height + 1} \X DOMAIN list |-> list[o[2]]]

\* A transaction is committed when every type id script in it accepts.
Commit(ins, first, list) ==
  LET consumed == Consumed(ins)
      created == Created(list)
  IN  /\ \A id \in IdsIn(consumed) \union IdsIn(created) :
           Accepts(id, first, consumed, created)
      /\ cells' = [o \in (DOMAIN cells \ ins) \union DOMAIN created |->
                     IF o \in DOMAIN created THEN created[o] ELSE cells[o]]
      /\ height' = height + 1

\* Consumed cells, one of them first, and the ids of the created ones.
Next ==
  /\ height < MaxHeight
  /\ \E ins \in SUBSET DOMAIN cells \ {{}}, n \in 1 .. MaxOutputs :
       /\ Cardinality(ins) <= MaxInputs
       /\ \E first \in ins, list \in [1 .. n -> Ids \union {NoId}] : Commit(ins, first, list)

Spec == Init /\ [][Next]_vars

-----------------------------------------------------------------------------
TypeOK == /\ height \in 0 .. MaxHeight
          /\ IsFiniteSet(DOMAIN cells) /\ DOMAIN cells \subseteq (0 .. height) \X Positive
          /\ \A o \in DOMAIN cells : cells[o] \in Outpoints \union {NoId}

\* An outpoint that has been consumed.
Spent(o) == o[1] <= height /\ o \notin DOMAIN cells

\* The inductive invariant.  A live cell's id is an outpoint that has been
\* consumed, so that nobody can create a cell with that id any more (main(),
\* lines 144-157: the creation path needs the outpoint as an input).
IInv == TypeOK /\ \A o \in DOMAIN cells : cells[o] # NoId => Spent(cells[o])

\* The number of live cells with an id is settled once and for all by the
\* transaction that consumes the id's outpoint: before it there are none, and
\* after it no transaction adds, merges or destroys any.
Copies(family, id) == Cardinality(Group(family, id))
CopiesSetOnce ==
  [][\A id \in Ids :
       Copies(cells', id) # Copies(cells, id) =>
         /\ id \in DOMAIN cells \ DOMAIN cells'
         /\ Copies(cells, id) = 0]_vars
=============================================================================
