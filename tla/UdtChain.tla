------------------------------ MODULE UdtChain ------------------------------
(***************************************************************************)
(* Tokens with a supply on a chain of transactions of anybody's making:    *)
(* the info cell script and the instance script of UdtScripts, each asked  *)
(* about every transaction that consumes or creates a cell of it.  Locks   *)
(* and capacities do not matter to the two and are left out.               *)
(***************************************************************************)
EXTENDS UdtScripts

CONSTANTS
  Genesis,      \* the list of cells the chain starts with
  OutputLists,  \* the lists of cells a transaction may create
  MaxInputs,    \* bound on the cells a transaction consumes
  MaxLive       \* bound on the live cells

ASSUME CellsAssumption ==
  /\ Genesis \in Seq(Cell) /\ OutputLists \subseteq Seq(Cell)
  /\ \A k \in DOMAIN Genesis : Genesis[k].type = NoType
ASSUME IdsAssumption == Ids \subseteq Nat \X (Nat \ {0})
ASSUME BoundsAssumption == MaxInputs \in Nat /\ MaxLive \in Nat

VARIABLES
  cells,   \* the live cells, by outpoint
  height,  \* transactions committed so far
  tx       \* the last transaction: its first input, what it consumed and created

vars == <<cells, height, tx>>

Init == /\ cells = [o \in {0} \X DOMAIN Genesis |-> Genesis[o[2]]]
        /\ height = 0
        /\ tx = [first |-> <<0, 0>>, consumed |-> <<>>, created |-> <<>>]

Types(family) == {family[o].type : o \in DOMAIN family} \ {NoType}

Consumed(ins) == [o \in ins |-> cells[o]]
Created(list) == [o \in {height + 1} \X DOMAIN list |-> list[o[2]]]

\* A transaction is committed when every type script in it accepts.
Commit(ins, first, list) ==
  /\ \A t \in Types(Consumed(ins)) \union Types(list) : MayAccept(t, first, Consumed(ins), list)
  /\ cells' = [o \in (DOMAIN cells \ ins) \union DOMAIN Created(list) |->
                 IF o \in DOMAIN Created(list) THEN Created(list)[o] ELSE cells[o]]
  /\ height' = height + 1
  /\ tx' = [first |-> first, consumed |-> Consumed(ins), created |-> list]

Next ==
  \E ins \in SUBSET DOMAIN cells \ {{}}, list \in OutputLists :
    /\ Cardinality(ins) <= MaxInputs
    /\ Cardinality(DOMAIN cells \ ins) + Len(list) <= MaxLive
    /\ \E first \in ins : Commit(ins, first, list)

Spec == Init /\ [][Next]_vars

-----------------------------------------------------------------------------
TypeOK == /\ height \in Nat
          /\ IsFiniteSet(DOMAIN cells)
          /\ DOMAIN cells \subseteq (0 .. height) \X (Nat \ {0})
          /\ \A o \in DOMAIN cells : cells[o] \in Cell

\* An outpoint that has been consumed.
Spent(o) == o[1] <= height /\ o \notin DOMAIN cells

\* The code of a cell's type script, if it has one.
RunsCode(cell, code) == cell.type # NoType /\ cell.type.code = code

\* Nobody can create a token a second time: the id of a live info cell is spent
\* (main() of udt_info_type.c, lines 281-290).
IdsSpent == \A o \in DOMAIN cells : RunsCode(cells[o], "udt_info") => Spent(cells[o].type.id)

\* Every live instance holds a readable amount (verify_udt_data of udt_def.c):
\* the sums of both scripts never contain uninitialised bytes on its account.
InstancesReadable == \A o \in DOMAIN cells : RunsCode(cells[o], "udt_def") => cells[o].size = "exact"

IInv == TypeOK /\ IdsSpent /\ InstancesReadable

-----------------------------------------------------------------------------
\* The instances of a token that are its own, in the sum of an uint64_t.
Circulating(family, id) == Total(family, OwnInstances(family, id)) % U64

\* The info cells of the transaction can be read; all its cells have type scripts.
Sides == {"consumed", "created"}
Readable(id) == \A side \in Sides : \A o \in InfoCells(tx[side], id) : tx[side][o].size = "exact"
AllTyped == \A side \in Sides : Typeless(tx[side]) = {}

\* Somebody's other script has the args of the token: as the only info cell created,
\* or as an instance.
FakeInfo(id) == Infos(tx.created, id) # {} /\ InfoCells(tx.created, id) = {}
FakeInstance(id) == \E side \in Sides : Instances(tx[side], id) # OwnInstances(tx[side], id)
Forged(id) == FakeInfo(id) \/ FakeInstance(id)

\* Tokens come into circulation; an info cell is handed on with a larger supply; the
\* one by as much as the other.
Grows(id) == Circulating(tx.created, id) > Circulating(tx.consumed, id)
SupplyGrows(id) == \E o \in InfoCells(tx.consumed, id), k \in InfoCells(tx.created, id) :
                     tx.created[k].amt > tx.consumed[o].amt
Backed(id) ==
  \E o \in InfoCells(tx.consumed, id), k \in InfoCells(tx.created, id) :
    Circulating(tx.created, id) - Circulating(tx.consumed, id)
      = tx.created[k].amt - tx.consumed[o].amt

\* After the transaction that creates a token, the supply and what circulates grow
\* together, by the same amount, or not at all, unless a cell has no type script, a
\* supply cannot be read or another script has the token's args: neither of the two
\* scripts ensures that alone (lines 329-349, and udt_def.c, 192-199 and 252-258).
MintMatchesSupply ==
  [][\A id \in Ids : AllTyped' /\ Readable(id)' /\ (Grows(id)' \/ SupplyGrows(id)')
                       => tx'.first = id \/ Backed(id)' \/ Forged(id)']_vars

\* A consumed info cell has a successor with no less supply, as long as they can
\* be read: no transaction burns the supply, destroys an info cell, or starts anew
\* with less (ERROR_UNAUTHORIZED_BURN, verify_type_id_update, creation).
SupplyNeverFalls ==
  [][\A id \in Ids : Readable(id)' =>
       \A o \in InfoCells(tx'.consumed, id) :
         \E k \in InfoCells(tx'.created, id) : tx'.created[k].amt >= tx'.consumed[o].amt]_vars

\* The number of info cells of a token is settled by the transaction that creates
\* it: before it there are none, and none is added or lost later (lines 281-294).
InfoSettledOnce ==
  [][\A id \in Ids :
       Cardinality(InfoCells(cells', id)) # Cardinality(InfoCells(cells, id)) =>
         tx'.first = id /\ InfoCells(cells, id) = {}]_vars

\* An info cell whose data is longer than a supply stays where it is: whoever puts
\* such data in it, at creation or in an update, has ended the token's mints (the
\* loads of udt_info_type.c, lines 299-311).
LongSupplyStays ==
  [][\A o \in DOMAIN cells : RunsCode(cells[o], "udt_info") /\ cells[o].size = "long"
                               => o \in DOMAIN cells']_vars

-----------------------------------------------------------------------------
\* The comment on main() of udt_info_type.c, "verify the mint tx as well" (lines
\* 208-209), cells without type script or not.
NoWrap(id) == \A side \in Sides : Total(tx[side], OwnInstances(tx[side], id)) \in Amounts
MintVerified ==
  [][\A id \in Ids : Readable(id)' /\ NoWrap(id)' /\ Grows(id)' /\ ~Forged(id)'
                       => tx'.first = id \/ Backed(id)']_vars

\* The comment on verify_type_id_update, that other scripts detect the correct info
\* cell, "as opposed to a fake one" (lines 41-44): where a token has an info cell,
\* nothing comes into circulation without it.
MintDetectsInfo ==
  [][\A id \in Ids : InfoCells(cells, id) # {} /\ Grows(id)' => InfoCells(tx'.created, id) # {}]_vars
=============================================================================
