----------------------------- MODULE UdtScripts -----------------------------
(***************************************************************************)
(* The two type scripts of a token with a supply, as decisions on a        *)
(* transaction: the info cell (c/udt_info_type.c), whose data is the       *)
(* supply, and the instances (c/udt_def.c), whose data are amounts.  Both  *)
(* carry the token's id in their args: the outpoint that the transaction   *)
(* creating the token consumes first.  The info cell's args have one byte  *)
(* more, the is_info_cell flag.  A script knows its own cells by the whole *)
(* type script, which is how the VM groups them, and the cells of the      *)
(* other script by their args alone, whatever code runs for them.          *)
(*                                                                         *)
(* consumed and created are families of cells: the inputs by outpoint, the *)
(* outputs by position, as udt_def.c depends on their order.               *)
(***************************************************************************)
EXTENDS Sequences, FiniteSets, FamilySums

CONSTANTS
  Ids,     \* the outpoints tokens are named by
  NoType,  \* "no type script": the VM answers CKB_ITEM_MISSING
  U64,     \* how many values an uint64_t has (2^64; small for TLC)
  U8       \* how many values an uint8_t has (2^8; small for TLC)

ASSUME WidthAssumption == U64 \in Nat \ {0} /\ U8 \in Nat \ {0}

Amounts == 0 .. U64 - 1

\* Length of a cell's data against UDT_AMOUNT_SIZE (8 bytes).
DataSizes == {"short", "exact", "long"}

\* The code a type script names: one of the two, or any other, which may accept.
\* The args of an instance (an id, 36 bytes), of an info cell (37 bytes, the last
\* of them 1), of one whose flag is something else, and args of other lengths.
Programs == {"udt_def", "udt_info", "other"}
Args == {"instance", "info", "unflagged", "unrelated"}
TypeScripts == [code : Programs, args : Args, id : Ids]
ASSUME NoTypeAssumption == NoType \notin TypeScripts
Cell == [type : TypeScripts \union {NoType}, size : DataSizes, amt : Amounts]

Script(code, args, id) == [code |-> code, args |-> args, id |-> id]
UdtOf(id) == Script("udt_def", "instance", id)
InfoOf(id) == Script("udt_info", "info", id)

\* A script's own cells: the group the VM runs it for.
OfType(family, t) == {o \in DOMAIN family : family[o].type = t}
OwnInstances(family, id) == OfType(family, UdtOf(id))
InfoCells(family, id) == OfType(family, InfoOf(id))
Typeless(family) == OfType(family, NoType)

\* What each script takes for a cell of the other: the args are compared, the code
\* is not.
HasArgs(type, args, id) == type # NoType /\ type.args = args /\ type.id = id
Instances(family, id) == {o \in DOMAIN family : HasArgs(family[o].type, "instance", id)}
Infos(family, id) == {o \in DOMAIN family : HasArgs(family[o].type, "info", id)}

\* The sum of the amounts in the cells at S.
Total(family, S) == Sum([o \in S |-> family[o].amt])

\* Mutant of Loaded: of data that is longer, the beginning is taken.
Loaded_Prefix(cell) == IF cell.size = "short" THEN Amounts ELSE {cell.amt}

\* What ckb_checked_load_cell_data puts in an uint64_t: an error when the data is
\* longer, bytes of an uninitialised variable where it is shorter.
Loaded(cell) == CASE cell.size = "exact" -> {cell.amt}
                  [] cell.size = "short" -> Amounts
                  [] OTHER -> {}

-----------------------------------------------------------------------------
\* A loop over cells with an uint8_t index only ends if there are fewer.
EndsAfter(n) == n < U8

\* Mutant of verify_udt_data: the outputs of the group are not looked at.
verify_udt_data_InputsOnly(t, consumed, created) ==
  \A o \in OfType(consumed, t) : consumed[o].size = "exact"

\* Every cell of the group, consumed or created, holds exactly one uint64_t.
verify_udt_data(t, consumed, created) ==
  /\ EndsAfter(Cardinality(OfType(consumed, t)))
  /\ EndsAfter(Cardinality(OfType(created, t)))
  /\ \A o \in OfType(consumed, t) : consumed[o].size = "exact"
  /\ \A k \in OfType(created, t) : created[k].size = "exact"

\* The search for the info cell goes through the outputs in order; one without
\* type script ends it with an error (lines 164-207).
InfoFound(id, created) ==
  \E k \in Infos(created, id) : k <= U8 /\ \A j \in Typeless(created) : k < j
InfoMissed(id, created) ==
  /\ Infos(created, id) = {} /\ Typeless(created) = {}
  /\ EndsAfter(Len(created))

\* The sums of the group, in an uint64_t (lines 213-258).
SumsEqual(t, consumed, created) ==
  Total(consumed, OfType(consumed, t)) % U64 = Total(created, OfType(created, t)) % U64

\* main() of udt_def.c on the group of t.
UdtDefAccepts(t, first, consumed, created) ==
  /\ verify_udt_data(t, consumed, created)
  /\ t.args = "instance"
  /\ \/ first = t.id
     \/ InfoFound(t.id, created)
     \/ InfoMissed(t.id, created) /\ SumsEqual(t, consumed, created)

-----------------------------------------------------------------------------
\* get_udt_instance_amount: the sums it may return.  For a cell without type
\* script the buffer is what an earlier call left in it, so that the cell may
\* pass for an instance (lines 108-141).
InstanceAmounts(id, family) ==
  UNION {{Sum(amt) % U64 :
            amt \in {f \in [S -> Amounts] : \A o \in S : f[o] \in Loaded(family[o])}} :
         S \in {Instances(family, id) \union T : T \in SUBSET Typeless(family)}}

\* Mutants of SupplyKept: a smaller supply is accepted; more may be minted than
\* the supply grows.
SupplyKept_Burn(in_supply, out_supply, in_amt, out_amt) ==
  IF out_supply > in_supply \/ out_amt > in_amt
  THEN /\ out_supply >= in_supply /\ out_amt > in_amt
       /\ out_amt - in_amt = out_supply - in_supply
  ELSE TRUE
SupplyKept_AnyMint(in_supply, out_supply, in_amt, out_amt) ==
  IF out_supply > in_supply \/ out_amt > in_amt THEN out_amt > in_amt
  ELSE in_supply = out_supply

\* What the supply and the amounts must be to each other (lines 329-349): a mint
\* adds the same to both; without one the supply is not to shrink.
SupplyKept(in_supply, out_supply, in_amt, out_amt) ==
  IF out_supply > in_supply \/ out_amt > in_amt
  THEN /\ out_supply >= in_supply /\ out_amt > in_amt
       /\ out_amt - in_amt = out_supply - in_supply
  ELSE in_supply = out_supply

\* Mutant of verify_type_id_update: a second info cell in the outputs is no error.
verify_type_id_update_AnyOutput(t, consumed, created) ==
  Cardinality(OfType(consumed, t)) = 1 /\ Cardinality(OfType(created, t)) >= 1

verify_type_id_update(t, consumed, created) ==
  Cardinality(OfType(consumed, t)) = 1 /\ Cardinality(OfType(created, t)) = 1

\* main() of udt_info_type.c on the group of t: may it accept?  The args are one
\* byte longer than an id, whatever the flag; a creation is accepted as it is, and
\* verify_data() is not called by anybody.
InfoArgs == {"info", "unflagged"}
InfoMayAccept(t, first, consumed, created) ==
  /\ t.args \in InfoArgs
  /\ \/ first = t.id
     \/ /\ verify_type_id_update(t, consumed, created)
        /\ \E o \in OfType(consumed, t), k \in OfType(created, t) :
             \E in_supply \in Loaded(consumed[o]), out_supply \in Loaded(created[k]),
                in_amt \in InstanceAmounts(t.id, consumed), out_amt \in InstanceAmounts(t.id, created) :
               SupplyKept(in_supply, out_supply, in_amt, out_amt)

\* Must it accept?  Not where it parses, or reads, bytes nobody wrote.
InfoMustAccept(t, first, consumed, created) ==
  /\ InfoMayAccept(t, first, consumed, created)
  /\ \/ first = t.id
     \/ /\ Typeless(consumed) = {} /\ Typeless(created) = {}
        /\ \A o \in OfType(consumed, t) \union Instances(consumed, t.id) : consumed[o].size = "exact"
        /\ \A k \in OfType(created, t) \union Instances(created, t.id) : created[k].size = "exact"

\* The verdict of a type script.  Of other code nothing is known.
MayAccept(t, first, consumed, created) ==
  CASE t.code = "udt_def" -> UdtDefAccepts(t, first, consumed, created)
    [] t.code = "udt_info" -> InfoMayAccept(t, first, consumed, created)
    [] OTHER -> TRUE
MustAccept(t, first, consumed, created) ==
  CASE t.code = "udt_def" -> UdtDefAccepts(t, first, consumed, created)
    [] t.code = "udt_info" -> InfoMustAccept(t, first, consumed, created)
    [] OTHER -> FALSE
=============================================================================
