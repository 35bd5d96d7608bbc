-------------------------------- MODULE MCUdt --------------------------------
(***************************************************************************)
(* One token on a chain that starts with two cells, the first of which is  *)
(* the token's id.  Amounts of two bits; a loop with an uint8_t index      *)
(* handles two cells; lists of two outputs of any kind, and of three that  *)
(* bring an info cell or a loop to its limit.                              *)
(***************************************************************************)
EXTENDS UdtChain

CONSTANT none

Id == <<0, 1>>
TheIds == {Id}

New(type, size, amt) == [type |-> type, size |-> size, amt |-> amt]
Instance(amt) == New(UdtOf(Id), "exact", amt)
Info(amt) == New(InfoOf(Id), "exact", amt)
Plain(amt) == New(none, "exact", amt)

TwoCells == <<Plain(0), Plain(1)>>

\* Scripts of other code with the args of the two, and scripts with wrong args.
LookAlikes == {New(Script("other", "info", Id), "exact", 0), New(Script("other", "instance", Id), "exact", 1)}
Misfits == {New(Script("udt_def", "info", Id), "exact", 0), New(Script("udt_info", "instance", Id), "exact", 0)}

AnyCell == {Instance(amt) : amt \in 1 .. 2} \union {Info(amt) : amt \in 1 .. 2}
           \union {New(UdtOf(Id), "short", 0), New(InfoOf(Id), "short", 0), New(InfoOf(Id), "long", 0),
                   New(Script("udt_info", "unflagged", Id), "exact", 1), Plain(1)}
           \union LookAlikes
AtTheLimit == {Instance(0), Instance(1), Info(1)}
Lists == {t : t \in [1 .. 1 -> AnyCell \union Misfits] \union [1 .. 2 -> AnyCell] \union [1 .. 3 -> AtTheLimit]}

\* Outpoints are only names, but for the token's id, and the rest of the state is
\* history no action reads.
View == <<[c \in {cells[o] : o \in DOMAIN cells} |->
             Cardinality({o \in DOMAIN cells : cells[o] = c})], Ids \intersect DOMAIN cells>>
=============================================================================
