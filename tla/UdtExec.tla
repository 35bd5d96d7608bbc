------------------------------ MODULE UdtExec ------------------------------
(***************************************************************************)
(* One run of a script of UdtScripts, main() of c/udt_def.c or of          *)
(* c/udt_info_type.c, loop iteration by loop iteration.  pc is the loop or *)
(* stage at work, side whether it is at the consumed or the created cells, *)
(* i its index, from 0 as in the code: an uint8_t in udt_def.c, so that a  *)
(* loop over too many cells starts again; such a run is stopped by the VM. *)
(***************************************************************************)
EXTENDS UdtScripts

CONSTANT Views  \* the transactions the script is run on

Loads == {"sound", "failing"}
ASSUME ViewsAssumption ==
  \A v \in Views : /\ v.script \in TypeScripts /\ v.script.code # "other" /\ v.loads \in Loads
                   /\ v.consumed \in Seq(Cell) /\ v.created \in Seq(Cell)

VARIABLES
  view,        \* the transaction: its cells in order, its first input, the script run
  pc, side, i,
  laps,        \* 1 when the index of the current loop has started again
  count,       \* in_count, out_count
  supply,      \* in_supply, out_supply
  total,       \* the sums of the instances' amounts
  udt_script,  \* the buffer of get_udt_instance_amount; NoType when not written
  ret          \* the script's return code, "none" while it runs

values == <<count, supply, total>>
vars == <<view, pc, side, i, laps, values, udt_script, ret>>

Stages == {"verify_udt_data", "create_mode", "search", "sum", "verify_type_id_update",
           "supply", "get_udt_instance_amount", "decide", "done"}
Codes == {"none", "SUCCESS", "load_code", "out_of_cycles", "ERROR_ARGUMENTS_LEN", "ERROR_AMOUNT",
          "ERROR_TYPE_ID_VIOLATION", "ERROR_MINT_VALIDATION", "ERROR_UNAUTHORIZED_BURN"}
Both(n) == [in |-> n, out |-> n]

IsUdtDef == view.script.code = "udt_def"

Init ==
  /\ view \in Views
  /\ pc = IF IsUdtDef THEN "verify_udt_data" ELSE "create_mode"
  /\ side = "in" /\ i = 0 /\ laps = 0 /\ ret = "none"
  /\ count = Both(0) /\ supply = Both(0) /\ total = Both(0) /\ udt_script = NoType

-----------------------------------------------------------------------------
Cells(s) == IF s = "in" THEN view.consumed ELSE view.created
OfScript(list, t) ==
  LET Of[n \in 0 .. Len(list)] ==
        IF n = 0 THEN <<>>
        ELSE IF list[n].type = t THEN Append(Of[n - 1], list[n]) ELSE Of[n - 1]
  IN  Of[Len(list)]
Group(s) == OfScript(Cells(s), view.script)
AtEnd(list) == Len(list) < i + 1
InstanceScript == UdtOf(view.script.id)

Return(code) ==
  pc' = "done" /\ ret' = code /\ UNCHANGED <<view, side, i, laps, values, udt_script>>
Enter(stage, s) ==
  /\ pc' = stage /\ side' = s /\ i' = 0 /\ laps' = 0 /\ udt_script' = NoType
  /\ UNCHANGED <<view, ret>>

\* A loop over the consumed cells is followed by the same over the created ones.
EndLoop(next) == IF side = "in" THEN Enter(pc, "out") ELSE Enter(next, "in")

\* Mutants of the increments: one bit short; forgotten.
Increment8_Early == i' = (i + 1) % (U8 - 1) /\ laps' = IF i + 1 >= U8 - 1 THEN 1 ELSE laps
Increment8_Never == UNCHANGED <<i, laps>>

\* i += 1 in an uint8_t, and in wider integers.
Increment8 == i' = (i + 1) % U8 /\ laps' = IF i + 1 = U8 THEN 1 ELSE laps
Increment == i' = i + 1 /\ UNCHANGED laps
Continue == UNCHANGED <<view, pc, side, ret>>

-----------------------------------------------------------------------------
VerifyUdtData ==
  /\ pc = "verify_udt_data"
  /\ \/ AtEnd(Group(side)) /\ EndLoop("create_mode") /\ UNCHANGED values
     \/ /\ ~AtEnd(Group(side))
        /\ LET size == Group(side)[i + 1].size
           IN  \/ size = "exact" /\ Increment8 /\ Continue /\ UNCHANGED <<values, udt_script>>
               \/ size = "short" /\ Return("ERROR_AMOUNT")
               \/ size = "long" /\ Return("load_code")

\* Both scripts: the args have the script's length, and may be the first input's
\* outpoint (udt_def.c 108-151, udt_info_type.c 238-287).
ArgsFit == IF IsUdtDef THEN view.script.args = "instance" ELSE view.script.args \in InfoArgs
CreateMode ==
  /\ pc = "create_mode"
  /\ \/ ~ArgsFit /\ Return("ERROR_ARGUMENTS_LEN")
     \/ ArgsFit /\ view.first = view.script.id /\ Return("SUCCESS")
     \/ /\ ArgsFit /\ view.first # view.script.id
        /\ Enter(IF IsUdtDef THEN "search" ELSE "verify_type_id_update", "in")
        /\ UNCHANGED values

IsInstance(type) == HasArgs(type, "instance", view.script.id)
IsInfo(type) == HasArgs(type, "info", view.script.id)

\* Mutant of Search: an output without type script is passed over.
Search_SkipTypeless ==
  /\ pc = "search"
  /\ \/ AtEnd(view.created) /\ Enter("sum", "in") /\ UNCHANGED values
     \/ /\ ~AtEnd(view.created)
        /\ LET type == view.created[i + 1].type
           IN  \/ IsInfo(type) /\ Return("SUCCESS")
               \/ ~IsInfo(type) /\ Increment8 /\ Continue /\ UNCHANGED <<values, udt_script>>

\* The search for the info cell: found, it ends the script; not found, the sums do.
Search ==
  /\ pc = "search"
  /\ \/ AtEnd(view.created) /\ Enter("sum", "in") /\ UNCHANGED values
     \/ /\ ~AtEnd(view.created)
        /\ LET type == view.created[i + 1].type
           IN  \/ type = NoType /\ Return("load_code")
               \/ IsInfo(type) /\ Return("SUCCESS")
               \/ /\ type # NoType /\ ~IsInfo(type)
                  /\ Increment8 /\ Continue /\ UNCHANGED <<values, udt_script>>

Added_Unbounded(amt) == total[side] + amt   \* mutant: no wrap
Added(amt) == (total[side] + amt) % U64
Add(amt) == total' = [total EXCEPT ![side] = Added(amt)] /\ UNCHANGED <<count, supply>>

\* The sums of the group; the data of its cells has been verified.
SumGroup ==
  /\ pc = "sum"
  /\ \/ AtEnd(Group(side)) /\ EndLoop("decide") /\ UNCHANGED values
     \/ /\ ~AtEnd(Group(side)) /\ Add(Group(side)[i + 1].amt)
        /\ Increment8 /\ Continue /\ UNCHANGED udt_script

-----------------------------------------------------------------------------
\* Every answer of the load but "index out of bound" counts as a cell.
Counted ==
  \/ count[side] + 1 > 1 /\ Return("ERROR_TYPE_ID_VIOLATION")
  \/ /\ count[side] + 1 <= 1 /\ count' = [count EXCEPT ![side] = @ + 1]
     /\ Increment /\ Continue /\ UNCHANGED <<supply, total, udt_script>>

VerifyTypeIdUpdate ==
  /\ pc = "verify_type_id_update"
  /\ \/ ~AtEnd(Group(side)) /\ Counted
     \/ AtEnd(Group(side)) /\ side = "in" /\ EndLoop(pc) /\ UNCHANGED values
     \/ /\ AtEnd(Group(side)) /\ side = "out" /\ count = Both(1)
        /\ EndLoop("supply") /\ UNCHANGED values
     \/ /\ AtEnd(Group(side)) /\ side = "out" /\ count # Both(1)
        /\ Return("ERROR_TYPE_ID_VIOLATION")

\* The supplies, loaded into uninitialised variables.
LoadSupplies ==
  /\ pc = "supply"
  /\ LET Reads(s) == IF Group(s) = <<>> THEN {} ELSE Loaded(Group(s)[1])
     IN  \/ /\ \E in_supply \in Reads("in"), out_supply \in Reads("out") :
                 supply' = [in |-> in_supply, out |-> out_supply]
            /\ Enter("get_udt_instance_amount", "in") /\ UNCHANGED <<count, total>>
         \/ (Reads("in") = {} \/ Reads("out") = {}) /\ Return("load_code")

\* What udt_script holds after the load: the cell's script, or what it held before.
Parsed(cell) ==
  CASE cell.type # NoType -> {cell.type}
    [] cell.type = NoType /\ udt_script = NoType -> {NoType, InstanceScript}
    [] OTHER -> {udt_script}

GetUdtInstanceAmount ==
  /\ pc = "get_udt_instance_amount"
  /\ \/ AtEnd(Cells(side)) /\ EndLoop("decide") /\ UNCHANGED values
     \/ /\ ~AtEnd(Cells(side))
        /\ LET cell == Cells(side)[i + 1]
           IN  \E script \in Parsed(cell) :
                 \/ /\ ~IsInstance(script) /\ udt_script' = script
                    /\ Increment /\ Continue /\ UNCHANGED values
                 \/ /\ IsInstance(script) /\ udt_script' = script
                    /\ \E amt \in Loaded(cell) : Add(amt)
                    /\ Increment /\ Continue
                 \/ IsInstance(script) /\ cell.size = "long" /\ Return("load_code")

\* The ends of the two main(), lines 252-258 and 329-349.
Verdict(in_supply, out_supply, in_amt, out_amt) ==
  CASE IsUdtDef -> IF in_amt = out_amt THEN "SUCCESS" ELSE "ERROR_AMOUNT"
    [] ~IsUdtDef /\ (out_supply > in_supply \/ out_amt > in_amt) ->
         LET diff == IF out_supply > in_supply THEN out_supply - in_supply ELSE 0
         IN  IF out_amt > in_amt /\ out_amt - in_amt = diff
             THEN "SUCCESS" ELSE "ERROR_MINT_VALIDATION"
    [] OTHER -> IF in_supply > out_supply THEN "ERROR_UNAUTHORIZED_BURN" ELSE "SUCCESS"
Decide == pc = "decide" /\ Return(Verdict(supply.in, supply.out, total.in, total.out))

-----------------------------------------------------------------------------
MayFail(v) == v.loads = "failing"

\* A load answers with a code its caller has no case for.
SyscallFails ==
  /\ MayFail(view) /\ pc \notin {"decide", "done"}
  /\ IF pc = "verify_type_id_update" THEN Counted ELSE Return("load_code")

\* The VM ends a run that goes in circles.
OutOfCycles == pc # "done" /\ laps = 1 /\ Return("out_of_cycles")

Next == \/ VerifyUdtData \/ CreateMode \/ Search \/ SumGroup \/ VerifyTypeIdUpdate
        \/ LoadSupplies \/ GetUdtInstanceAmount \/ Decide \/ SyscallFails \/ OutOfCycles

Spec == Init /\ [][Next]_vars /\ WF_vars(Next) /\ WF_vars(OutOfCycles)

-----------------------------------------------------------------------------
TypeOK ==
  /\ view \in Views /\ pc \in Stages /\ side \in {"in", "out"} /\ i \in Nat /\ laps \in 0 .. 1
  /\ count \in [{"in", "out"} -> 0 .. 1]
  /\ supply \in [{"in", "out"} -> Amounts] /\ total \in [{"in", "out"} -> Amounts]
  /\ udt_script \in TypeScripts \union {NoType} /\ ret \in Codes

\* Only a transaction of at least U8 instances of the token, or of U8 outputs
\* with no info cell of it, makes a run go in circles: the verdict on a transfer
\* of up to 255 cells does not depend on the width of the indices.
AtLimit ==
  \/ ~EndsAfter(Len(Group("in"))) \/ ~EndsAfter(Len(Group("out")))
  \/ /\ ~EndsAfter(Len(view.created))
     /\ \A k \in 1 .. U8 : ~IsInfo(view.created[k].type)
CirclesOnlyAtLimit == laps = 1 => IsUdtDef /\ AtLimit

\* A run ends, with an answer of the script or of the VM.
Terminates == <>(ret # "none")

\* The loops compute the decisions of UdtScripts, and a failing load can only
\* turn an acceptance into a refusal.
Decision == INSTANCE ScriptVerdict WITH
  verdict <- CASE ret = "none" -> "running" [] ret = "SUCCESS" -> "accept" [] OTHER -> "reject",
  MayAccept <- LAMBDA v : MayAccept(v.script, v.first, v.consumed, v.created),
  MustAccept <- LAMBDA v : MustAccept(v.script, v.first, v.consumed, v.created)
ImplementsVerdict == Decision!Spec
=============================================================================
