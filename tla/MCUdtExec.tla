----------------------------- MODULE MCUdtExec -----------------------------
(***************************************************************************)
(* Instances of UdtExec: transactions of up to three consumed and three    *)
(* created cells, in any order, and loops whose index starts again at the  *)
(* third; amounts of two bits.                                             *)
(***************************************************************************)
EXTENDS UdtExec, SequencesExt

CONSTANT none

Id == <<0, 1>>
Elsewhere == <<0, 2>>
TheIds == {Id}
New(type, size, amt) == [type |-> type, size |-> size, amt |-> amt]
Instance(size, amt) == New(UdtOf(Id), size, amt)
Info(size, amt) == New(InfoOf(Id), size, amt)
ViewsOf(script, firsts, ins, outs) ==
  [script : {script}, first : firsts, consumed : ins, created : outs, loads : Loads]

\* Scripts of other code with the args of the two.
FakeInfo == New(Script("other", "info", Id), "exact", 1)
FakeInstance(size) == New(Script("other", "instance", Id), size, 1)

\* The instances' script: groups at the limit and below, every output list.
Given == {Instance("exact", 1), Instance("exact", 3), Info("exact", 1)}
Made == Given \union {Instance("short", 0), Instance("long", 0), FakeInfo,
                      New(Script("udt_info", "unflagged", Id), "exact", 1), New(none, "exact", 1)}
UdtDefViews == ViewsOf(UdtOf(Id), {Id, Elsewhere}, BoundedSeq(Given, 2), BoundedSeq(Made, 3))
               \union ViewsOf(UdtOf(Id), {Elsewhere}, [1 .. 3 -> Given], BoundedSeq(Given, 2))

\* The info cell's script: supplies and amounts on both sides of a mint, cells that
\* cannot be read, cells without type script before and after instances.
Some == {Info("exact", 1), Info("exact", 2), Instance("exact", 1), New(none, "exact", 1)}
Odd == {Info("short", 0), Info("long", 0), Instance("exact", 3), Instance("short", 0),
        Instance("long", 0), New(none, "long", 0), FakeInfo, FakeInstance("exact"), FakeInstance("long")}
InfoViews == ViewsOf(InfoOf(Id), {Id, Elsewhere}, BoundedSeq(Some \union Odd, 2), BoundedSeq(Some, 2))
             \union ViewsOf(InfoOf(Id), {Elsewhere}, BoundedSeq(Some, 2), BoundedSeq(Some \union Odd, 2))
             \union ViewsOf(InfoOf(Id), {Elsewhere}, BoundedSeq(Some, 2), [1 .. 3 -> Some])

\* Scripts with args of another length, or with another flag.
OddScripts == [code : {"udt_def", "udt_info"}, args : Args, id : TheIds] \ {UdtOf(Id), InfoOf(Id)}
OddViews == UNION {ViewsOf(s, {Id, Elsewhere}, BoundedSeq({New(s, "exact", 1), Instance("exact", 1)}, 2),
                           BoundedSeq({New(s, "exact", 2), Instance("exact", 2)}, 2)) : s \in OddScripts}

MCViews == UdtDefViews \union InfoViews \union OddViews
=============================================================================
