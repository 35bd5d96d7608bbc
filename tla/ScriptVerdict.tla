---------------------------- MODULE ScriptVerdict ----------------------------
(***************************************************************************)
(* What a lock or type script promises the chain, with no stages, loops or *)
(* indices: a transaction is looked at once and gets one verdict.  It is   *)
(* accepted only if it may be, and refused only if it need not be accepted *)
(* or the machine failed the script.  The two predicates are apart where   *)
(* the script reads memory it did not write.  That a verdict is given in   *)
(* the end is for the runs to say, each for its own loops.                 *)
(***************************************************************************)
CONSTANTS Views, MayFail(_), MayAccept(_), MustAccept(_)
VARIABLES view, verdict

vvars == <<view, verdict>>

Init == view \in Views /\ verdict = "running"

Accept == /\ verdict = "running" /\ MayAccept(view)
          /\ verdict' = "accept" /\ UNCHANGED view
Reject == /\ verdict = "running" /\ (MayFail(view) \/ ~MustAccept(view))
          /\ verdict' = "reject" /\ UNCHANGED view

Next == Accept \/ Reject
Spec == Init /\ [][Next]_vvars
=============================================================================
