----------------------------- MODULE MCTypeId -----------------------------
(***************************************************************************)
(* Instances of TypeIdChain: two genesis cells, so that one outpoint can   *)
(* be the first input and the other not; transactions of two inputs and    *)
(* two outputs; enough of them to create, hand on, and try to create again.*)
(***************************************************************************)
EXTENDS TypeIdChain

CONSTANT none
=============================================================================
