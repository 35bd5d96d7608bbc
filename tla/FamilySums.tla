----------------------------- MODULE FamilySums -----------------------------
(***************************************************************************)
(* Sums over families of numbers: amounts and capacities of cells, by      *)
(* outpoint or position, which the scripts add up one after the other.     *)
(***************************************************************************)
EXTENDS Integers, FiniteSetsExt

\* The sum of the values of a function.
Sum(f) == MapThenSumSet(LAMBDA o : f[o], DOMAIN f)
=============================================================================
