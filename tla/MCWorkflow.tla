----------------------------- MODULE MCWorkflow -----------------------------
(***************************************************************************)
(* Instances of Workflow: the first key starts with three cells, of which  *)
(* two are enough for the whole run, the second key with one.  Amounts are *)
(* of three bytes, all that the workflow's fit in.                         *)
(***************************************************************************)
EXTENDS Workflow

CONSTANT none

MCLockHashes == {lock1, lock2, wallet}
MCTypeHashes == {token, use}
Coins(lock, capacity) ==
  [lock |-> lock, type |-> none, size |-> "short", amt |-> 0, capacity |-> capacity, code |-> "none"]
MCGenesis == <<Coins(lock1, 60000), Coins(lock1, 9000), Coins(lock1, 1000), Coins(lock2, 5000)>>
=============================================================================
