------------------------------ MODULE MCWallet ------------------------------
(***************************************************************************)
(* Instances of WalletLockExec.  The views are three slices through the    *)
(* script's inputs: the dep cells (in both modes), the witness and the     *)
(* amounts, and the shape of the consumed and created cells.               *)
(***************************************************************************)
EXTENDS WalletLockExec, SequencesExt

CONSTANTS wallet, other, token, otherToken, none

MCLockHashes == {wallet, other}
MCTypeHashes == {token, otherToken}

ArgsOf(lens, udt_rate) ==
  {[len |-> len, ckb_rate |-> 2, udt_rate |-> udt_rate, token_type |-> token,
    reusable_script_type_hash |-> otherToken] : len \in lens}
CellsOf(locks, types, sizes, amts, caps) ==
  [lock : locks, type : types, size : sizes, amt : amts, capacity : caps]
WalletCells(amts, caps) == CellsOf({wallet}, {token}, {"exact"}, amts, caps)
OneOf(S) == [{1} -> S]   \* the lists of one cell of S
MCTypes == {token, otherToken, none}

\* Up to three dep cells, of the wallet or not, in both modes.
DepViews(loads) ==
  [lock_hash : {wallet}, args : ArgsOf({76, 108}, 1), group : OneOf(WalletCells({0}, {0})),
   outputs : OneOf(WalletCells({1}, {0})),
   deps : BoundedSeq(CellsOf({wallet, other}, MCTypes, {"exact"}, {0}, {0}), 3),
   witness : {"absent", "owner_sig"}, loads : loads]

\* Amounts and capacities at the rates and on both sides of them, every witness.
AmountViews(lens, witnesses, loads) ==
  [lock_hash : {wallet}, args : ArgsOf(lens, 2), group : OneOf(WalletCells({0, 1, 3}, {0, 1})),
   outputs : OneOf(CellsOf({wallet}, {token}, {"exact", "short"}, 0 .. 3, 0 .. 3)),
   deps : {<<>>}, witness : witnesses, loads : loads]

\* None, one or two consumed (created) cells of every type and size.
GroupViews ==
  [lock_hash : {wallet}, args : ArgsOf({76}, 1),
   group : BoundedSeq(CellsOf({wallet}, MCTypes, DataSizes, {1}, {0}), 2),
   outputs : OneOf(WalletCells({2}, {0})), deps : {<<>>}, witness : {"absent"}, loads : {"sound"}]
OutputViews(loads) ==
  [lock_hash : {wallet}, args : ArgsOf({76}, 1), group : OneOf(WalletCells({1}, {0})),
   outputs : BoundedSeq(CellsOf({wallet, other}, MCTypes, {"exact", "short"}, {2}, {0}), 2),
   deps : {<<>>}, witness : {"absent", "owner_sig"}, loads : loads]

MCViews == DepViews(Loads) \union GroupViews \union OutputViews(Loads)
           \union AmountViews({75, 76, 90, 108, 109}, Witnesses, {"sound"})
           \union AmountViews({76, 108}, {"absent", "owner_sig", "other_sig"}, {"failing"})
=============================================================================
