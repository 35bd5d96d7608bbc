---------------------------- MODULE TokenScripts ----------------------------
(***************************************************************************)
(* The two type scripts of a Reuse Coin transaction, as decisions on it:   *)
(* the token (c/sudt.c) and the plugin that makes a script charge for its  *)
(* use (c/reuse_coin_payment_script.h, run by c/example_reuse.c).  A type  *)
(* script runs once for all the cells, consumed or created, that carry it. *)
(* consumed and created are families of cells, indexed by outpoint.        *)
(***************************************************************************)
EXTENDS Cells, FamilySums

OfType(cells, t) == {o \in DOMAIN cells : cells[o].type = t}

\* The sum of the amounts in the cells at S, before it is cut to an uint128_t.
Total(cells, S) == Sum([o \in S |-> cells[o].amt])

\* verify_all_udt: every cell of the token holds exactly one uint128_t.
UdtDataPasses(t, cells) == \A o \in OfType(cells, t) : cells[o].size = "exact"

\* verify_udt_usage: no more tokens out than in, in sums that wrap.
UsagePasses(t, consumed, created) ==
  Total(created, OfType(created, t)) % U128 <= Total(consumed, OfType(consumed, t)) % U128

\* Whether an input is locked by the governance script named in the token's args.
GovernancePresent(gov, consumed) == LockedBy(consumed, gov) # {}

\* Mutants of SudtAccepts: the outputs' data is not looked at; the governance
\* script is looked for among the outputs.
SudtAccepts_InputDataOnly(t, gov, consumed, created) ==
  /\ UdtDataPasses(t, consumed)
  /\ GovernancePresent(gov, consumed) \/ UsagePasses(t, consumed, created)
SudtAccepts_OutputGovernance(t, gov, consumed, created) ==
  /\ UdtDataPasses(t, consumed) /\ UdtDataPasses(t, created)
  /\ GovernancePresent(gov, created) \/ UsagePasses(t, consumed, created)

SudtAccepts(t, gov, consumed, created) ==
  /\ UdtDataPasses(t, consumed) /\ UdtDataPasses(t, created)
  /\ GovernancePresent(gov, consumed) \/ UsagePasses(t, consumed, created)

\* Mutant of ReuseCoinVerify: only the outputs are counted.
ReuseCoinVerify_OutputOnly(wallet, consumed, created) ==
  ExactlyOne(LockedBy(created, wallet))

\* reuse_coin_verify: one cell consumed and one created under the lock hash in
\* the script's args.  What the cells hold is left to that lock.
ReuseCoinVerify(wallet, consumed, created) ==
  ExactlyOne(LockedBy(consumed, wallet)) /\ ExactlyOne(LockedBy(created, wallet))
=============================================================================
