# ReuseCoin: TLA+ models and proofs

ReuseCoin lets the author of a CKB script charge for its use. Its rules are small C programs that the CKB
VM runs on a transaction before the chain accepts it. Each program sees one transaction and says yes or
no; what a developer is promised ("every use of my script pays my wallet") follows from no single
program, only from several of them over a sequence of transactions nobody controls. These modules model
the programs, the chain they run on and the promise, check them with TLC and prove the main ones with TLAPS.

Paths below are relative to `src/verifier/ckb-scripts/c/` unless they start with `src/`.

## The system

| component | source | state it keeps | operations | modelled by |
|---|---|---|---|---|
| developer wallet lock | `reuse_coin_wallet.c`, `common.h` | none between runs; in a run: loop indices, counts, the fee, the balances before and after | `main` → `has_signature`, `check_deps`, `check_inputs`, `check_outputs`, the decision | `WalletLock`, `WalletLockExec` |
| payment plugin | `reuse_coin_payment_script.h`, `example_reuse.c` | none | `reuse_coin_verify` | `TokenScripts` |
| sudt token | `sudt.c` | none; amounts live in cells | `main` → `verify_all_udt`, `verify_udt_usage` | `TokenScripts` |
| secp256k1 lock | `secp256k1_lock.h`, `common.h` | in a run: the digest so far, the bracket of the search | `verify_secp256k1_blake160_sighash_all`, `calculate_inputs_len` | `SighashAll` |
| type id | `type_id.c` | none; the id is in a cell's type script | `main` → `verify_type_id_creation`, `verify_type_id_update` | `TypeIdChain` |
| chain of transactions | the CKB node (external) | live cells | commit a transaction | `ReuseChain`, `TypeIdChain`, `UdtChain` |
| info cell | `udt_info_type.c` | none; the supply is an info cell's data | `main` → `verify_type_id_update`, `get_udt_instance_amount` | `UdtScripts`, `UdtExec` |
| token definition | `udt_def.c` | none; amounts are instances' data | `main` → `verify_udt_data`, the search, the sums | `UdtScripts`, `UdtExec` |
| generator | `src/generator/app/*.js` | the cells it passes from one step to the next | `generateTransaction`; deploy, issue, open a wallet, publish, use | `Workflow` |
| schema, vendored code | `src/shared/schema/`, `src/verifier/ckb-scripts/deps/` | none | | not modelled: data definitions and third-party libraries |

**How they interact.** Scripts never call each other. They meet in a transaction: each lists the cells it
cares about (its own group, all inputs, all outputs, the dep cells) and judges them alone. The plugin counts
cells under the wallet's lock and leaves what they hold to that lock; the wallet lock reads amounts and
leaves it to the token's type script that they can be read; the wallet lock calls the secp256k1 check as a
function. The generator builds transactions from what its node lists, sends each without
waiting for the one before to be mined, and hands the outpoints of one step to the next.

**What is hard.** (1) Composition: no script checks what another is supposed to. (2) Order inside a script:
stages, early returns, and a failed signature that falls through to the deposit. (3) Numbers: unsigned 128-
and 64-bit differences, sums that wrap, `int` and `uint8_t` indices. (4) Memory: two reads of bytes nobody
wrote. (5) Loads that fail half-way. (6) Long sequences: transactions that are each legal and together merge,
lose, lock up or duplicate something. (7) Contention: all users of a script need the same wallet cell.
(8) The generator and its node: cells are listed as committed while transactions that spend them are pending.

**What makes each part correct.** Wallet: accept exactly the owner's signature or a deposit, always end,
never be locked up. Plugin and wallet: every use pays. Token: supply grows by governance only, amounts stay
readable. secp256k1 lock: the signature covers every witness it must. Type id: one transaction decides how
many cells carry an id. Info cell and definition: supply and circulating amount move together. Generator: the
transactions it builds are accepted, in the order it builds them.

## Modules

`Cells` — what a script sees of a cell: lock, type, capacity and data. Hashes are model values, and data is
split into what the code tells apart: its length against 16 bytes, and the u128 in it. `U128` and `U64` are
the widths, 2^128 and 2^64 in the code; amounts are always below them.

`WalletLock` — the wallet lock as a decision on a view of a transaction. Because `check_deps` compares a type
hash with a buffer nothing has written (line 108) and `check_outputs` reads an amount without looking at its
length (line 228), there are two predicates: `MayAccept` (some run accepts) and `MustAccept` (all do).

`WalletLockExec` — a run of `main()`. `pc` is the C function at work, `i` its loop index (from 1), `input` and
`output` the triples of variables `main` passes by reference. One action per stage, each step one loop
iteration or early return. `SyscallFails` is a load that returns a code its caller has no case for; it happens on the
views marked so (`MayFail`).

`ScriptVerdict` — the abstract script: look once, give one verdict. `WalletLockExec`, `SighashAll` and `UdtExec`
refine it through `verdict`. It states no fairness: that there is a verdict in the end is `Terminates`, which
each of the three says of its own loops.

`FamilySums` — the sum of a family of numbers, by outpoint or position. The scripts add up one cell after the
other, `Sum` one element after the other; that the order does not matter is a lemma of `FamilySums_proofs`.

`TokenScripts` — `SudtAccepts` and `ReuseCoinVerify`, as decisions on the cells consumed and created. Their
loops only count and add, so they are set expressions; the sums wrap at `U128`.

`ReuseChain` — live cells by outpoint, one committed transaction per step. `Commit` runs the lock script of
every consumed cell and the type script of every consumed or created cell, and applies the transaction. Who
builds it does not matter: any live cells, any outputs of `OutputLists`, any subset of signatures.

`DeveloperAccount` — what a developer is promised, without cells or scripts: an account changes by deposits,
openings and the owner's withdrawals. `ReuseChain` refines it: `balance` and `holdings` are the sum and the
number of the live cells under the wallet's lock with the wallet's token.

`SighashAll` — a run of the secp256k1 lock. The hash and the curve are abstracted to what they are for: a
signature was made with a key over a list of witnesses, and recovers that key only from the same list.
Inputs and witnesses are numbered from 0, as in the code.

`TypeIdChain` — cells with ids on a chain of arbitrary transactions. `verify_type_id_creation` and
`verify_type_id_update` keep their names. The counting loops are sizes of script groups: they stop at two.

`UdtScripts` — the two scripts of a token with a supply, as decisions. The order of outputs matters to
`udt_def.c`, so outputs are a sequence. Two reads of unwritten memory are choices: a cell without type script
may pass for an instance (`udt_info_type.c:109`), and short data may be read as any supply (line 299). A type
script is a code, args and an id. A script's own cells are those with the whole type script, as the VM groups
them (`OfType`, `InfoCells`, `OwnInstances`); the cells of the other script it knows by their args alone, whatever
their code (`Infos`, `udt_def.c:192`; `Instances`, `udt_info_type.c:120`). Scripts of other code, which may accept
anything, are in the model with all such args: a fake info cell and a fake instance among them.
The `Makefile`'s `all` builds neither program, and the schema has no `UdtAmount` and `UdtInfo`: an amount is
taken as the 8 bytes of `UDT_AMOUNT_SIZE` (comment `udt_def.c:24`). `verify_data()` is never called.

`UdtExec` — a run of either script with any args, loop iteration by loop iteration: `side` is the consumed or the created
cells, `i` the index (from 0), an `uint8_t` in `udt_def.c` that starts again at `U8` (`laps`). `udt_script` is
the buffer of `get_udt_instance_amount`: what a cell without type script is taken for depends on the cells in
front of it. The VM ends a run that goes in circles (`OutOfCycles`). It refines `ScriptVerdict` with the
decisions of `UdtScripts`. `OfScript`, the cells of a group in their order, is a recursive function.

`UdtChain` — these tokens on a chain of arbitrary transactions. The two scripts ask nothing of locks and
capacities, so there are none.

`Workflow` — `runReuseCoinEndToEnd` and the node it talks to: six transactions (`deployReuseCoinWallet` sends
two), each `Collect` (`loadCells`, the SDK's selection) and `Send` (build, sign, send), with `Mine` in between at
any time. A transaction is named by its step, so the outpoints handed on are constants. The node refuses with
a `cause`, which ends the run; scripts judge by `WalletLock` and `TokenScripts`. `Written` is what the scripts
read of an amount written as padded hex, most significant byte first, in units of 2^104. The wallet's args
have an odd number of hex digits (line 279): `half_byte` is whether client or node refuse or pad them.

`*_proofs` — theorems of the module they extend. `MC*` — instances for TLC.

## Runs

States are distinct states; every run takes at most two minutes.

| run | states | question |
|---|---|---|
| `wallet_exec` | 99 000 | Do the stages, loops and returns compute the declared decision, and always end? Can a failing load turn a refusal into an acceptance? |
| `chain_fees` | 480 | Whatever users send: does every use pay, and does no wallet lose tokens or lock up? |
| `chain_issue` | 260 | Does the supply of a token grow without the governance lock? In the one-script mode, with dep cells and deposits of capacity: does an unsigned spend still pay and leave the capacity? |
| `sighash` | 178 000 | Is the number of inputs right, and are exactly the right signatures accepted? With failing loads, can a witness escape the signature? Does the search end? |
| `type_id` | 115 000 | Does one transaction settle the number of cells of an id? |
| `udt_chain` | 1 000 | Do the two token scripts keep supply and circulation in step, and the number of info cells, among scripts of other code? |
| `udt_exec` | 460 000 | Do the loops of the two token scripts compute the declared decisions? When do they go in circles? |
| `workflow` | 4 500 | Whatever is mined between two steps: do the outpoints handed on hold, why can a publishing step be refused, and does everything sent get mined? |
| `unique_script_type`, `mint_verified`, `info_detected`, `use_pays` | — | four statements of the comments that the code does not keep (below) |

**Bounds, and why they are enough.**

- *Widths and rates*: `U128 = U64 = 4`. Amounts stand on both sides of the rate and at the largest value, so
  differences that wrap and sums that overflow occur. Where payment is decided (the pairs of amounts of
  `MCWallet`, and `chain_fees`) the rate is 2, so that a deposit can be too small and still more than nothing;
  elsewhere it is 1. The proofs are for every width and every rate.
- *Wallet views* (`MCWallet`): three slices instead of their product, as the stages only share the return:
  up to three dep cells in both modes (the count matters at 0, 1 and more); every witness, argument length
  (one below, at, between, at and above the two legal ones) and pair of amounts; up to two consumed and two
  created cells of every type and data size (one too many). Loads may fail in the first two slices and the last.
- *Chain* (`MCChain`): one wallet, one token, one plugin, one user. All cells but the wallet's have the same
  capacity, so the genesis bounds how many can live, and transaction sequences are unbounded. `tx` and the
  outpoints' numbers grow, so `VIEW ChainView` identifies states with the same bag of cells: the properties
  are about cells and single transactions, and are checked on every transaction from every bag. Transactions
  consume up to three cells (wallet, tokens, capacity) and create up to three (`chain_issue`: two). With one wallet every
  interaction of plugin, wallet and token occurs; that several wallets do not interfere is in the proofs.
- *Signature* (`MCSighash`): up to nine inputs, so that the search doubles its bound twice and bisects every
  bracket; groups that are all, some, the first or the last of the inputs; from no witness to two more than inputs;
  loads may fail up to six inputs, which doubles once and bisects every bracket.
- *Type id* (`MCTypeId`): two genesis cells (the outpoint first, and not first), two inputs, two outputs,
  four transactions: create, hand on, split or merge, try again.
- *Token* (`MCUdt`): one token, whose id is one of two genesis cells. Amounts and supplies of 1 and 2 where the
  width is 4, so that two instances reach it; loops handle two cells (`U8 = 3`), so that transactions of three reach that limit; up to
  four live cells, transactions of up to three inputs and outputs of every kind (instance, info cell, a flag
  other than 1, no type, other code with the args of either; short, exact and long data). `View` identifies states with the same bag of cells.
- *Token scripts* (`MCUdtExec`): up to three consumed and three created cells in any order, where three is where
  an index starts again; amounts of two bits; each of typed, typeless, short and long cells, and cells of other code with the args of an
  instance or of the info cell, before and after others.
- *Workflow* (`MCWorkflow`): the run is fixed, six transactions. The first key starts with a cell that is enough
  for all of it, one for some steps and one for hardly any, so that each step may be short of capacity, reuse a
  cell that is pending, or find change; the second key with one. 1500 bytes of code.

**Fairness.** `WalletLockExec` and `SighashAll` assume `WF_vars(Next)`: the VM runs a script until it returns.
`UdtExec` adds `WF_vars(OutOfCycles)`: it has a limit of cycles. `Workflow` assumes that the JavaScript goes on
after an `await` that answered (`Collect`, `Send`) and that the node mines a transaction that stays minable
(`Mine`). The chains assume none: nobody must send a transaction. **Deadlock** is not checked in any run: a
script run and the workflow end; a chain may stop when all capacity sits in cells nobody can consume any more
(`StrandedStays`), and `TypeIdChain` ends at its height bound.

## Properties

- `ImplementsVerdict` (wallet): whatever the order of stages and returns, success only if `MayAccept`, refusal
  only if not `MustAccept` (or a load failed), and one verdict. `Terminates`: `continue` at line 198
  included, every iteration advances. `UnlockErrorMeansUnpaid`: the last error code blames only the deposit.
- `UnsignedSpendPays`, `UseIsPaid`: a wallet cell consumed without its owner's signature is handed on as one
  cell with at least `udt_rate` more tokens and no less capacity; a transaction touching a reusable script
  does this, or is signed for the wallet. They need the plugin, the lock and the token script together.
- `WalletUsable`: on every reachable wallet cell the owner's signature, and a fitting deposit, are accepted.
  `TokenDataReadable`: no token cell with an unreadable amount ever exists, so the read at line 228 is harmless.
- `StrandedStays`: a cell under a wallet's lock without its token can never be consumed, not by its owner either.
  `deployReusableScript` (`src/generator/app/reuseCoinAutogenWorkflow.js:345`) creates one.
- `SupplyGrowsByGovernance`: only an input under the governance lock, or outputs that add up past 2^128, make
  a token's supply grow. The second is real: `sudt.c:134` adds without looking for overflow.
- `ImplementsAccount`: the chain refines `DeveloperAccount`.
- `InputsCounted`, `SignatureCovers`, `ImplementsVerdict` (signature): the search brackets the number of inputs
  and its bound stays below twice of it; a wrong count, after a failed load, only makes the message cover more;
  without failures exactly the owner's signature over the right witnesses is accepted. `Terminates`: the bracket
  narrows with every step of the bisection.
- `CopiesSetOnce`: the number of cells of an id changes in one transaction, the one that consumes the outpoint
  it names, from zero. `IInv` (type id): the id of a live cell is a consumed outpoint.
- `MintMatchesSupply`: after creation, the supply and what circulates (the sum of the token's own instances, as
  an `uint64_t`) grow together and by the same amount, or not at all: one script lets a mint pass when it finds an info
  cell, the other compares it with the supply. Three exceptions are needed: a cell has no type
  script (`mint_verified`), a supply cannot be read (creation looks at no data), or a script of other code has the
  token's args, as the only info cell in the outputs or as an instance (`Forged`, `info_detected`).
- `SupplyNeverFalls`: no burn, no lost info cell, no second creation with less. `InfoSettledOnce`: info cells of a
  token appear in one transaction and are only handed on. `IInv` (token): ids of info cells are
  consumed outpoints, and instances can be read, so that only supplies are ever read short. `LongSupplyStays`: an
  info cell with more data than a supply, which a creation or an update may put there, is never consumed again.
- `ImplementsVerdict`, `Terminates` (token scripts): in whatever order cells come, the loops accept what `UdtScripts`
  says; a failing load, which `verify_type_id_update` counts as a cell, makes no refusal an acceptance.
  `CirclesOnlyAtLimit`: the verdict on up to 255 cells does not depend on the index being an `uint8_t`.
- `HeldCells`: an outpoint handed on names the cell it was made for until the workflow consumes it. `safeMode` is
  what keeps later steps from collecting it. `ScriptsNeverRefuse`: before the use, no step is refused by a script or
  for one whose code is not found. `PublishingAccepted`: what is left is a collected cell that an earlier step
  already spent (`filterUsedCells`, `src/generator/app/boilerplate.js:23`, is never called), the wallet's args, or
  capacity. Capacity is wanting where less than 2500 CKB and the code's size were collected, as the outputs claim
  more than `generateTransaction` asks for; or where an output claims less than it occupies (`Underfunded`), as the
  1900 CKB of `deployReusableScript` do for code of more than 1783 bytes. `Settles`: every run ends and what it
  sent is mined.

## Where comments and code differ

- `unique_script_type`: `check_deps` loads the dep cell's type hash into `dep_lock_hash` (line 96) and compares
  `dep_type_hash`, which was never written (line 108). A bug; the one-script mode works only by accident.
- `mint_verified`: "verify the mint tx" (`udt_info_type.c:208`) fails where a cell without type script is taken
  for an instance, as its script is parsed from memory nobody wrote (line 109). A bug; what happens in a given
  build depends on what the stack holds, and the model allows every outcome.
- `info_detected`: the checks of the info cell are to let instances "detect the correct info cell in a transaction
  (as opposed to a fake one" (`udt_info_type.c:43-44`), but `udt_def.c` compares args only (lines 192-199): an output
  of any code with the id and a 1 in its args ends the search, and any mint passes while the info cell lies still.
- `use_pays`: "This transaction uses a reusable script and pays the developer"
  (`src/generator/app/reuseCoinAutogenWorkflow.js:377`): it is refused in every run that gets there. 10000 after
  1000 is less as the scripts read it, and the only signature is in the witness of the wallet's group. With
  `half_byte = "refused"` the run ends at the wallet already.

Met while modelling, and not runs of their own:

- The comments want `(# of scripts associated w/ this wallet) * udt_rate` (line 428 of the wallet lock); `main`
  holds the deposit against one `udt_rate` (line 391) and never reads the sum `check_deps` made. `Paid` charges
  one rate, and `ImplementsVerdict` shows that this is what a run does.
- "If it is creation, it will verify the data field" (`udt_info_type.c:207`), but creation returns at line 289
  without loading any, and nothing stands under the comment of line 248. A short supply compares as anything later;
  a longer one can never be spent (`LongSupplyStays`).
- The comments want the wallet's capacity to grow by `ckb_rate` (lines 382, 431); not growing at all is also
  accepted (line 386). `Paid` says so, and `UnsignedSpendPays` claims no more.
- "Only one info cell with this particular ID can exist" (`type_id.c:27`) does not hold for creation, which returns
  before counting outputs (line 136). What does hold is `CopiesSetOnce`.
- "Perform sum verification" when no info cell is in the outputs (`udt_def.c:158`): an output without type script
  ends the search with an error (line 176), so a transfer with a plain change cell is refused (`Search`).
- 250000 is split into 1000 and 249000 (`src/generator/app/reuseCoinAutogenWorkflow.js:293`, `301`), which as read
  are 0xE80300 and 0xA8CC03 units of 2^104 where the whole is 0x90D003. Their sum wraps to 0x90CF03,
  which is less: the split is accepted, with the governance lock among the inputs or without.

## Proofs

All theorems are for every value of the constants: any numbers of scripts, cells, inputs, witnesses and
transactions, any widths. The constants' assumptions are the named `ASSUME`s of the modules; TLC evaluates
them. Those that say more than a domain: widths are positive; a run looks at views that are lists of cells
(`ViewsAssumption`, `TxsAssumption`); `GenesisAssumption`, all capacity fits an `uint64_t`, as the chain ensures.

*Sums and lists* (`FamilySums_proofs`). `MapThenSumSet` recurses over a finite set and a list's selection over
its length, so what they compute is proved by induction. The library's induction theorems take an operator as a
parameter, which the provers do not instantiate; its theorem that strict inclusion of finite sets is well
founded takes none. `SetInduction` and `CountInduction` follow from it, for a set of the subsets, or numbers,
for which a claim holds. On them rest the existence of the fold (`FoldExists`), its independence of the order
(`FoldAny`, `SumRemove`), and how sums split, compare, and are renamed along a bijection (`SumSplit`,
`SumMonotone`, `SumRenamed`); `WrapAdd` says that wrapping after each addition is wrapping once.

*Wallet run* (`WalletLockExec_proofs`). "Success only if `MayAccept`" is not inductive: it says nothing of the
loops. `IInv` adds what each stage hands to the next: the prefix of deps read has the scripts counted (none,
one, more); the counted input is the first and only group cell; of the outputs read at most one is the
wallet's and its amount is one the script may have read. One lemma per stage shows it is preserved
(`CheckDepsStep`, `CheckInputsStep`, `CheckOutputsStep`, `DecideStep`). From it: `Soundness`, `Completeness`,
`UnlockError`, and `WalletImplementsVerdict`: initial states map to initial states, the step that returns to a
verdict, every other one to a stutter.

*Chain* (`ReuseChain_proofs`). `Typing` carries the fact everything rests on: outpoints are fresh, so a new
cell never replaces a live one (`StepEffect`). `Readable` is inductive with it, since a type script sees every
cell it is on. `WalletStep` then turns a wallet's verdict into payment, as both sides hold readable
amounts; `UnsignedSpendsPay`, `UsesArePaid`, `StrandedCellsStay` and `WalletsStayUsable` follow. For
`SuppliesGrowByGovernance` the supply after a transaction is split into cells kept and created, before it into
kept and consumed; the kept ones cancel, and the sums that remain are those the script compares, unless they
wrap. `ChainImplementsAccount` maps a transaction to a step of the account by what it does to the wallet's
cells: none touched, one more, one for one.

*Signature* (`SighashAll_proofs`). `IInv` joins the bracket of the search with the set of witnesses digested at
each stage. The group loop is the delicate one: it stops at the first missing witness, and only because the
group is in order are the later ones missing too (`GroupDigested`). In the last loop the digest holds the
witnesses from `hi` on, and `hi` is at most the number of inputs even after failures, hence `Coverage`. A signature
is over a list, so `SighashImplementsVerdict` needs more than the set: `MInv` adds that the digest is in increasing
order, without failures, and holds no oversized witness. There is one such list of a set of numbers
(`IncreasingUnique`, by induction on its length), so it is the list the owner signed.

*Type id* (`TypeIdChain_proofs`). "No two transactions create the same id" needs that the ids of live cells are
spent outpoints (`IInv`): then the creation path is closed. `Exchange` shows that swapping one cell of a group
for a new one keeps its size; `CommitCopies` splits on the script's verdict; `CopiesSettled` follows.

*Token* (`UdtChain_proofs`). As for type ids, the creation path must be closed: `IInv` says the ids of live
info cells are spent, and with it that live instances are readable (`Verdicts`, `CommitInv`). `InfoCellsSettled`
splits on the verdict (`InfoVerdicts`) and swaps one info cell for another (`Exchange`). For `MintsAreBacked`,
unless another script has the token's args, what the info cell's script adds up is what circulates (`InstanceSum`), and
an info cell found by the search is one of its own. With
readable cells each choice of what the scripts may read has one value. `SupplyKeptForever` follows from the same split;
`LongSuppliesStay` from the info cell being in the group of every transaction that consumes it, where its load fails
(`ConsumedReadable`). Scripts of other code accept whatever they like in all of these.

*Token scripts* (`UdtExec_proofs`). `IInv` says of the search that no cell before the index was the info cell, until
the index starts again; and that a second lap needs a list at the limit (`CirclesAtLimit`). `DInv` says what each
stage has come to know of the transaction, that its script's args have the right length from `CreateMode` on
included. The loops go through groups, the decisions of `UdtScripts` speak of
positions in the transaction: a group is the list's cells along a bijection (`GroupPicked`), so both count, read
and add up the same (`GroupFacts`). In the sums, `total` is that of the cells passed, wrapped (`SumKnown`); in
`get_udt_instance_amount` it is one of the sums of some cells passed, all instances and any of the typeless among
them (`SumUpto`), however the buffer fared. The stages hand on what the decision asks: all data exact, no info cell
and no typeless one, one cell in each group. One lemma per stage (`VerifyDecides`, `SearchDecides`, ...,
`SupplyDecides`) gives `Deciding`, and that `UdtImplementsVerdict`.

*Workflow* (`Workflow_proofs`). `HeldCells` is not inductive: it says nothing of cells collected but not yet spent.
`IInv` adds that no held cell is among them, that steps to come have created nothing and that no two
transactions create the same outpoint. `HeldNext` is the heart: what is held after a step was held before and
not given to it, or is one of its outputs. `OutpointsHold` holds for any genesis, selection and miner.
`PublishingPassesScripts` needs of the collected cells that they are as they were read (`Chosen`), for the node
checks them later: they may be gone, but no pending transaction creates their outpoints anew. Then every
cell a publishing step consumes is locked by the governance and none has a type it cannot pass (`ScriptsPass`).
`Typing` needs capacity to be bounded, which is a sum: `TInv` adds that the cells that can still be consumed hold
no more than the genesis (`CapacityNeverGrows`), as the node refuses what would. `PublishingIsAccepted` then adds
up what the outputs of each step claim and what is left for the change.

**Only model-checked.** Liveness: `Terminates` of the three script runs and `Settles` (out of the prover's reach).
Every other property of the passing runs is a theorem.

## Not modelled, and why

VM limits (memory; of cycles only that there is one) and fees; molecule parsing of well-formed scripts; the curve
and the hash; dep cells that are dep groups; blocks, forks, and a pool that drops transactions. In the chain
modules a transaction is committed or not, and running out of capacity is only "no more out than in". Type scripts
longer than the 32768 bytes of `SCRIPT_SIZE`, which the token scripts refuse; loads that fail in `type_id.c`, which
its loops count as cells (lines 36-41), as those of `udt_info_type.c` do in `UdtExec`.

Of the generator, `runTypeId` and `runUDTDeployment` with their steps, `transfer` and `issueUdtWrongGovHash`, which
nothing calls (their scripts are on the chains of `TypeIdChain` and `UdtChain`, with any transaction); `init` and keys; printing. The
SDK and the node are external, modelled from how the code uses them. `src/shared/schema/` is data definitions
and generated code, `src/verifier/ckb-scripts/deps/` third-party libraries. Several users with snapshots of one
wallet cell have no module: a lost race is a transaction the node refuses, and `WalletUsable` says the
winner leaves a wallet that takes the next deposit.
