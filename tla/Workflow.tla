------------------------------ MODULE Workflow ------------------------------
(***************************************************************************)
(* The generator's end-to-end run (runReuseCoinEndToEnd in                 *)
(* src/generator/app/reuseCoinAutogenWorkflow.js, with generateTransaction *)
(* of boilerplate.js): six transactions, each built from cells the node    *)
(* has committed, signed and sent without waiting for the ones before to   *)
(* be mined.  The node checks each with the scripts of WalletLock and      *)
(* TokenScripts; the first it refuses ends the run.                        *)
(*                                                                         *)
(* A transaction is named by its number in the run, so the outpoints that  *)
(* are handed from step to step are constants.  Capacities are in CKB;     *)
(* amounts are in units of 2^104, the least the workflow can write.        *)
(***************************************************************************)
EXTENDS WalletLock, TokenScripts

CONSTANTS
  lock1, lock2,  \* the two keys' locks; the first is also the governance
  wallet,        \* the lock of the wallet the run opens
  token, use,    \* type hashes of the token it issues and of the reusable script
  Genesis,       \* the list of cells both keys start with
  CodeSize       \* bytes in a script's binary

ASSUME NamesAssumption ==
  /\ LockHashes = {lock1, lock2, wallet} /\ TypeHashes = {token, use}
  /\ lock1 # lock2 /\ lock1 # wallet /\ lock2 # wallet /\ token # use
ASSUME SizeAssumption == CodeSize \in Nat /\ U128 = 16777216

VARIABLES
  live,       \* the committed cells, by outpoint: what loadCells answers from
  pool,       \* transactions the node has accepted and not yet mined
  step,       \* the transaction the run is at, 1 .. 6, or 7 at its end
  collected,  \* the cells generateTransaction has chosen for it, none before
  cause,      \* why the node, or the SDK, refused it; "none" while the run goes on
  half_byte   \* what becomes of args with an odd number of hex digits

vars == <<live, pool, step, collected, cause, half_byte>>

-----------------------------------------------------------------------------
\* n < 2^24 as 32 hex digits, most significant first, is read by the scripts as
\* n's three bytes in the opposite order, at the top of the uint128_t.
Written(n) == (n % 256) * 65536 + ((n \div 256) % 256) * 256 + ((n \div 65536) % 256)

Output(lock, type, size, amt, capacity, code) ==
  [lock |-> lock, type |-> type, size |-> size, amt |-> amt, capacity |-> capacity, code |-> code]
Plain(lock, capacity) == Output(lock, NoType, "short", 0, capacity, "none")
\* Mutant of Code: its capacity is converted to a smaller unit once too often.
Code_ConvertedTwice(lock, code) == Output(lock, NoType, "long", 0, 100 * (CodeSize + 100), code)
Code(lock, code) == Output(lock, NoType, "long", 0, CodeSize + 100, code)
Udt(lock, amount, capacity) == Output(lock, token, "exact", Written(amount), capacity, "none")

\* The outpoints handed on, as convertToInputCell and convertToDepCell make them.
UdtDef == <<1, 0>>
UdtInstance == <<2, 0>>
WalletLockCode == <<3, 0>>
WalletCell == <<4, 0>>
UdtCell == <<4, 1>>
ReusableScript == <<5, 0>>

\* What each step asks generateTransaction for, and whose key signs.
Request(outputs, deps, inputs, from) ==
  [outputs |-> outputs, deps |-> deps, inputs |-> inputs, from |-> from]
deployCodeCells == Request(<<Code(lock1, "sudt")>>, {}, {}, lock1)
issueUdt == Request(<<Udt(lock1, 250000, 687)>>, {UdtDef}, {}, lock1)
deployWalletLock == Request(<<Code(lock1, "wallet")>>, {}, {}, lock1)
deployWallet ==
  Request(<<Udt(wallet, 1000, 1000), Udt(lock2, 249000, 1000)>>,
          {UdtDef, WalletLockCode}, {UdtInstance}, lock1)
deployReusableScript ==
  Request(<<Output(wallet, NoType, "long", 0, 1900, "reuse")>>, {WalletLockCode}, {}, lock1)
useReusableScript ==
  Request(<<Output(lock2, use, "short", 0, 500, "none"), Udt(wallet, 10000, 1000)>>,
          {WalletLockCode, ReusableScript, UdtDef}, {WalletCell, UdtCell}, lock2)
Run == <<deployCodeCells, issueUdt, deployWalletLock, deployWallet, deployReusableScript,
         useReusableScript>>

\* Mutant of Governance: issueUdtWrongGovHash.
Governance_Wrong == lock2
\* govHash, the args of the token.
Governance == lock1

\* The wallet's args: an odd number of digits, as ckb_rate has 15.  Padded in
\* front, the owner's hash is off by half a byte and ckb_rate is enormous.
WalletArgsRead ==
  [len |-> MIN_ARGS_LENGTH, ckb_rate |-> U64 - 1, udt_rate |-> Written(100), token_type |-> token,
   reusable_script_type_hash |-> token]

-----------------------------------------------------------------------------
Capacity(family) == Sum([k \in DOMAIN family |-> family[k].capacity])

\* Bytes the outputs are taken to need, whatever capacity they claim: 61 each, what
\* a cell under a key's lock takes, and their data.
DataLength(cell) == CASE cell.size = "long" -> CodeSize [] cell.size = "exact" -> 16 [] OTHER -> 0
Needed(outputs) == Sum([k \in DOMAIN outputs |-> 61 + DataLength(outputs[k])])
Fee == 100

\* Bytes the node finds in a cell: the capacity's eight, 33 and the args for each
\* script (a key's hash, the wallet's args, a lock hash), and the data.
Occupied(cell) == 8 + (33 + IF cell.lock = wallet THEN MIN_ARGS_LENGTH ELSE 20)
                    + (IF cell.type = NoType THEN 0 ELSE 33 + 32) + DataLength(cell)

\* Mutant of Spendable: without safeMode.
Spendable_Any(lock) == {o \in DOMAIN live : live[o].lock = lock}
\* The cells the SDK may choose from: safeMode keeps those with data or type.
Spendable(lock) ==
  {o \in DOMAIN live : live[o].lock = lock /\ live[o].type = NoType /\ live[o].size = "short"}

\* It stops when it has enough, whatever the order it goes through them.
Enough(cells, outputs) == Capacity(cells) >= Needed(outputs) + Fee + 61
Selections(request) ==
  LET cells(S) == [o \in S |-> live[o]]
  IN  {cells(S) : S \in {T \in SUBSET Spendable(request.from) :
                          /\ Enough(cells(T), request.outputs)
                          /\ \E o \in T : ~Enough(cells(T \ {o}), request.outputs)}}

\* Mutants of Outputs: the change comes first; the SDK's own first output is kept.
Outputs_ChangeFirst(request, change) == <<change>> \o request.outputs
Outputs_All(request, change) == request.outputs \o <<Plain(lock1, 61), change>>
\* The SDK's own first output is dropped, its change output comes last.
Outputs(request, change) == Append(request.outputs, change)

\* generateTransaction: a quarter of the change is kept, the rest is fee.
Transaction(n, cells) ==
  LET request == Run[n]
      change == Plain(lock1, (Capacity(cells) - Needed(request.outputs) - Fee) \div 4)
      outputs == Outputs(request, change)
  IN  [inputs |-> request.inputs \union DOMAIN cells, deps |-> request.deps, from |-> request.from,
       first_lock |-> IF n = 6 THEN wallet ELSE lock1,
       created |-> [o \in {n} \X (0 .. Len(outputs) - 1) |-> outputs[o[2] + 1]]]

-----------------------------------------------------------------------------
\* The node: a cell is available when committed or created by a pending
\* transaction, and not consumed by one.
Pending == [o \in UNION {DOMAIN tx.created : tx \in pool} |->
              (CHOOSE tx \in pool : o \in DOMAIN tx.created).created[o]]
Existing == [o \in DOMAIN live \union DOMAIN Pending |->
               IF o \in DOMAIN live THEN live[o] ELSE Pending[o]]
Available == DOMAIN Existing \ UNION {tx.inputs : tx \in pool}

Types(family) == {family[o].type : o \in DOMAIN family} \ {NoType}
Locks(family) == {family[o].lock : o \in DOMAIN family}

\* The code of every lock and type is found in a dep cell.
Deployed(code, deps) == \E d \in deps : Existing[d].code = code
CodesFound(tx, consumed) ==
  /\ wallet \in Locks(consumed) => Deployed("wallet", tx.deps)
  /\ token \in Types(consumed) \union Types(tx.created) => Deployed("sudt", tx.deps)
  /\ use \in Types(consumed) \union Types(tx.created) => Deployed("reuse", tx.deps)

\* signTx puts one signature, over everything, in the first witness: it is good
\* for the signer's own inputs if they come first, and lies in the wallet's group
\* if the wallet does.
LockAccepts(l, tx, consumed) ==
  IF l = wallet
  THEN MayAccept([lock_hash |-> wallet, args |-> WalletArgsRead,
                  group |-> [o \in LockedBy(consumed, wallet) |-> consumed[o]],
                  outputs |-> tx.created, deps |-> [d \in tx.deps |-> Existing[d]],
                  witness |-> IF tx.first_lock = wallet THEN "other_sig" ELSE "absent",
                  loads |-> "sound"])
  ELSE l = tx.from /\ l = tx.first_lock
TypeAccepts(t, tx, consumed) ==
  IF t = token THEN SudtAccepts(t, Governance, consumed, tx.created)
               ELSE ReuseCoinVerify(wallet, consumed, tx.created)

Refusal(tx) ==
  LET consumed == [o \in tx.inputs |-> Existing[o]]
  IN  CASE wallet \in Locks(tx.created) /\ half_byte = "refused" -> "encoding"
        [] ~(tx.inputs \subseteq Available) -> "double_spend"
        [] OTHER ->
           CASE ~(tx.deps \subseteq Available /\ CodesFound(tx, consumed)) -> "unresolved"
             [] OTHER ->
                IF \/ Capacity(tx.created) > Capacity(consumed)
                   \/ \E o \in DOMAIN tx.created : tx.created[o].capacity < Occupied(tx.created[o])
                THEN "capacity"
                ELSE IF /\ \A l \in Locks(consumed) : LockAccepts(l, tx, consumed)
                        /\ \A t \in Types(consumed) \union Types(tx.created) :
                             TypeAccepts(t, tx, consumed)
                THEN "none" ELSE "script"

-----------------------------------------------------------------------------
Init ==
  /\ live = [o \in {0} \X DOMAIN Genesis |-> Genesis[o[2]]]
  /\ pool = {} /\ step = 1 /\ collected = <<>> /\ cause = "none"
  /\ half_byte \in {"refused", "padded"}

Running == step <= 6 /\ cause = "none"

\* loadCells and generateRawTransaction; the SDK throws when there is not enough.
Collect ==
  /\ Running /\ DOMAIN collected = {}
  /\ \/ collected' \in Selections(Run[step]) /\ UNCHANGED cause
     \/ Selections(Run[step]) = {} /\ cause' = "capacity" /\ UNCHANGED collected
  /\ UNCHANGED <<live, pool, step, half_byte>>

\* Signing and sendTransaction.  What was collected may have been consumed since.
Send ==
  /\ Running /\ DOMAIN collected # {}
  /\ LET tx == Transaction(step, collected)
     IN  \/ /\ Refusal(tx) = "none"
            /\ pool' = pool \union {tx} /\ step' = step + 1 /\ collected' = <<>>
            /\ UNCHANGED cause
         \/ /\ Refusal(tx) # "none" /\ cause' = Refusal(tx)
            /\ UNCHANGED <<pool, step, collected>>
  /\ UNCHANGED <<live, half_byte>>

\* The node commits a pending transaction whose parents are committed.
Mine ==
  \E tx \in pool :
    /\ tx.inputs \union tx.deps \subseteq DOMAIN live
    /\ live' = [o \in (DOMAIN live \ tx.inputs) \union DOMAIN tx.created |->
                  IF o \in DOMAIN tx.created THEN tx.created[o] ELSE live[o]]
    /\ pool' = pool \ {tx}
    /\ UNCHANGED <<step, collected, cause, half_byte>>

Next == Collect \/ Send \/ Mine

\* The run goes on and the node mines.
Spec == Init /\ [][Next]_vars /\ WF_vars(Collect) /\ WF_vars(Send) /\ WF_vars(Mine)

-----------------------------------------------------------------------------
\* The cells there may ever be: what the keys start with, one cell for each output
\* asked for, and a change cell per transaction.
Outpoints == {0} \X DOMAIN Genesis \union UNION {{n} \X (0 .. Len(Run[n].outputs)) : n \in 1 .. 6}
CellOf == [lock : LockHashes, type : TypeHashes \union {NoType}, size : DataSizes,
           amt : Amounts, capacity : Capacities, code : {"none", "sudt", "wallet", "reuse"}]

\* All there ever is in capacity fits an uint64_t.
ASSUME GenesisAssumption == Genesis \in Seq(CellOf) /\ Capacity(Genesis) < U64

TypeOK ==
  /\ DOMAIN Existing \subseteq Outpoints /\ \A o \in DOMAIN Existing : Existing[o] \in CellOf
  /\ \A tx \in pool : tx.inputs \subseteq DOMAIN Existing
  /\ step \in 1 .. 7 /\ DOMAIN collected \subseteq Outpoints
  /\ cause \in {"none", "encoding", "double_spend", "unresolved", "capacity", "script"}
  /\ half_byte \in {"refused", "padded"}

Deploys(o, code) == o \in Available /\ Existing[o].code = code
HoldsToken(o, lock, amount) ==
  o \in Available /\ Existing[o].lock = lock /\ Existing[o].type = token
                  /\ Existing[o].amt = Written(amount)
\* An outpoint the workflow hands on names, from the moment it is handed on until
\* the step that consumes it, the very cell later steps take it for: no later
\* collection of cells spends it, mined or not, and no other output is in its
\* place (convertToInputCell, convertToDepCell and safeMode).
HeldCells ==
  /\ step > 1 => Deploys(UdtDef, "sudt")
  /\ step > 3 => Deploys(WalletLockCode, "wallet")
  /\ step > 5 => Deploys(ReusableScript, "reuse")
  /\ step \in 3 .. 4 => HoldsToken(UdtInstance, lock1, 250000)
  /\ step \in 5 .. 6 => HoldsToken(WalletCell, wallet, 1000) /\ HoldsToken(UdtCell, lock2, 249000)

\* Whatever the node mines between two steps and whatever cells the SDK chooses,
\* no publishing step (the five before the use) is refused by a script, nor for a
\* script whose code is not found: the governance lock, deps and data of each are
\* what the token asks for, though they were settled steps before.
ScriptsNeverRefuse == step <= 5 => cause \notin {"unresolved", "script"}

\* What is left for a publishing step to be refused for: the wallet's args, which
\* are no bytes; a cell collected for it, never one handed on, that an earlier step
\* has spent; an output that claims less than it takes (the 1900 CKB for the reusable
\* script, whatever its size); or claims beyond what generateTransaction asks for,
\* which 2500 CKB and the code's size make up for.
Underfunded(request) == \E k \in DOMAIN request.outputs :
                          request.outputs[k].capacity < Occupied(request.outputs[k])
PublishingAccepted ==
  step <= 5 =>
    /\ cause = "encoding" => step \in 4 .. 5
    /\ cause = "double_spend" => ~(DOMAIN collected \subseteq Available)
    /\ cause = "capacity" => \/ Capacity(collected) < CodeSize + 2500
                             \/ Underfunded(Run[step])

\* Every run comes to its end, accepted or refused, and all it sent is mined: no
\* pending transaction waits for one that a later one made impossible.
Settles == <>[](~Running /\ pool = {})

\* "This transaction uses a reusable script and pays the developer": the last step
\* is never refused by the scripts (reuseCoinAutogenWorkflow.js, line 377).
UsePaysDeveloper == ~(step = 6 /\ cause = "script")
=============================================================================
