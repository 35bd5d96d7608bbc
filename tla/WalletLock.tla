----------------------------- MODULE WalletLock -----------------------------
(***************************************************************************)
(* The developer wallet's lock script (c/reuse_coin_wallet.c) as a         *)
(* decision on one transaction: what it looks at and when it returns       *)
(* CKB_SUCCESS.  The loops that compute the decision are in                *)
(* WalletLockExec; the chain that runs it on every transaction is in       *)
(* ReuseChain.                                                             *)
(*                                                                         *)
(* A view is what the VM shows the script of a transaction: its own hash   *)
(* and args, the inputs it locks (GROUP_INPUT), all outputs, all dep cells *)
(* and the first witness of its group.                                     *)
(*                                                                         *)
(* Two reads of the script are of uninitialised memory (the type hash of a *)
(* dep cell, and the amount of an output wallet with short data), so the   *)
(* decision is a pair of predicates: MayAccept, some build and run returns *)
(* success; MustAccept, every one does.                                    *)
(***************************************************************************)
EXTENDS Cells

MIN_ARGS_LENGTH == 76    \* pubkey hash, ckb_rate, udt_rate, token_type
MAX_ARGS_LENGTH == 108   \* ... and reusable_script_type_hash

WalletArgs == [len : Nat, ckb_rate : Capacities, udt_rate : Amounts,
               token_type : TypeHashes, reusable_script_type_hash : TypeHashes]

ArgsAccepted(a) == a.len \in {MIN_ARGS_LENGTH, MAX_ARGS_LENGTH}
UniqMode(a) == a.len = MAX_ARGS_LENGTH

\* The first witness of the group: missing or empty; longer than
\* MAX_WITNESS_SIZE; not a WitnessArgs, or one without lock; with an empty
\* lock; with a lock that is, or is not, a signature of the owner.
Witnesses == {"absent", "oversize", "malformed", "no_lock", "empty_lock",
              "owner_sig", "other_sig"}
SigReadable(w) == w \in {"absent", "empty_lock", "owner_sig", "other_sig"}
HasSig(w) == w \in {"owner_sig", "other_sig"}

Loads == {"sound", "failing"}
View == [lock_hash : LockHashes, args : WalletArgs, group : Seq(Cell),
         outputs : Seq(Cell), deps : Seq(Cell), witness : Witnesses, loads : Loads]

\* Whether, on this run, a load may answer with anything else than the codes the
\* code expects of it.
MayFail(v) == v.loads = "failing"

(***************************************************************************)
(* check_deps.  Only the one-script mode can refuse: two dep cells under   *)
(* the wallet's lock, one without type script, or one whose type hash,     *)
(* never loaded, is compared with the expected one.                        *)
(***************************************************************************)
DepsMayPass(v) ==
  LET scripts == LockedBy(v.deps, v.lock_hash)
  IN  UniqMode(v.args) => /\ AtMostOne(scripts)
                          /\ \A k \in scripts : v.deps[k].type # NoType
DepsMustPass(v) == UniqMode(v.args) => LockedBy(v.deps, v.lock_hash) = {}

\* Mutant of InputsPass: the type script of the input is not compared.
InputsPass_AnyType(v) == ExactlyOne(DOMAIN v.group)

\* check_inputs: one consumed wallet cell, of the token, with a 16-byte amount.
InputsPass(v) ==
  /\ ExactlyOne(DOMAIN v.group)
  /\ \A k \in DOMAIN v.group : /\ v.group[k].type = v.args.token_type
                               /\ v.group[k].size = "exact"

\* Mutant of OutputsPass: the wallet cell may be missing.
OutputsPass_NoMinimum(v) ==
  LET wallets == LockedBy(v.outputs, v.lock_hash)
  IN  /\ AtMostOne(wallets)
      /\ \A k \in wallets : v.outputs[k].type = v.args.token_type

\* check_outputs: one created wallet cell, of the token; its size is not looked at.
OutputsPass(v) ==
  LET wallets == LockedBy(v.outputs, v.lock_hash)
  IN  /\ ExactlyOne(wallets)
      /\ \A k \in wallets : v.outputs[k].type = v.args.token_type

\* Mutants of Paid: more than the rate is wanted; the difference of the amounts
\* wraps; the capacity is not looked at.
Paid_MoreThanRate(a, old, new) ==
  /\ new.capacity >= old.capacity
  /\ new.udt > old.udt /\ new.udt - old.udt > a.udt_rate
Paid_Wraps(a, old, new) ==
  /\ new.capacity >= old.capacity
  /\ (U128 + new.udt - old.udt) % U128 >= a.udt_rate
Paid_AnyCapacity(a, old, new) ==
  new.udt > old.udt /\ new.udt - old.udt >= a.udt_rate

\* The deposit that unlocks the wallet for anybody: udt_amt_correct and
\* capacity_correct.  old and new are the [udt, capacity] of the wallet cell.
Paid(a, old, new) ==
  /\ \/ new.capacity = old.capacity
     \/ new.capacity > old.capacity /\ new.capacity - old.capacity >= a.ckb_rate
  /\ new.udt > old.udt /\ new.udt - old.udt >= a.udt_rate

\* The amounts the script may see in the created wallet cell, and the deposit.
PaidWith(v, k, j, amt) ==
  Paid(v.args, [udt |-> v.group[k].amt, capacity |-> v.group[k].capacity],
               [udt |-> amt, capacity |-> v.outputs[j].capacity])
MayBePaid(v) ==
  \E k \in DOMAIN v.group, j \in LockedBy(v.outputs, v.lock_hash) :
    \E amt \in ReadAmount(v.outputs[j]) : PaidWith(v, k, j, amt)
MustBePaid(v) ==
  \E k \in DOMAIN v.group, j \in LockedBy(v.outputs, v.lock_hash) :
    \A amt \in ReadAmount(v.outputs[j]) : PaidWith(v, k, j, amt)

WellFormed(v) == ArgsAccepted(v.args) /\ SigReadable(v.witness)

MayAccept(v) == /\ WellFormed(v) /\ DepsMayPass(v)
                /\ InputsPass(v) /\ OutputsPass(v)
                /\ v.witness = "owner_sig" \/ MayBePaid(v)
MustAccept(v) == /\ WellFormed(v) /\ DepsMustPass(v)
                 /\ InputsPass(v) /\ OutputsPass(v)
                 /\ v.witness = "owner_sig" \/ MustBePaid(v)
=============================================================================
