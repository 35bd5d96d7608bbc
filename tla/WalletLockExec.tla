--------------------------- MODULE WalletLockExec ---------------------------
(***************************************************************************)
(* One run of the wallet lock script, main() of c/reuse_coin_wallet.c,     *)
(* stage by stage and loop iteration by loop iteration, with the syscalls  *)
(* that may fail and the two reads of uninitialised memory.  pc names the  *)
(* C function whose next step is due; i is the loop index, from 1.         *)
(***************************************************************************)
EXTENDS WalletLock

CONSTANT Views  \* the transactions the script is run on

ASSUME ViewsAssumption ==
  /\ Views \subseteq View
  /\ \A v \in Views : LockedBy(v.group, v.lock_hash) = DOMAIN v.group

VARIABLES
  view,                  \* the transaction
  pc,                    \* stage of main()
  i,                     \* index of the current loop
  has_sig,
  deps_with_lock_hash,
  expected_udt_pay,
  input,                 \* input_wallet_count, input_udt_balance, input_wallet_capacity
  output,                \* the same for the output wallet
  ret                    \* the script's return code, "none" while it runs

counters == <<has_sig, deps_with_lock_hash, expected_udt_pay, input, output>>
vars == <<view, pc, i, counters, ret>>

Stages == {"args", "has_signature", "check_deps", "check_inputs",
           "check_outputs", "decide", "done"}
Codes == {"none", "SUCCESS", "syscall_code", "ERROR_SYSCALL", "ERROR_ENCODING",
          "ERROR_ARGUMENTS_LEN", "ERROR_WITNESS_SIZE", "ERROR_CELL_DEP_LOAD",
          "ERROR_UNIQUE_SCRIPT_VIOLATION", "ERROR_UNIQUE_SCRIPT_MISMATCH",
          "ERROR_UNIQUE_SCRIPT_MISSING_TYPE_FIELD", "ERROR_WALLET_CELL_MISSING_TYPE",
          "ERROR_WALLET_EXPECTS_DIFFERENT_TOKEN_TYPE",
          "ERROR_TOO_MANY_WALLETS_OF_SAME_TYPE", "ERROR_NO_INPUT_WALLET_FOUND",
          "ERROR_NO_OUTPUT_WALLET_FOUND", "ERROR_WALLET_UNLOCK"}
Wallet == [count : Nat, udt : Amounts, capacity : Capacities]
NoWallet == [count |-> 0, udt |-> 0, capacity |-> 0]

Init ==
  /\ view \in Views
  /\ pc = "args" /\ i = 1 /\ ret = "none"
  /\ has_sig = 0
  /\ deps_with_lock_hash = 0 /\ expected_udt_pay = 0
  /\ input = NoWallet /\ output = NoWallet

-----------------------------------------------------------------------------
Return(code) == pc' = "done" /\ ret' = code /\ UNCHANGED <<view, i, counters>>

\* Next iteration of the current loop, first iteration of the next stage's.
Iterate == i' = i + 1 /\ UNCHANGED <<view, pc, ret>>
Enter(stage) == pc' = stage /\ i' = 1 /\ UNCHANGED <<view, ret>>

ParseArgs ==
  /\ pc = "args"
  /\ \/ ~ArgsAccepted(view.args) /\ Return("ERROR_ARGUMENTS_LEN")
     \/ ArgsAccepted(view.args) /\ Enter("has_signature") /\ UNCHANGED counters

\* has_signature(), and the initialisation of expected_udt_pay after it.
HasSignature ==
  /\ pc = "has_signature"
  /\ \/ view.witness = "oversize" /\ Return("ERROR_WITNESS_SIZE")
     \/ view.witness \in {"malformed", "no_lock"} /\ Return("ERROR_ENCODING")
     \/ /\ SigReadable(view.witness)
        /\ has_sig' = IF HasSig(view.witness) THEN 1 ELSE 0
        /\ expected_udt_pay' = view.args.udt_rate
        /\ Enter("check_deps")
        /\ UNCHANGED <<deps_with_lock_hash, input, output>>

-----------------------------------------------------------------------------
\* *expected_udt_pay += udt_rate, in an uint128_t; nobody reads the sum.
AddRate_Unbounded == expected_udt_pay + view.args.udt_rate   \* mutant: no wrap
AddRate == (expected_udt_pay + view.args.udt_rate) % U128

TooManyScripts == UniqMode(view.args) /\ deps_with_lock_hash > 1

\* The dep cell is a script of this wallet.  In one-script mode it must have a
\* type script, whose hash is then compared with bytes nobody wrote.
CountScript ==
  /\ view.deps[i].lock = view.lock_hash
  /\ \/ /\ UniqMode(view.args) => view.deps[i].type # NoType
        /\ deps_with_lock_hash' = deps_with_lock_hash + 1
        /\ expected_udt_pay' = AddRate
        /\ Iterate /\ UNCHANGED <<has_sig, input, output>>
     \/ /\ UniqMode(view.args) /\ view.deps[i].type = NoType
        /\ Return("ERROR_UNIQUE_SCRIPT_MISSING_TYPE_FIELD")
     \/ /\ UniqMode(view.args) /\ view.deps[i].type # NoType
        /\ Return("ERROR_UNIQUE_SCRIPT_MISMATCH")

CheckDeps ==
  /\ pc = "check_deps"
  /\ \/ TooManyScripts /\ Return("ERROR_UNIQUE_SCRIPT_VIOLATION")
     \/ ~TooManyScripts /\ i > Len(view.deps)
        /\ Enter("check_inputs") /\ UNCHANGED counters
     \/ ~TooManyScripts /\ i <= Len(view.deps) /\ CountScript
     \/ /\ ~TooManyScripts /\ i <= Len(view.deps)
        /\ view.deps[i].lock # view.lock_hash
        /\ Iterate /\ UNCHANGED counters

-----------------------------------------------------------------------------
\* Mutant of Misfit: any number of wallet cells will do.
Misfit_NoCount(cell, count) ==
  IF cell.type = NoType THEN "ERROR_WALLET_CELL_MISSING_TYPE"
  ELSE IF cell.type # view.args.token_type
       THEN "ERROR_WALLET_EXPECTS_DIFFERENT_TOKEN_TYPE"
  ELSE "none"

\* The checks check_inputs and check_outputs share: the cell's type script and
\* the number of wallet cells so far, in this order.
Misfit(cell, count) ==
  IF cell.type = NoType THEN "ERROR_WALLET_CELL_MISSING_TYPE"
  ELSE IF cell.type # view.args.token_type
       THEN "ERROR_WALLET_EXPECTS_DIFFERENT_TOKEN_TYPE"
  ELSE IF count + 1 > 1 THEN "ERROR_TOO_MANY_WALLETS_OF_SAME_TYPE"
  ELSE "none"

CheckInput(cell) ==
  \/ Misfit(cell, input.count) # "none" /\ Return(Misfit(cell, input.count))
  \/ /\ Misfit(cell, input.count) = "none"
     /\ cell.size # "exact" /\ Return("ERROR_ENCODING")
  \/ /\ Misfit(cell, input.count) = "none" /\ cell.size = "exact"
     /\ input' = [count |-> input.count + 1, udt |-> cell.amt,
                  capacity |-> cell.capacity]
     /\ Iterate
     /\ UNCHANGED <<has_sig, deps_with_lock_hash, expected_udt_pay, output>>

CheckInputs ==
  /\ pc = "check_inputs"
  /\ \/ i <= Len(view.group) /\ CheckInput(view.group[i])
     \/ i > Len(view.group) /\ input.count < 1 /\ Return("ERROR_NO_INPUT_WALLET_FOUND")
     \/ /\ i > Len(view.group) /\ input.count >= 1
        /\ Enter("check_outputs") /\ UNCHANGED counters

\* `continue` on an output of another lock; mutant: without i++.
SkipOutput_NoIncrement == UNCHANGED vars
SkipOutput == Iterate /\ UNCHANGED counters

CheckOutput(cell) ==
  \/ cell.lock # view.lock_hash /\ SkipOutput
  \/ /\ cell.lock = view.lock_hash /\ Misfit(cell, output.count) # "none"
     /\ Return(Misfit(cell, output.count))
  \/ /\ cell.lock = view.lock_hash /\ Misfit(cell, output.count) = "none"
     /\ \E amt \in ReadAmount(cell) :
          output' = [count |-> output.count + 1, udt |-> amt,
                     capacity |-> cell.capacity]
     /\ Iterate
     /\ UNCHANGED <<has_sig, deps_with_lock_hash, expected_udt_pay, input>>

\* Mutant of CheckOutputs: a missing output wallet is not an error.
CheckOutputs_NoMinimum ==
  /\ pc = "check_outputs"
  /\ \/ i <= Len(view.outputs) /\ CheckOutput(view.outputs[i])
     \/ i > Len(view.outputs) /\ Enter("decide") /\ UNCHANGED counters

CheckOutputs ==
  /\ pc = "check_outputs"
  /\ \/ i <= Len(view.outputs) /\ CheckOutput(view.outputs[i])
     \/ i > Len(view.outputs) /\ output.count < 1 /\ Return("ERROR_NO_OUTPUT_WALLET_FOUND")
     \/ /\ i > Len(view.outputs) /\ output.count >= 1
        /\ Enter("decide") /\ UNCHANGED counters

-----------------------------------------------------------------------------
\* verify_secp256k1_blake160_sighash_all: a signature of the owner verifies,
\* unless a load on the way fails (its data cell is not among the deps).
Verified ==
  IF view.witness = "owner_sig"
  THEN IF MayFail(view) THEN BOOLEAN ELSE {TRUE}
  ELSE {FALSE}

\* Mutant of Decide: with a signature that does not verify, no deposit helps.
Decide_SignatureOnly ==
  /\ pc = "decide"
  /\ \E verified \in Verified :
       Return(IF IF has_sig = 1 THEN verified ELSE Paid(view.args, input, output)
              THEN "SUCCESS" ELSE "ERROR_WALLET_UNLOCK")

\* The end of main(): the signature, else the deposit.  The deposit is held
\* against udt_pay_amt; expected_udt_pay is not read.
Decide ==
  /\ pc = "decide"
  /\ \E verified \in Verified :
       LET signed == has_sig = 1 /\ verified
           paid == Paid(view.args, input, output) /\ input.count = 1 /\ output.count = 1
       IN  Return(IF signed \/ paid THEN "SUCCESS" ELSE "ERROR_WALLET_UNLOCK")

\* A load returns a code its caller has no case for.  (An index out of bound
\* while loading a field of a cell whose lock hash was just loaded, as at line
\* 205, is no such case: it is the same index of the same transaction.)
FaultCodes ==
  CASE pc = "args" -> {"ERROR_SYSCALL", "syscall_code"}
    [] pc \in {"has_signature", "check_inputs"} -> {"ERROR_SYSCALL"}
    [] pc = "check_deps" -> {"ERROR_CELL_DEP_LOAD"} \union
         (IF UniqMode(view.args) /\ i <= Len(view.deps) /\ view.deps[i].lock = view.lock_hash
          THEN {"ERROR_SYSCALL"} ELSE {})
    [] pc = "check_outputs" -> {"ERROR_SYSCALL"} \union
         (IF i <= Len(view.outputs) /\ view.outputs[i].lock = view.lock_hash
          THEN {"syscall_code"} ELSE {})
    [] OTHER -> {}

SyscallFails ==
  /\ MayFail(view)
  /\ pc = "check_deps" => ~TooManyScripts
  /\ \E code \in FaultCodes : Return(code)

Next == \/ ParseArgs \/ HasSignature \/ CheckDeps \/ CheckInputs \/ CheckOutputs
        \/ Decide \/ SyscallFails

\* The VM runs the script until it returns.
Spec == Init /\ [][Next]_vars /\ WF_vars(Next)

-----------------------------------------------------------------------------
\* Type invariant: every variable stays in its domain, the u128 in its width.
TypeOK ==
  /\ view \in View /\ LockedBy(view.group, view.lock_hash) = DOMAIN view.group
  /\ pc \in Stages
  /\ i \in Nat \ {0}
  /\ has_sig \in {0, 1}
  /\ deps_with_lock_hash \in Nat
  /\ expected_udt_pay \in Amounts
  /\ input \in Wallet /\ output \in Wallet
  /\ ret \in Codes /\ (ret = "none" <=> pc # "done")

After(stages) == pc \in stages

\* What the deps read so far say: the count of scripts is that of the prefix,
\* as far as the one-script mode tells (none, one, more).
DepsRead ==
  LET seen == {k \in LockedBy(view.deps, view.lock_hash) : k < i}
  IN  /\ deps_with_lock_hash = 0 <=> seen = {}
      /\ deps_with_lock_hash <= 1 => AtMostOne(seen)
      /\ deps_with_lock_hash > 1 => ~AtMostOne(seen)
      /\ UniqMode(view.args) => \A k \in seen : view.deps[k].type # NoType

\* What the inputs read so far say: each was a wallet cell of the token, so the
\* count is the number of iterations done.
InputsRead ==
  /\ i = input.count + 1 /\ input.count \in {0, 1}
  /\ input.count = 1 =>
       /\ 1 \in DOMAIN view.group
       /\ view.group[1].type = view.args.token_type
       /\ view.group[1].size = "exact"
       /\ input = [count |-> 1, udt |-> view.group[1].amt,
                   capacity |-> view.group[1].capacity]

\* The one wallet cell among the inputs, once check_inputs is over.
InputKnown ==
  /\ InputsPass(view)
  /\ input = [count |-> 1, udt |-> view.group[1].amt,
              capacity |-> view.group[1].capacity]

\* What the outputs read so far say, and what the script holds of them.
OutputHeld(j) ==
  /\ view.outputs[j].type = view.args.token_type
  /\ output.udt \in ReadAmount(view.outputs[j])
  /\ output.capacity = view.outputs[j].capacity
OutputsRead ==
  LET seen == {j \in LockedBy(view.outputs, view.lock_hash) : j < i}
  IN  /\ output.count \in {0, 1}
      /\ output.count = 0 => seen = {}
      /\ output.count = 1 => ExactlyOne(seen) /\ \A j \in seen : OutputHeld(j)
OutputKnown ==
  /\ OutputsPass(view) /\ output.count = 1
  /\ \A j \in LockedBy(view.outputs, view.lock_hash) : OutputHeld(j)

\* The inductive invariant: what each stage may rely on, of the stages before
\* it and of the iterations done, in main() from has_signature to the verdict.
IInv ==
  /\ After({"has_signature", "check_deps", "check_inputs", "check_outputs", "decide"})
       => ArgsAccepted(view.args)
  /\ After({"check_deps", "check_inputs", "check_outputs", "decide"})
       => SigReadable(view.witness) /\ (has_sig = 1 <=> HasSig(view.witness))
  /\ After({"check_deps"}) => DepsRead
  /\ After({"check_inputs", "check_outputs", "decide"}) => DepsMayPass(view)
  /\ After({"args", "has_signature"}) => deps_with_lock_hash = 0
  /\ After({"args", "has_signature", "check_deps"}) => input.count = 0
  /\ After({"check_inputs"}) => InputsRead
  /\ After({"check_outputs", "decide"}) => InputKnown
  /\ After({"args", "has_signature", "check_deps", "check_inputs"}) => output.count = 0
  /\ After({"check_outputs"}) => OutputsRead
  /\ After({"decide"}) => OutputKnown
  /\ After({"done"}) => /\ ret = "SUCCESS" => MayAccept(view)
                        /\ ret # "SUCCESS" => MayFail(view) \/ ~MustAccept(view)

-----------------------------------------------------------------------------
\* The run against its promise: main()'s return code is the verdict of the
\* predicates of WalletLock, whatever the order of the stages and the early
\* returns (lines 327-405).
verdict == CASE pc # "done" -> "running"
             [] pc = "done" /\ ret = "SUCCESS" -> "accept"
             [] OTHER -> "reject"
Verdict == INSTANCE ScriptVerdict
ImplementsVerdict == Verdict!Spec

\* Every run of the script ends: each loop of check_deps, check_inputs and
\* check_outputs advances its index on every path, `continue` included.
Terminates == <>(pc = "done")

\* A refusal for the deposit alone is the last word: ERROR_WALLET_UNLOCK
\* (line 403) is only returned on a transaction whose cells are otherwise in
\* order, with a signature that is absent or that did not verify.
UnlockErrorMeansUnpaid ==
  ret = "ERROR_WALLET_UNLOCK" =>
    /\ WellFormed(view) /\ DepsMayPass(view) /\ InputsPass(view) /\ OutputsPass(view)
    /\ ~MustBePaid(view)
    /\ view.witness = "owner_sig" => MayFail(view)

-----------------------------------------------------------------------------
\* The comment in main() on check_deps (lines 344-345): in one-script mode the
\* dep cell's type script matches the reusable script's type hash.
UniqueScriptTypeMatches ==
  ret = "SUCCESS" /\ UniqMode(view.args) =>
    \A k \in LockedBy(view.deps, view.lock_hash) :
      view.deps[k].type = view.args.reusable_script_type_hash
=============================================================================
