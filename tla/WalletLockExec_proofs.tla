------------------------ MODULE WalletLockExec_proofs ------------------------
(***************************************************************************)
(* Proofs about a run of the wallet lock script, for every transaction,    *)
(* every wallet argument and every width of the integers.                  *)
(***************************************************************************)
EXTENDS WalletLockExec, TLAPS

\* The loops, the early returns and the syscall failures leave every variable
\* of main() in its domain.
THEOREM Typing == Spec => []TypeOK
<1>1. Init => TypeOK
  <2> SUFFICES ASSUME Init PROVE TypeOK
    OBVIOUS
  <2>1. view \in View /\ LockedBy(view.group, view.lock_hash) = DOMAIN view.group
    BY ViewsAssumption DEF Init
  <2>2. expected_udt_pay \in Amounts /\ input \in Wallet /\ output \in Wallet
    BY WidthAssumption DEF Init, NoWallet, Wallet, Amounts, Capacities
  <2> QED BY <2>1, <2>2 DEF Init, TypeOK, Stages, Codes
<1>2. TypeOK /\ [Next]_vars => TypeOK'
  <2> SUFFICES ASSUME TypeOK, [Next]_vars PROVE TypeOK'
    OBVIOUS
  <2> USE DEF TypeOK, Stages, Codes, counters
  <2>a. view' = view
    BY DEF Next, vars, ParseArgs, HasSignature, CheckDeps, CountScript, CheckInputs,
           CheckInput, CheckOutputs, CheckOutput, SkipOutput, Decide, SyscallFails,
           Return, Enter, Iterate
  <2>0. view.args \in WalletArgs /\ view.group \in Seq(Cell) /\ view.outputs \in Seq(Cell)
    BY DEF View
  <2>1. CASE ParseArgs
    BY <2>1 DEF ParseArgs, Return, Enter
  <2>2. CASE HasSignature
    <3>1. view.args.udt_rate \in Amounts
      BY <2>0 DEF WalletArgs
    <3>2. has_sig' \in {0, 1}
      BY <2>2 DEF HasSignature, Return, HasSig
    <3>3. HasSignature => has_sig' \in {0, 1} /\ expected_udt_pay' \in Amounts
      BY <3>1, <3>2 DEF HasSignature, Return
    <3> QED BY <2>2, <3>3 DEF HasSignature, Return, Enter
  <2>3. CASE CheckDeps
    <3>1. AddRate \in Amounts
      <4>1. U128 \in Nat \ {0} /\ Amounts \subseteq Nat
        BY WidthAssumption DEF Amounts
      <4>2. expected_udt_pay + view.args.udt_rate \in Nat
        BY <2>0, <4>1 DEF WalletArgs
      <4> HIDE DEF TypeOK
      <4> QED BY <4>1, <4>2 DEF AddRate, Amounts
    <3>2. CASE i <= Len(view.deps) /\ CountScript
      BY <2>3, <3>1, <3>2 DEF CheckDeps, CountScript, Return, Iterate
    <3> QED BY <2>3, <3>2 DEF CheckDeps, Return, Enter, Iterate
  <2>4. CASE CheckInputs
    <3>1. CASE i <= Len(view.group) /\ CheckInput(view.group[i])
      <4>1. view.group[i] \in Cell
        BY <2>0, <3>1
      <4> QED BY <2>4, <3>1, <4>1
          DEF CheckInputs, CheckInput, Misfit, Return, Iterate, Wallet, Cell
    <3> QED BY <2>4, <3>1 DEF CheckInputs, Return, Enter
  <2>5. CASE CheckOutputs
    <3>1. CASE i <= Len(view.outputs) /\ CheckOutput(view.outputs[i])
      <4>1. view.outputs[i] \in Cell
        BY <2>0, <3>1
      <4> QED BY <2>5, <3>1, <4>1
          DEF CheckOutputs, CheckOutput, SkipOutput, ReadAmount, Misfit, Return,
              Iterate, Wallet, Cell
    <3> QED BY <2>5, <3>1 DEF CheckOutputs, Return, Enter
  <2>6. CASE Decide
    BY <2>6 DEF Decide, Return
  <2>7. CASE SyscallFails
    BY <2>7 DEF SyscallFails, FaultCodes, Return
  <2>8. CASE UNCHANGED vars
    BY <2>8 DEF vars
  <2> QED
    BY <2>1, <2>2, <2>3, <2>4, <2>5, <2>6, <2>7, <2>8 DEF Next
<1> QED BY <1>1, <1>2, PTL DEF Spec
-----------------------------------------------------------------------------
\* One more dep cell read keeps what DepsRead says of the prefix.
LEMMA DepsReadStep ==
  ASSUME TypeOK, DepsRead, pc = "check_deps", ~TooManyScripts, i <= Len(view.deps),
         view' = view, i' = i + 1,
         \/ /\ view.deps[i].lock = view.lock_hash
            /\ UniqMode(view.args) => view.deps[i].type # NoType
            /\ deps_with_lock_hash' = deps_with_lock_hash + 1
         \/ /\ view.deps[i].lock # view.lock_hash
            /\ deps_with_lock_hash' = deps_with_lock_hash
  PROVE  DepsRead'
<1> DEFINE seen == {k \in LockedBy(view.deps, view.lock_hash) : k < i}
<1>1. i \in DOMAIN view.deps /\ DOMAIN view.deps = 1 .. Len(view.deps) /\ i \in Nat
  BY DEF TypeOK, View
<1>2. CASE view.deps[i].lock = view.lock_hash
  <2>1. seen' = seen \union {i} /\ i \notin seen
    BY <1>1, <1>2 DEF LockedBy
  <2>2. deps_with_lock_hash' = deps_with_lock_hash + 1 /\ deps_with_lock_hash \in Nat
    BY <1>2 DEF TypeOK
  <2>3. deps_with_lock_hash' # 0 /\ seen' # {}
    BY <2>1, <2>2
  <2>4. deps_with_lock_hash' <= 1 => AtMostOne(seen')
    <3>1. deps_with_lock_hash' <= 1 => seen = {}
      BY <2>2 DEF DepsRead
    <3> QED BY <2>1, <3>1 DEF AtMostOne
  <2>5. deps_with_lock_hash' > 1 => ~AtMostOne(seen')
    <3>1. deps_with_lock_hash' > 1 => seen # {}
      BY <2>2 DEF DepsRead
    <3> QED BY <2>1, <3>1 DEF AtMostOne
  <2>6. UniqMode(view'.args) => \A k \in seen' : view'.deps[k].type # NoType
    BY <1>2, <2>1 DEF DepsRead
  <2> QED BY <2>3, <2>4, <2>5, <2>6 DEF DepsRead
<1>3. CASE view.deps[i].lock # view.lock_hash
  <2>1. seen' = seen
    BY <1>1, <1>3 DEF LockedBy
  <2> QED
    BY <1>3, <2>1 DEF DepsRead
<1> QED BY <1>2, <1>3

\* Reading past the last dep cell, in a loop that did not stop before, is passing.
LEMMA DepsReadEnd ==
  ASSUME TypeOK, DepsRead, ~TooManyScripts, i > Len(view.deps)
  PROVE  DepsMayPass(view)
<1>1. {k \in LockedBy(view.deps, view.lock_hash) : k < i} = LockedBy(view.deps, view.lock_hash)
  BY DEF TypeOK, View, LockedBy
<1>2. UniqMode(view.args) => deps_with_lock_hash <= 1
  BY DEF TooManyScripts, TypeOK
<1> QED BY <1>1, <1>2 DEF DepsRead, DepsMayPass

\* A script of the wallet among the dep cells, in one-script mode, is no promise.
LEMMA ScriptSeen ==
  ASSUME NEW k \in DOMAIN view.deps, view.deps[k].lock = view.lock_hash, UniqMode(view.args)
  PROVE  ~MustAccept(view)
BY DEF MustAccept, DepsMustPass, LockedBy

LEMMA CheckDepsStep == TypeOK /\ IInv /\ CheckDeps => IInv'
<1> SUFFICES ASSUME TypeOK, IInv, CheckDeps PROVE IInv'
  OBVIOUS
<1> USE DEF After, counters
<1>0. pc = "check_deps" /\ DepsRead /\ view.deps \in Seq(Cell) /\ i \in Nat \ {0}
  BY DEF CheckDeps, IInv, TypeOK, View
<1>1. CASE TooManyScripts /\ Return("ERROR_UNIQUE_SCRIPT_VIOLATION")
  <2>1. ~MustAccept(view)
    <3>1. PICK k \in LockedBy(view.deps, view.lock_hash) : TRUE
      BY <1>0, <1>1 DEF DepsRead, TooManyScripts, AtMostOne
    <3> QED BY <1>1, <3>1, ScriptSeen DEF TooManyScripts, LockedBy
  <2> QED BY <1>1, <2>1 DEF IInv, Return
<1>2. CASE ~TooManyScripts /\ i > Len(view.deps) /\ Enter("check_inputs") /\ UNCHANGED counters
  <2>1. DepsMayPass(view)
    BY <1>0, <1>2, DepsReadEnd
  <2>2. input.count = 0 /\ output.count = 0
    BY <1>0 DEF IInv
  <2> QED BY <1>0, <1>2, <2>1, <2>2 DEF IInv, Enter, InputsRead
<1>3. CASE ~TooManyScripts /\ i <= Len(view.deps) /\ CountScript
  <2>1. i \in DOMAIN view.deps /\ view.deps[i].lock = view.lock_hash
    BY <1>0, <1>3 DEF CountScript
  <2>2. CASE Iterate
    <3>1. /\ UniqMode(view.args) => view.deps[i].type # NoType
          /\ deps_with_lock_hash' = deps_with_lock_hash + 1
          /\ UNCHANGED <<has_sig, input, output>>
      BY <1>0, <1>3, <2>2 DEF CountScript, Iterate, Return
    <3>2. DepsRead'
      BY <1>0, <1>3, <2>1, <2>2, <3>1, DepsReadStep DEF Iterate
    <3> QED BY <1>0, <2>2, <3>1, <3>2 DEF IInv, Iterate
  <2>3. CASE \/ UniqMode(view.args) /\ Return("ERROR_UNIQUE_SCRIPT_MISSING_TYPE_FIELD")
             \/ UniqMode(view.args) /\ Return("ERROR_UNIQUE_SCRIPT_MISMATCH")
    <3>1. ~MustAccept(view)
      BY <2>1, <2>3, ScriptSeen
    <3> QED BY <2>3, <3>1 DEF IInv, Return
  <2> QED BY <1>3, <2>2, <2>3 DEF CountScript
<1>4. CASE /\ ~TooManyScripts /\ i <= Len(view.deps)
           /\ view.deps[i].lock # view.lock_hash
           /\ Iterate /\ UNCHANGED counters
  <2>1. DepsRead'
    BY <1>0, <1>4, DepsReadStep DEF Iterate
  <2> QED BY <1>0, <1>4, <2>1 DEF IInv, Iterate
<1> QED BY <1>1, <1>2, <1>3, <1>4 DEF CheckDeps

-----------------------------------------------------------------------------
LEMMA CheckInputsStep == TypeOK /\ IInv /\ CheckInputs => IInv'
<1> SUFFICES ASSUME TypeOK, IInv, CheckInputs PROVE IInv'
  OBVIOUS
<1> USE DEF After, counters
<1>0. /\ pc = "check_inputs" /\ InputsRead /\ view.group \in Seq(Cell)
      /\ i \in Nat \ {0} /\ output.count = 0
  BY DEF CheckInputs, IInv, TypeOK, View
<1>1. CASE i <= Len(view.group) /\ CheckInput(view.group[i])
  <2> DEFINE cell == view.group[i]
  <2>0. i \in DOMAIN view.group
    BY <1>0, <1>1
  <2>1. CASE Misfit(cell, input.count) # "none" /\ Return(Misfit(cell, input.count))
    <3>1. ~InputsPass(view)
      <4>1. CASE cell.type # view.args.token_type
        BY <2>0, <4>1 DEF InputsPass
      <4>2. CASE input.count + 1 > 1
        <5>1. i = 2 /\ 1 \in DOMAIN view.group
          BY <1>0, <4>2 DEF InputsRead
        <5> QED BY <2>0, <5>1 DEF InputsPass, ExactlyOne, AtMostOne
      <4>3. CASE cell.type = NoType /\ cell.type = view.args.token_type
        BY <4>3, NoTypeAssumption DEF TypeOK, View, WalletArgs
      <4> QED BY <2>1, <4>1, <4>2, <4>3 DEF Misfit
    <3>2. Misfit(cell, input.count) # "SUCCESS"
      BY DEF Misfit
    <3> QED BY <2>1, <3>1, <3>2 DEF IInv, Return, MustAccept
  <2>2. CASE cell.size # "exact" /\ Return("ERROR_ENCODING")
    BY <2>0, <2>2 DEF IInv, Return, MustAccept, InputsPass
  <2>3. CASE /\ Misfit(cell, input.count) = "none" /\ cell.size = "exact"
             /\ input' = [count |-> input.count + 1, udt |-> cell.amt,
                          capacity |-> cell.capacity]
             /\ Iterate
             /\ UNCHANGED <<has_sig, deps_with_lock_hash, expected_udt_pay, output>>
    <3>1. input.count = 0 /\ i = 1 /\ cell.type = view.args.token_type
      BY <1>0, <2>3 DEF InputsRead, Misfit
    <3>2. InputsRead'
      BY <2>0, <2>3, <3>1 DEF InputsRead, Iterate
    <3> QED BY <1>0, <2>3, <3>2 DEF IInv, Iterate
  <2> QED BY <1>1, <2>1, <2>2, <2>3 DEF CheckInput
<1>2. CASE /\ i > Len(view.group) /\ input.count < 1
           /\ Return("ERROR_NO_INPUT_WALLET_FOUND")
  <2>1. DOMAIN view.group = {}
    BY <1>0, <1>2 DEF InputsRead
  <2> QED BY <1>2, <2>1 DEF IInv, Return, MustAccept, InputsPass, ExactlyOne
<1>3. CASE /\ i > Len(view.group) /\ input.count >= 1
           /\ Enter("check_outputs") /\ UNCHANGED counters
  <2>1. input.count = 1 /\ DOMAIN view.group = {1}
    BY <1>0, <1>3 DEF InputsRead
  <2>2. InputKnown
    BY <1>0, <2>1 DEF InputsRead, InputKnown, InputsPass, ExactlyOne, AtMostOne
  <2>3. OutputsRead'
    BY <1>0, <1>3 DEF OutputsRead, Enter, LockedBy, TypeOK, View
  <2> QED BY <1>0, <1>3, <2>2, <2>3 DEF IInv, Enter, InputKnown
<1> QED BY <1>1, <1>2, <1>3 DEF CheckInputs

-----------------------------------------------------------------------------
\* One more output read: one that is not the wallet's adds nothing to the prefix.
LEMMA OutputSkipped ==
  ASSUME TypeOK, OutputsRead, i \in DOMAIN view.outputs,
         view.outputs[i].lock # view.lock_hash,
         i' = i + 1, view' = view, output' = output
  PROVE  OutputsRead'
<1> DEFINE seen == {j \in LockedBy(view.outputs, view.lock_hash) : j < i}
<1>1. seen' = seen
  BY DEF LockedBy, TypeOK, View
<1> QED BY <1>1 DEF OutputsRead, OutputHeld

\* ... and the first one that is becomes the wallet the script holds.
LEMMA OutputCounted ==
  ASSUME TypeOK, OutputsRead, i \in DOMAIN view.outputs,
         view.outputs[i].lock = view.lock_hash, output.count = 0,
         view.outputs[i].type = view.args.token_type,
         NEW amt \in ReadAmount(view.outputs[i]),
         i' = i + 1, view' = view,
         output' = [count |-> output.count + 1, udt |-> amt,
                    capacity |-> view.outputs[i].capacity]
  PROVE  OutputsRead'
<1> DEFINE seen == {j \in LockedBy(view.outputs, view.lock_hash) : j < i}
<1>1. seen = {}
  BY DEF OutputsRead
<1>2. seen' = {i}
  <2>1. \A j \in DOMAIN view.outputs : j < i + 1 <=> j < i \/ j = i
    BY DEF TypeOK, View
  <2> QED BY <1>1, <2>1 DEF LockedBy
<1>3. output'.count = 1
  OBVIOUS
<1> QED BY <1>2, <1>3 DEF OutputsRead, OutputHeld, ExactlyOne, AtMostOne

LEMMA CheckOutputsStep == TypeOK /\ IInv /\ CheckOutputs => IInv'
<1> SUFFICES ASSUME TypeOK, IInv, CheckOutputs PROVE IInv'
  OBVIOUS
<1> USE DEF After, counters
<1>0. /\ pc = "check_outputs" /\ OutputsRead /\ view.outputs \in Seq(Cell)
      /\ i \in Nat \ {0} /\ InputKnown
  BY DEF CheckOutputs, IInv, TypeOK, View
<1>1. CASE i <= Len(view.outputs) /\ CheckOutput(view.outputs[i])
  <2> DEFINE cell == view.outputs[i]
  <2>0. i \in DOMAIN view.outputs
    BY <1>0, <1>1
  <2>1. CASE cell.lock # view.lock_hash /\ SkipOutput
    <3>1. OutputsRead'
      BY <1>0, <2>0, <2>1, OutputSkipped DEF SkipOutput, Iterate
    <3> QED BY <1>0, <2>1, <3>1 DEF IInv, SkipOutput, Iterate, InputKnown
  <2>2. CASE /\ cell.lock = view.lock_hash /\ Misfit(cell, output.count) # "none"
             /\ Return(Misfit(cell, output.count))
    <3>1. ~OutputsPass(view)
      <4>1. CASE cell.type # view.args.token_type
        BY <2>0, <2>2, <4>1 DEF OutputsPass, LockedBy
      <4>2. CASE output.count + 1 > 1
        <5>1. PICK j \in LockedBy(view.outputs, view.lock_hash) : j < i
          BY <1>0, <4>2 DEF OutputsRead, ExactlyOne
        <5>2. i \in LockedBy(view.outputs, view.lock_hash) /\ j # i
          BY <1>0, <2>0, <2>2, <5>1 DEF LockedBy
        <5> QED BY <5>1, <5>2 DEF OutputsPass, ExactlyOne, AtMostOne
      <4>3. CASE cell.type = NoType /\ cell.type = view.args.token_type
        BY <4>3, NoTypeAssumption DEF TypeOK, View, WalletArgs
      <4> QED BY <2>2, <4>1, <4>2, <4>3 DEF Misfit
    <3>2. Misfit(cell, output.count) # "SUCCESS"
      BY DEF Misfit
    <3> QED BY <2>2, <3>1, <3>2 DEF IInv, Return, MustAccept
  <2>3. CASE /\ cell.lock = view.lock_hash /\ Misfit(cell, output.count) = "none"
             /\ \E amt \in ReadAmount(cell) :
                  output' = [count |-> output.count + 1, udt |-> amt,
                             capacity |-> cell.capacity]
             /\ Iterate
             /\ UNCHANGED <<has_sig, deps_with_lock_hash, expected_udt_pay, input>>
    <3>1. output.count = 0 /\ cell.type = view.args.token_type
      BY <1>0, <2>3 DEF OutputsRead, Misfit
    <3>2. OutputsRead'
      BY <1>0, <2>0, <2>3, <3>1, OutputCounted DEF Iterate
    <3> QED BY <1>0, <2>3, <3>2 DEF IInv, Iterate, InputKnown
  <2> QED BY <1>1, <2>1, <2>2, <2>3 DEF CheckOutput
<1> DEFINE wallets == LockedBy(view.outputs, view.lock_hash)
<1>2. i > Len(view.outputs) => {j \in wallets : j < i} = wallets
  BY <1>0 DEF LockedBy
<1>3. CASE /\ i > Len(view.outputs) /\ output.count < 1
           /\ Return("ERROR_NO_OUTPUT_WALLET_FOUND")
  <2>1. wallets = {}
    BY <1>0, <1>2, <1>3 DEF OutputsRead
  <2> QED BY <1>3, <2>1 DEF IInv, Return, MustAccept, OutputsPass, ExactlyOne
<1>4. CASE /\ i > Len(view.outputs) /\ output.count >= 1
           /\ Enter("decide") /\ UNCHANGED counters
  <2>0. output.count = 1
    BY <1>0, <1>4 DEF OutputsRead
  <2>1. ExactlyOne(wallets) /\ \A j \in wallets : OutputHeld(j)
    BY <1>0, <1>2, <1>4, <2>0 DEF OutputsRead
  <2>2. OutputKnown
    BY <2>0, <2>1 DEF OutputKnown, OutputsPass, OutputHeld
  <2> QED BY <1>0, <1>4, <2>2 DEF IInv, Enter, InputKnown, OutputKnown, OutputHeld
<1> QED BY <1>1, <1>3, <1>4 DEF CheckOutputs

-----------------------------------------------------------------------------
\* When main() comes to its last `if`, the deposit it computes from what it
\* holds is one the transaction may be read to make, and is made if every
\* reading of the transaction makes it.
LEMMA DepositHeld ==
  ASSUME TypeOK, InputKnown, OutputKnown
  PROVE  /\ Paid(view.args, input, output) => MayBePaid(view)
         /\ MustBePaid(view) => Paid(view.args, input, output)
<1>1. DOMAIN view.group = {1}
  <2>1. 1 \in DOMAIN view.group
    BY DEF InputKnown, InputsPass, ExactlyOne, TypeOK, View
  <2> QED BY <2>1 DEF InputKnown, InputsPass, ExactlyOne, AtMostOne
<1>2. PICK j \in LockedBy(view.outputs, view.lock_hash) : TRUE
  BY DEF OutputKnown, OutputsPass, ExactlyOne
<1>3. \A l \in LockedBy(view.outputs, view.lock_hash) : l = j
  BY <1>2 DEF OutputKnown, OutputsPass, ExactlyOne, AtMostOne
<1>4. OutputHeld(j)
  BY <1>2 DEF OutputKnown
<1>5. PaidWith(view, 1, j, output.udt) <=> Paid(view.args, input, output)
  BY <1>4 DEF PaidWith, Paid, InputKnown, OutputHeld
<1>6. Paid(view.args, input, output) => MayBePaid(view)
  BY <1>1, <1>2, <1>4, <1>5 DEF MayBePaid, OutputHeld
<1>7. MustBePaid(view) => Paid(view.args, input, output)
  BY <1>1, <1>3, <1>4, <1>5 DEF MustBePaid, OutputHeld
<1> QED BY <1>6, <1>7

LEMMA DecideStep == TypeOK /\ IInv /\ Decide => IInv'
<1> SUFFICES ASSUME TypeOK, IInv, Decide PROVE IInv'
  OBVIOUS
<1> USE DEF After, counters
<1>0. /\ pc = "decide" /\ InputKnown /\ OutputKnown
      /\ WellFormed(view) /\ (has_sig = 1 <=> HasSig(view.witness))
      /\ DepsMayPass(view) /\ InputsPass(view) /\ OutputsPass(view)
  BY DEF Decide, IInv, WellFormed, InputKnown, OutputKnown
<1>1. input.count = 1 /\ output.count = 1
  BY <1>0 DEF InputKnown, OutputKnown
<1>2. PICK verified \in Verified :
        Return(IF (has_sig = 1 /\ verified) \/ Paid(view.args, input, output)
               THEN "SUCCESS" ELSE "ERROR_WALLET_UNLOCK")
  BY <1>1 DEF Decide
<1>3. (has_sig = 1 /\ verified) => view.witness = "owner_sig"
  BY <1>2 DEF Verified
<1>4. view.witness = "owner_sig" /\ ~MayFail(view) => has_sig = 1 /\ verified
  BY <1>0, <1>2 DEF Verified, HasSig
<1>5. ret' = "SUCCESS" => MayAccept(view)
  BY <1>0, <1>2, <1>3, DepositHeld DEF MayAccept, Return
<1>6. ret' # "SUCCESS" => MayFail(view) \/ ~MustAccept(view)
  BY <1>0, <1>2, <1>4, DepositHeld DEF MustAccept, Return
<1> QED BY <1>2, <1>5, <1>6 DEF IInv, Return

\* IInv is inductive: every stage leaves to the next what that one relies on.
LEMMA InductiveStep == TypeOK /\ IInv /\ [Next]_vars => IInv'
<1> SUFFICES ASSUME TypeOK, IInv, [Next]_vars PROVE IInv'
  OBVIOUS
<1> USE DEF After, counters
<1>1. CASE ParseArgs
  BY <1>1 DEF ParseArgs, IInv, Return, Enter, MustAccept, WellFormed
<1>2. CASE HasSignature
  <2>1. CASE view.witness = "oversize" /\ Return("ERROR_WITNESS_SIZE")
    BY <2>1 DEF IInv, Return, MustAccept, WellFormed, SigReadable
  <2>2. CASE view.witness \in {"malformed", "no_lock"} /\ Return("ERROR_ENCODING")
    BY <2>2 DEF IInv, Return, MustAccept, WellFormed, SigReadable
  <2>3. CASE /\ SigReadable(view.witness)
             /\ has_sig' = IF HasSig(view.witness) THEN 1 ELSE 0
             /\ expected_udt_pay' = view.args.udt_rate
             /\ Enter("check_deps")
             /\ UNCHANGED <<deps_with_lock_hash, input, output>>
    <3>1. deps_with_lock_hash = 0
      BY <1>2 DEF HasSignature, IInv
    <3>2. DepsRead'
      BY <2>3, <3>1 DEF DepsRead, Enter, LockedBy, AtMostOne, TypeOK, View
    <3> QED BY <1>2, <2>3, <3>2 DEF HasSignature, IInv, Enter
  <2> QED BY <1>2, <2>1, <2>2, <2>3 DEF HasSignature
<1>3. CASE SyscallFails
  <2>1. PICK code \in FaultCodes : Return(code)
    BY <1>3 DEF SyscallFails
  <2>2. code # "SUCCESS" /\ MayFail(view)
    BY <1>3, <2>1 DEF SyscallFails, FaultCodes
  <2> QED BY <2>1, <2>2 DEF IInv, Return
<1>4. CASE UNCHANGED vars
  BY <1>4 DEF vars, IInv, DepsRead, InputsRead, InputKnown, OutputsRead,
              OutputKnown, OutputHeld
<1> QED BY <1>1, <1>2, <1>3, <1>4, CheckDepsStep, CheckInputsStep,
           CheckOutputsStep, DecideStep DEF Next

-----------------------------------------------------------------------------
\* Every state of a run satisfies the inductive invariant: the counts and
\* amounts main() holds are those of the cells read so far, and a verdict given
\* agrees with the predicates of WalletLock.
THEOREM Invariant == Spec => []IInv
<1>1. Init => IInv
  BY DEF Init, IInv, After, NoWallet
<1>2. TypeOK /\ IInv /\ [Next]_vars => IInv'
  BY InductiveStep
<1> QED BY <1>1, <1>2, Typing, PTL DEF Spec

\* CKB_SUCCESS is only returned on a transaction the wallet's owner signed or
\* that deposits at least udt_rate tokens, with one wallet cell of the token
\* consumed and one created (main() of reuse_coin_wallet.c, lines 327-405).
THEOREM Soundness == Spec => [](ret = "SUCCESS" => MayAccept(view))
<1>1. TypeOK /\ IInv => (ret = "SUCCESS" => MayAccept(view))
  BY DEF TypeOK, IInv, After
<1> QED BY <1>1, Typing, Invariant, PTL

\* With no syscall failing, the script refuses no transaction that every
\* reading of the uninitialised memory calls for accepting.
THEOREM Completeness ==
  Spec => [](pc = "done" /\ ~MayFail(view) /\ MustAccept(view) => ret = "SUCCESS")
<1>1. IInv => (pc = "done" /\ ~MayFail(view) /\ MustAccept(view) => ret = "SUCCESS")
  BY DEF IInv, After
<1> QED BY <1>1, Invariant, PTL

\* ERROR_WALLET_UNLOCK (line 403) names the deposit, and nothing else, as what
\* the transaction lacks: only the last `if` of main() returns it.
THEOREM UnlockError == Spec => []UnlockErrorMeansUnpaid
<1>1. Init => UnlockErrorMeansUnpaid
  BY DEF Init, UnlockErrorMeansUnpaid
<1>2. TypeOK /\ IInv /\ UnlockErrorMeansUnpaid /\ [Next]_vars => UnlockErrorMeansUnpaid'
  <2> SUFFICES ASSUME TypeOK, IInv, UnlockErrorMeansUnpaid, [Next]_vars
               PROVE  UnlockErrorMeansUnpaid'
    OBVIOUS
  <2>1. CASE Decide
    <3>1. /\ InputKnown /\ OutputKnown /\ WellFormed(view)
          /\ (has_sig = 1 <=> HasSig(view.witness))
          /\ DepsMayPass(view) /\ InputsPass(view) /\ OutputsPass(view)
      BY <2>1 DEF Decide, IInv, After, WellFormed, InputKnown, OutputKnown
    <3>2. input.count = 1 /\ output.count = 1
      BY <3>1 DEF InputKnown, OutputKnown
    <3>3. PICK verified \in Verified :
            Return(IF (has_sig = 1 /\ verified) \/ Paid(view.args, input, output)
                   THEN "SUCCESS" ELSE "ERROR_WALLET_UNLOCK")
      BY <2>1, <3>2 DEF Decide
    <3>4. view.witness = "owner_sig" /\ ~MayFail(view) => has_sig = 1 /\ verified
      BY <3>1, <3>3 DEF Verified, HasSig
    <3> QED BY <3>1, <3>3, <3>4, DepositHeld DEF UnlockErrorMeansUnpaid, Return
  <2>2. CASE ret' # "ERROR_WALLET_UNLOCK"
    BY <2>2 DEF UnlockErrorMeansUnpaid
  <2>3. CASE UNCHANGED vars
    BY <2>3 DEF vars, UnlockErrorMeansUnpaid
  <2>4. CASE ParseArgs \/ HasSignature \/ CheckDeps \/ CheckInputs \/ CheckOutputs
    <3>1. ret' # "ERROR_WALLET_UNLOCK"
      BY <2>4 DEF TypeOK, ParseArgs, HasSignature, CheckDeps, CountScript, CheckInputs,
                  CheckInput, CheckOutputs, CheckOutput, SkipOutput, Misfit, Return,
                  Iterate, Enter
    <3> QED BY <2>2, <3>1
  <2>5. CASE SyscallFails
    <3>1. ret' # "ERROR_WALLET_UNLOCK"
      BY <2>5 DEF SyscallFails, FaultCodes, Return
    <3> QED BY <2>2, <3>1
  <2> QED BY <2>1, <2>3, <2>4, <2>5 DEF Next
<1> QED BY <1>1, <1>2, Typing, Invariant, PTL DEF Spec

-----------------------------------------------------------------------------
\* The run of stages and loops, seen through `verdict`, is a run of ScriptVerdict,
\* which decides in one step (main() of reuse_coin_wallet.c).
THEOREM WalletImplementsVerdict == Spec => ImplementsVerdict
<1>1. Init => Verdict!Init
  BY DEF Init, Verdict!Init, verdict
<1>2. TypeOK /\ IInv' /\ [Next]_vars => [Verdict!Next]_(Verdict!vvars)
  <2> SUFFICES ASSUME TypeOK, IInv', [Next]_vars
               PROVE  [Verdict!Next]_(Verdict!vvars)
    OBVIOUS
  <2>1. view' = view
    BY DEF Next, vars, counters, ParseArgs, HasSignature, CheckDeps, CountScript,
           CheckInputs, CheckInput, CheckOutputs, CheckOutput, SkipOutput, Decide,
           SyscallFails, Return, Enter, Iterate
  <2>2. CASE pc # "done" /\ pc' = "done"
    <3>1. verdict = "running" /\ verdict' \in {"accept", "reject"}
      BY <2>2 DEF verdict
    <3>2. verdict' = "accept" => Verdict!Accept
      <4>1. verdict' = "accept" => ret' = "SUCCESS"
        BY <2>2 DEF verdict
      <4> QED BY <2>1, <2>2, <3>1, <4>1 DEF IInv, After, Verdict!Accept
    <3>3. verdict' = "reject" => Verdict!Reject
      <4>1. verdict' = "reject" => ret' # "SUCCESS"
        BY <2>2 DEF verdict
      <4> QED BY <2>1, <2>2, <3>1, <4>1 DEF IInv, After, Verdict!Reject
    <3> QED BY <3>1, <3>2, <3>3 DEF Verdict!Next
  <2>3. CASE pc # "done" /\ pc' # "done"
    BY <2>1, <2>3 DEF verdict, Verdict!vvars
  <2>4. CASE pc = "done"
    <3>1. UNCHANGED vars
      BY <2>4 DEF Next, ParseArgs, HasSignature, CheckDeps, CheckInputs,
                  CheckOutputs, Decide, SyscallFails, FaultCodes
    <3> QED BY <3>1 DEF vars, verdict, Verdict!vvars
  <2> QED BY <2>2, <2>3, <2>4
<1> QED BY <1>1, <1>2, Typing, Invariant, PTL DEF Spec, ImplementsVerdict, Verdict!Spec
=============================================================================
