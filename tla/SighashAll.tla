----------------------------- MODULE SighashAll -----------------------------
(***************************************************************************)
(* What the owner's signature on a transaction covers:                     *)
(* verify_secp256k1_blake160_sighash_all() of c/secp256k1_lock.h, with     *)
(* calculate_inputs_len() of c/common.h, the search for the number of      *)
(* inputs.  The message that must be signed digests the transaction's hash *)
(* and some of its witnesses: those of the lock's own inputs (its group),  *)
(* and those that belong to no input.  The witness of another group's      *)
(* input is not digested: whoever unlocks that input fills it in.          *)
(*                                                                         *)
(* Inputs and witnesses are numbered from 0, as in the code; the n-th      *)
(* witness belongs to the n-th input, and there may be fewer or more.      *)
(***************************************************************************)
EXTENDS Integers, Sequences

CONSTANT Txs  \* the transactions the lock is run on

\* A witness: longer than MAX_WITNESS_SIZE; no WitnessArgs, or one without
\* lock; with a lock of another length than SIGNATURE_SIZE; with one of it.
Classes == {"oversize", "malformed", "short_lock", "signature"}

\* group: the input numbers of the script group, in order.  The signature in its
\* first witness was made with signer's key over the witnesses signed_over.
\* loads: whether a load may fail, on this run, on an item that is there.
Tx == [inputs : Nat \ {0}, group : Seq(Nat), witnesses : Seq(Classes),
       signer : {"owner", "other"}, signed_over : Seq(Nat), loads : {"sound", "failing"}]
MayFail(t) == t.loads = "failing"

Increasing(s) == \A j, k \in DOMAIN s : j < k => s[j] < s[k]
Members(s) == {s[j] : j \in DOMAIN s}

\* The group lists some of the inputs, in order.
GroupInOrder(t) == /\ t.group # <<>> /\ Increasing(t.group)
                   /\ \A j \in DOMAIN t.group : t.group[j] < t.inputs

ASSUME TxsAssumption == Txs \subseteq Tx /\ \A t \in Txs : GroupInOrder(t)

VARIABLES
  tx,
  pc,      \* "first", "group", "double", "bisect", "rest", "recover", "done"
  i,       \* the index of the witness loops
  lo, hi,  \* bounds of calculate_inputs_len
  digest,  \* the witnesses the message digests, in this order
  ret

vars == <<tx, pc, i, lo, hi, digest, ret>>

Stages == {"first", "group", "double", "bisect", "rest", "recover", "done"}
Codes == {"none", "SUCCESS", "syscall_code", "ERROR_SYSCALL", "ERROR_WITNESS_SIZE",
          "ERROR_ENCODING", "ERROR_ARGUMENTS_LEN", "ERROR_SECP", "ERROR_PUBKEY_BLAKE160_HASH"}

\* Does witness number p exist, and what is it?
Present(p) == p < Len(tx.witnesses)
Witness(p) == tx.witnesses[p + 1]

Init == /\ tx \in Txs
        /\ pc = "first" /\ i = 0 /\ lo = 0 /\ hi = 4
        /\ digest = <<>> /\ ret = "none"

Return(code) == pc' = "done" /\ ret' = code /\ UNCHANGED <<tx, i, lo, hi, digest>>

-----------------------------------------------------------------------------
\* The witness of the group's first input, cleared of its signature, opens the
\* message (lines 32-76).
FirstWitness ==
  /\ pc = "first"
  /\ LET p == tx.group[1]
     IN  \/ ~Present(p) /\ Return("ERROR_SYSCALL")
         \/ Present(p) /\ Witness(p) = "oversize" /\ Return("ERROR_WITNESS_SIZE")
         \/ Present(p) /\ Witness(p) = "malformed" /\ Return("ERROR_ENCODING")
         \/ Present(p) /\ Witness(p) = "short_lock" /\ Return("ERROR_ARGUMENTS_LEN")
         \/ /\ Present(p) /\ Witness(p) = "signature"
            /\ digest' = <<p>> /\ i' = 1 /\ pc' = "group"
            /\ UNCHANGED <<tx, lo, hi, ret>>

\* Digest witness p and go on, unless it is too long.
Digest(p) ==
  \/ Witness(p) = "oversize" /\ Return("ERROR_WITNESS_SIZE")
  \/ /\ Witness(p) # "oversize"
     /\ digest' = Append(digest, p) /\ i' = i + 1
     /\ UNCHANGED <<tx, pc, lo, hi, ret>>

\* The other witnesses of the group (lines 78-95).  A group input whose witness
\* is missing ends the loop as the end of the group does.
GroupWitness ==
  /\ pc = "group"
  /\ \/ i < Len(tx.group) /\ Present(tx.group[i + 1]) /\ Digest(tx.group[i + 1])
     \/ /\ i < Len(tx.group) => ~Present(tx.group[i + 1])
        /\ pc' = "double" /\ UNCHANGED <<tx, i, lo, hi, digest, ret>>

-----------------------------------------------------------------------------
\* The load of input number k succeeds, or answers anything else: a failure
\* counts as "there is none" (line 53, line 67).
Loads(k) == k < tx.inputs
Misses(k) == MayFail(tx) \/ k >= tx.inputs

\* Mutant of DoubleBound: hi is doubled before lo takes it over.
DoubleBound_Swapped ==
  /\ pc = "double"
  /\ \/ Loads(hi) /\ lo' = hi * 2 /\ hi' = hi * 2 /\ UNCHANGED pc
     \/ Misses(hi) /\ pc' = "bisect" /\ UNCHANGED <<lo, hi>>
  /\ UNCHANGED <<tx, i, digest, ret>>

\* calculate_inputs_len, first loop: double hi until there is no such input.
DoubleBound ==
  /\ pc = "double"
  /\ \/ Loads(hi) /\ lo' = hi /\ hi' = hi * 2 /\ UNCHANGED pc
     \/ Misses(hi) /\ pc' = "bisect" /\ UNCHANGED <<lo, hi>>
  /\ UNCHANGED <<tx, i, digest, ret>>

Middle == (lo + hi) \div 2

\* Mutant of Bisect: the search ends one step early.
Bisect_Early ==
  /\ pc = "bisect"
  /\ \/ /\ lo + 2 < hi
        /\ \/ Loads(Middle) /\ lo' = Middle /\ UNCHANGED hi
           \/ Misses(Middle) /\ hi' = Middle /\ UNCHANGED lo
        /\ UNCHANGED <<pc, i>>
     \/ lo + 2 >= hi /\ i' = hi /\ pc' = "rest" /\ UNCHANGED <<lo, hi>>
  /\ UNCHANGED <<tx, digest, ret>>

\* Mutant of Bisect: the last index is returned, not the number.
Bisect_LastIndex ==
  /\ pc = "bisect"
  /\ \/ /\ lo + 1 # hi
        /\ \/ Loads(Middle) /\ lo' = Middle /\ UNCHANGED hi
           \/ Misses(Middle) /\ hi' = Middle /\ UNCHANGED lo
        /\ UNCHANGED <<pc, i>>
     \/ lo + 1 = hi /\ i' = lo /\ pc' = "rest" /\ UNCHANGED <<lo, hi>>
  /\ UNCHANGED <<tx, digest, ret>>

\* Mutant of Bisect: the search goes on until the two meet.
Bisect_UntilEqual ==
  /\ pc = "bisect"
  /\ \/ /\ lo # hi
        /\ \/ Loads(Middle) /\ lo' = Middle /\ UNCHANGED hi
           \/ Misses(Middle) /\ hi' = Middle /\ UNCHANGED lo
        /\ UNCHANGED <<pc, i>>
     \/ lo = hi /\ i' = hi /\ pc' = "rest" /\ UNCHANGED <<lo, hi>>
  /\ UNCHANGED <<tx, digest, ret>>

\* Second loop: binary search between the two, then return hi.
Bisect ==
  /\ pc = "bisect"
  /\ \/ /\ lo + 1 # hi
        /\ \/ Loads(Middle) /\ lo' = Middle /\ UNCHANGED hi
           \/ Misses(Middle) /\ hi' = Middle /\ UNCHANGED lo
        /\ UNCHANGED <<pc, i>>
     \/ lo + 1 = hi /\ i' = hi /\ pc' = "rest" /\ UNCHANGED <<lo, hi>>
  /\ UNCHANGED <<tx, digest, ret>>

-----------------------------------------------------------------------------
\* Mutant of RestWitness: no witness past the inputs is digested.
RestWitness_Nothing ==
  pc = "rest" /\ pc' = "recover" /\ UNCHANGED <<tx, i, lo, hi, digest, ret>>

\* The witnesses past the inputs (lines 96-113).
RestWitness ==
  /\ pc = "rest"
  /\ \/ Present(i) /\ Digest(i)
     \/ ~Present(i) /\ pc' = "recover" /\ UNCHANGED <<tx, i, lo, hi, digest, ret>>

\* The public key recovered from the signature and the message is the owner's
\* only if the owner signed this very message (lines 116-151).
Recover ==
  /\ pc = "recover"
  /\ \/ tx.signer = "owner" /\ tx.signed_over = digest /\ Return("SUCCESS")
     \/ /\ ~(tx.signer = "owner" /\ tx.signed_over = digest)
        /\ Return("ERROR_SECP") \/ Return("ERROR_PUBKEY_BLAKE160_HASH")

\* A load of a witness, of the transaction's hash or of the curve's data fails.
SyscallFails ==
  /\ MayFail(tx)
  /\ \/ pc \in {"first", "group", "rest"} /\ Return("ERROR_SYSCALL")
     \/ pc \in {"first", "recover"} /\ Return("syscall_code")

Next == \/ FirstWitness \/ GroupWitness \/ DoubleBound \/ Bisect \/ RestWitness
        \/ Recover \/ SyscallFails

\* The VM runs the script until it returns.
Spec == Init /\ [][Next]_vars /\ WF_vars(Next)

-----------------------------------------------------------------------------
\* Type invariant.
TypeOK == /\ tx \in Tx /\ GroupInOrder(tx) /\ pc \in Stages /\ i \in Nat
          /\ lo \in Nat /\ hi \in Nat \ {0}
          /\ digest \in Seq(Nat) /\ ret \in Codes

\* The search brackets the number of inputs all along, its upper bound is at
\* most twice what it should be (calculate_inputs_len computes it in an int),
\* and what it returns is at most the number of inputs, and exactly that when
\* no load fails (common.h, lines 39-73).
InputsCounted ==
  /\ lo < tx.inputs /\ lo < hi
  /\ hi <= 4 \/ hi <= 2 * (tx.inputs - 1)
  /\ pc = "bisect" => MayFail(tx) \/ tx.inputs <= hi
  /\ pc \in {"rest", "recover"} =>
       hi <= tx.inputs /\ (MayFail(tx) \/ hi = tx.inputs)

\* What the group's part of the message digests, and the whole message.
OwnWitnesses(t) == {p \in Members(t.group) : p < Len(t.witnesses)}
Covered(t) == OwnWitnesses(t) \union t.inputs .. Len(t.witnesses) - 1

\* The witnesses digested so far, loop by loop.
DigestKnown ==
  /\ pc = "group" =>
       /\ i \in 1 .. Len(tx.group) /\ Len(digest) = i
       /\ \A j \in 1 .. i : digest[j] = tx.group[j] /\ Present(tx.group[j])
  /\ pc \in {"double", "bisect"} => Members(digest) = OwnWitnesses(tx)
  /\ pc = "rest" => /\ i >= hi
                    /\ Members(digest) = OwnWitnesses(tx) \union hi .. i - 1
  /\ pc = "recover" => Covered(tx) \subseteq Members(digest)

\* No run accepts a signature that leaves out a witness of the lock's own
\* inputs, or one that belongs to no input, even when loads fail: a wrong count
\* of the inputs only makes the message digest more (lines 78-113).
SignatureCovers ==
  ret = "SUCCESS" => tx.signer = "owner" /\ Covered(tx) \subseteq Members(tx.signed_over)

IInv == TypeOK /\ InputsCounted /\ DigestKnown /\ SignatureCovers

-----------------------------------------------------------------------------
\* The run against its promise: accepted exactly when the owner signed the
\* covered witnesses in increasing order, none of them too long, or, with loads
\* that fail, maybe when the owner signed more.
FirstIsSignature(t) ==
  t.group[1] < Len(t.witnesses) /\ t.witnesses[t.group[1] + 1] = "signature"
Accepted(t) ==
  /\ FirstIsSignature(t) /\ t.signer = "owner"
  /\ Increasing(t.signed_over) /\ Members(t.signed_over) = Covered(t)
  /\ \A p \in Covered(t) : t.witnesses[p + 1] # "oversize"
MayBeAccepted(t) ==
  /\ FirstIsSignature(t) /\ t.signer = "owner" /\ (MayFail(t) \/ Accepted(t))
  /\ Covered(t) \subseteq Members(t.signed_over)
  /\ \A p \in Members(t.signed_over) : t.witnesses[p + 1] # "oversize"
verdict == CASE pc # "done" -> "running"
             [] pc = "done" /\ ret = "SUCCESS" -> "accept"
             [] OTHER -> "reject"
Verdict == INSTANCE ScriptVerdict WITH
  Views <- Tx, view <- tx, MayAccept <- MayBeAccepted, MustAccept <- Accepted
ImplementsVerdict == Verdict!Spec

\* A run gives a verdict: the search for the number of inputs comes to an end
\* whatever its loads answer, and so do the loops over the witnesses.
Terminates == <>(ret # "none")
=============================================================================
