-------------------------- MODULE SighashAll_proofs --------------------------
(***************************************************************************)
(* For transactions of any size: the search for the number of inputs is    *)
(* right, no run of the lock accepts a signature that leaves out a witness *)
(* of its own inputs or one past the inputs, and a run decides what its    *)
(* promise says: the message digested is the only one, in increasing order *)
(* of the covered witnesses, that the owner can have signed.               *)
(***************************************************************************)
EXTENDS SighashAll, FamilySums_proofs, TLAPS

\* What digesting one more witness adds to the message (blake2b_update).
LEMMA MembersAppend ==
  ASSUME NEW s \in Seq(Nat), NEW x \in Nat
  PROVE  /\ Append(s, x) \in Seq(Nat) /\ Len(Append(s, x)) = Len(s) + 1
         /\ \A j \in 1 .. Len(s) : Append(s, x)[j] = s[j]
         /\ Append(s, x)[Len(s) + 1] = x
         /\ Members(Append(s, x)) = Members(s) \union {x}
<1>1. /\ Append(s, x) \in Seq(Nat) /\ Len(Append(s, x)) = Len(s) + 1
      /\ \A j \in 1 .. Len(s) : Append(s, x)[j] = s[j]
      /\ Append(s, x)[Len(s) + 1] = x
  OBVIOUS
<1>2. DOMAIN s = 1 .. Len(s) /\ DOMAIN Append(s, x) = 1 .. Len(s) + 1 /\ Len(s) \in Nat
  OBVIOUS
<1>3. Members(Append(s, x)) = Members(s) \union {x}
  BY <1>1, <1>2 DEF Members
<1> QED BY <1>1, <1>3

\* The loop over the group ends with the witnesses of the group that exist: the
\* group is in order, so the first missing one is followed by missing ones.
LEMMA GroupDigested ==
  ASSUME TypeOK, DigestKnown, pc = "group", i < Len(tx.group) => ~Present(tx.group[i + 1])
  PROVE  Members(digest) = OwnWitnesses(tx)
<1> DEFINE g == tx.group
           m == Len(tx.witnesses)
<1>1. /\ i \in 1 .. Len(g) /\ Len(digest) = i
      /\ \A j \in 1 .. i : digest[j] = g[j] /\ g[j] < m
      /\ i < Len(g) => ~(g[i + 1] < m)
  BY DEF DigestKnown, Present
<1>2. /\ g \in Seq(Nat) /\ digest \in Seq(Nat) /\ m \in Nat
      /\ \A j, k \in DOMAIN g : j < k => g[j] < g[k]
  BY DEF TypeOK, Tx, GroupInOrder, Increasing
<1>3. /\ DOMAIN g = 1 .. Len(g) /\ DOMAIN digest = 1 .. i /\ i \in Nat /\ Len(g) \in Nat
      /\ \A j \in 1 .. Len(g) : g[j] \in Nat
  <2> HIDE DEF g, m
  <2>1. DOMAIN g = 1 .. Len(g) /\ Len(g) \in Nat /\ \A j \in 1 .. Len(g) : g[j] \in Nat
    BY <1>2
  <2>2. DOMAIN digest = 1 .. i
    BY <1>1, <1>2
  <2> QED BY <1>1, <2>1, <2>2
<1>4. ASSUME NEW j \in 1 .. Len(g), g[j] < m PROVE j <= i
  <2>1. SUFFICES ASSUME i < j PROVE FALSE
    BY <1>3
  <2>2. i + 1 \in DOMAIN g /\ j \in DOMAIN g /\ ~(g[i + 1] < m)
    BY <1>1, <1>3, <2>1
  <2>3. CASE j = i + 1
    BY <1>4, <2>2, <2>3
  <2>4. CASE i + 1 < j
    <3>1. g[i + 1] < g[j]
      BY <1>2, <2>2, <2>4
    <3>2. g[i + 1] \in Nat /\ g[j] \in Nat
      BY <1>3, <2>2
    <3> HIDE DEF g, m
    <3> QED BY <1>2, <1>4, <2>2, <3>1, <3>2
  <2> QED BY <1>3, <2>1, <2>3, <2>4
<1>5. Members(digest) = {g[j] : j \in 1 .. i}
  BY <1>1, <1>3 DEF Members
<1>6. OwnWitnesses(tx) = {p \in {g[j] : j \in 1 .. Len(g)} : p < m}
  BY <1>3 DEF OwnWitnesses, Members
<1>7. \A j \in 1 .. i : j \in 1 .. Len(g) /\ g[j] < m
  BY <1>1, <1>3
<1> QED
  <2>1. ASSUME NEW p \in {g[j] : j \in 1 .. i} PROVE p \in OwnWitnesses(tx)
    BY <1>6, <1>7, <2>1
  <2>2. ASSUME NEW p \in OwnWitnesses(tx) PROVE p \in {g[j] : j \in 1 .. i}
    <3>1. PICK j \in 1 .. Len(g) : p = g[j] /\ g[j] < m
      BY <1>6, <2>2
    <3>2. j \in 1 .. i
      BY <1>3, <1>4, <3>1
    <3> QED BY <3>1, <3>2
  <2> QED BY <1>5, <2>1, <2>2

\* Both witness loops: a digested witness joins the message, a long one ends the run.
LEMMA DigestStep ==
  ASSUME TypeOK, NEW p \in Nat, Digest(p)
  PROVE  \/ /\ pc' = "done" /\ ret' = "ERROR_WITNESS_SIZE" /\ UNCHANGED <<tx, lo, hi, i, digest>>
         \/ /\ i' = i + 1 /\ UNCHANGED <<tx, pc, lo, hi, ret>>
            /\ digest' \in Seq(Nat) /\ Len(digest') = Len(digest) + 1
            /\ \A j \in 1 .. Len(digest) : digest'[j] = digest[j]
            /\ digest'[Len(digest) + 1] = p
            /\ Members(digest') = Members(digest) \union {p}
<1>1. CASE Return("ERROR_WITNESS_SIZE")
  BY <1>1 DEF Return
<1>2. CASE digest' = Append(digest, p) /\ i' = i + 1 /\ UNCHANGED <<tx, pc, lo, hi, ret>>
  <2>1. digest \in Seq(Nat)
    BY DEF TypeOK
  <2> QED BY <1>2, <2>1, MembersAppend
<1> QED BY <1>1, <1>2 DEF Digest

-----------------------------------------------------------------------------
\* The first loop of calculate_inputs_len keeps the bracket and its width.
LEMMA DoubleStep ==
  ASSUME IInv, DoubleBound
  PROVE  IInv'
<1> USE DEF IInv, DoubleBound
<1>1. tx.inputs \in Nat \ {0} /\ lo \in Nat /\ hi \in Nat \ {0} /\ pc = "double"
  BY DEF TypeOK, Tx
<1>2. UNCHANGED <<tx, i, digest, ret>>
  OBVIOUS
<1>3. \/ Loads(hi) /\ lo' = hi /\ hi' = hi * 2 /\ pc' = "double"
      \/ Misses(hi) /\ pc' = "bisect" /\ lo' = lo /\ hi' = hi
  BY <1>1
<1>4. /\ Loads(hi) => hi < tx.inputs
      /\ Misses(hi) => MayFail(tx) \/ tx.inputs <= hi
  BY <1>1 DEF Loads, Misses
<1>5. TypeOK'
  BY <1>1, <1>2, <1>3 DEF TypeOK, Stages
<1>6. InputsCounted'
  BY <1>1, <1>2, <1>3, <1>4 DEF InputsCounted
<1>7. DigestKnown'
  BY <1>1, <1>2, <1>3 DEF DigestKnown
<1>8. SignatureCovers'
  BY <1>2 DEF SignatureCovers, Covered, OwnWitnesses, Members
<1> QED BY <1>5, <1>6, <1>7, <1>8

\* The second loop halves the bracket; where it is one wide, hi is the number.
LEMMA BisectStep ==
  ASSUME IInv, Bisect
  PROVE  IInv'
<1> USE DEF IInv, Bisect
<1>1. tx.inputs \in Nat \ {0} /\ lo \in Nat /\ hi \in Nat \ {0} /\ pc = "bisect"
  BY DEF TypeOK, Tx
<1>2. UNCHANGED <<tx, digest, ret>>
  OBVIOUS
<1>3. /\ lo < tx.inputs /\ lo < hi /\ (MayFail(tx) \/ tx.inputs <= hi)
      /\ hi <= 4 \/ hi <= 2 * (tx.inputs - 1)
  BY <1>1 DEF InputsCounted
<1>4. Middle \in Nat /\ (lo + 1 # hi => lo < Middle /\ Middle < hi)
  BY <1>1, <1>3 DEF Middle
<1>5. \/ /\ lo + 1 # hi /\ Loads(Middle)
         /\ lo' = Middle /\ hi' = hi /\ pc' = pc /\ i' = i
      \/ /\ lo + 1 # hi /\ Misses(Middle)
         /\ hi' = Middle /\ lo' = lo /\ pc' = pc /\ i' = i
      \/ lo + 1 = hi /\ i' = hi /\ pc' = "rest" /\ lo' = lo /\ hi' = hi
  OBVIOUS
<1>6. /\ Loads(Middle) => Middle < tx.inputs
      /\ Misses(Middle) => MayFail(tx) \/ tx.inputs <= Middle
  BY <1>1, <1>4 DEF Loads, Misses
<1>7. TypeOK'
  BY <1>1, <1>2, <1>3, <1>4, <1>5 DEF TypeOK, Stages
<1>8. InputsCounted'
  BY <1>1, <1>2, <1>3, <1>4, <1>5, <1>6 DEF InputsCounted
<1>9. DigestKnown'
  <2>1. Members(digest) = OwnWitnesses(tx)
    BY <1>1 DEF DigestKnown
  <2>2. Members(digest') = OwnWitnesses(tx')
    BY <1>2, <2>1
  <2>3. CASE pc' = "bisect"
    BY <2>2, <2>3 DEF DigestKnown
  <2>4. CASE pc' = "rest"
    <3>1. i' = hi' /\ hi' \in Nat /\ hi' .. i' - 1 = {}
      BY <1>1, <1>5, <2>4
    <3> QED BY <2>2, <2>4, <3>1 DEF DigestKnown
  <2> QED BY <1>1, <1>5, <2>3, <2>4
<1>10. SignatureCovers'
  BY <1>2 DEF SignatureCovers, Covered, OwnWitnesses, Members
<1> QED BY <1>7, <1>8, <1>9, <1>10

\* A run that returns without success keeps the invariant.
LEMMA ReturnStep ==
  ASSUME IInv, NEW code \in Codes \ {"SUCCESS"}, Return(code)
  PROVE  IInv'
<1> USE DEF IInv, Return
<1>1. TypeOK'
  BY DEF TypeOK, Stages
<1>2. InputsCounted'
  BY DEF InputsCounted
<1>3. DigestKnown' /\ SignatureCovers'
  BY DEF DigestKnown, SignatureCovers
<1> QED BY <1>1, <1>2, <1>3

LEMMA FirstStep ==
  ASSUME IInv, FirstWitness
  PROVE  IInv'
<1> DEFINE p == tx.group[1]
<1>1. CASE \E code \in {"ERROR_SYSCALL", "ERROR_WITNESS_SIZE", "ERROR_ENCODING",
                        "ERROR_ARGUMENTS_LEN"} : Return(code)
  BY <1>1, ReturnStep DEF Codes
<1>2. CASE /\ Present(p) /\ digest' = <<p>> /\ i' = 1 /\ pc' = "group"
           /\ UNCHANGED <<tx, lo, hi, ret>> /\ pc = "first"
  <2>1. /\ tx.group \in Seq(Nat) /\ tx.group # <<>>
    BY DEF IInv, TypeOK, Tx, GroupInOrder
  <2>2. 1 \in 1 .. Len(tx.group) /\ p \in Nat
    BY <2>1
  <2>3. TypeOK'
    BY <1>2, <2>2 DEF IInv, TypeOK, Stages
  <2>4. InputsCounted'
    BY <1>2 DEF IInv, InputsCounted
  <2>5. DigestKnown'
    BY <1>2, <2>2 DEF DigestKnown, Present
  <2>6. SignatureCovers'
    BY <1>2 DEF IInv, SignatureCovers, Covered, OwnWitnesses, Members
  <2> QED BY <2>3, <2>4, <2>5, <2>6 DEF IInv
<1> QED BY <1>1, <1>2 DEF FirstWitness

LEMMA GroupStep ==
  ASSUME IInv, GroupWitness
  PROVE  IInv'
<1>1. CASE i < Len(tx.group) /\ Present(tx.group[i + 1]) /\ Digest(tx.group[i + 1])
  <2> DEFINE p == tx.group[i + 1]
  <2>1. /\ tx.group \in Seq(Nat) /\ i \in 1 .. Len(tx.group) /\ Len(digest) = i
        /\ \A j \in 1 .. i : digest[j] = tx.group[j] /\ Present(tx.group[j])
    BY DEF IInv, TypeOK, Tx, DigestKnown, GroupWitness
  <2>2. i + 1 \in 1 .. Len(tx.group) /\ p \in Nat /\ i \in Nat
    BY <1>1, <2>1
  <2>3. CASE pc' = "done" /\ ret' = "ERROR_WITNESS_SIZE" /\ UNCHANGED <<tx, lo, hi, i, digest>>
    BY <2>3, ReturnStep DEF Return, Codes
  <2>4. CASE /\ i' = i + 1 /\ UNCHANGED <<tx, pc, lo, hi, ret>>
             /\ digest' \in Seq(Nat) /\ Len(digest') = Len(digest) + 1
             /\ \A j \in 1 .. Len(digest) : digest'[j] = digest[j]
             /\ digest'[Len(digest) + 1] = p
    <3>1. TypeOK'
      BY <2>2, <2>4 DEF IInv, TypeOK
    <3>2. InputsCounted'
      BY <2>4 DEF IInv, InputsCounted
    <3>3. pc' = "group"
      BY <2>4 DEF GroupWitness
    <3>4. \A j \in 1 .. i' : digest'[j] = tx.group[j] /\ Present(tx.group[j])
      <4>1. \A j \in 1 .. i' : j \in 1 .. i \/ j = i + 1
        BY <2>2, <2>4
      <4>2. digest'[i + 1] = p
        BY <2>1, <2>4
      <4> QED BY <1>1, <2>1, <2>4, <4>1, <4>2
    <3>5. i' \in 1 .. Len(tx'.group) /\ Len(digest') = i'
      BY <2>1, <2>2, <2>4
    <3>6. DigestKnown'
      BY <2>4, <3>3, <3>4, <3>5 DEF DigestKnown, Present
    <3>7. SignatureCovers'
      BY <2>4 DEF IInv, SignatureCovers, Covered, OwnWitnesses, Members
    <3> QED BY <3>1, <3>2, <3>6, <3>7 DEF IInv
  <2> QED BY <1>1, <2>2, <2>3, <2>4, DigestStep DEF IInv
<1>2. CASE /\ i < Len(tx.group) => ~Present(tx.group[i + 1])
           /\ pc' = "double" /\ UNCHANGED <<tx, i, lo, hi, digest, ret>>
  <2>1. Members(digest) = OwnWitnesses(tx)
    BY <1>2, GroupDigested DEF IInv, GroupWitness
  <2>2. TypeOK'
    BY <1>2 DEF IInv, TypeOK, Stages
  <2>3. InputsCounted'
    BY <1>2 DEF IInv, InputsCounted
  <2>4. DigestKnown'
    BY <1>2, <2>1 DEF DigestKnown
  <2>5. SignatureCovers'
    BY <1>2 DEF IInv, SignatureCovers, Covered, OwnWitnesses, Members
  <2> QED BY <2>2, <2>3, <2>4, <2>5 DEF IInv
<1> QED BY <1>1, <1>2 DEF GroupWitness

\* From hi, at most the number of inputs, to the last witness: with the group's,
\* everything the signature must cover.
LEMMA RestStep ==
  ASSUME IInv, RestWitness
  PROVE  IInv'
<1>1. /\ pc = "rest" /\ i \in Nat /\ hi \in Nat /\ tx.inputs \in Nat
      /\ tx.witnesses \in Seq(Classes) /\ Len(tx.witnesses) \in Nat
  BY DEF IInv, TypeOK, Tx, RestWitness
<1>2. /\ hi <= tx.inputs /\ i >= hi
      /\ Members(digest) = OwnWitnesses(tx) \union hi .. i - 1
  BY <1>1 DEF IInv, InputsCounted, DigestKnown
<1>3. CASE Present(i) /\ Digest(i)
  <2>1. CASE pc' = "done" /\ ret' = "ERROR_WITNESS_SIZE" /\ UNCHANGED <<tx, lo, hi, i, digest>>
    BY <2>1, ReturnStep DEF Return, Codes
  <2>2. CASE /\ i' = i + 1 /\ UNCHANGED <<tx, pc, lo, hi, ret>>
             /\ digest' \in Seq(Nat)
             /\ Members(digest') = Members(digest) \union {i}
    <3>1. TypeOK'
      BY <1>1, <2>2 DEF IInv, TypeOK
    <3>2. InputsCounted'
      BY <2>2 DEF IInv, InputsCounted
    <3>3. (hi .. i - 1) \union {i} = hi .. i' - 1 /\ i' >= hi
      BY <1>1, <1>2, <2>2
    <3>4. Members(digest') = OwnWitnesses(tx') \union hi' .. i' - 1
      BY <1>2, <2>2, <3>3
    <3>5. DigestKnown'
      BY <1>1, <2>2, <3>3, <3>4 DEF DigestKnown
    <3>6. SignatureCovers'
      BY <2>2 DEF IInv, SignatureCovers, Covered, OwnWitnesses, Members
    <3> QED BY <3>1, <3>2, <3>5, <3>6 DEF IInv
  <2> QED BY <1>1, <1>3, <2>1, <2>2, DigestStep DEF IInv
<1>4. CASE ~Present(i) /\ pc' = "recover" /\ UNCHANGED <<tx, i, lo, hi, digest, ret>>
  <2>1. tx.inputs .. Len(tx.witnesses) - 1 \subseteq hi .. i - 1
    BY <1>1, <1>2, <1>4 DEF Present
  <2>2. Covered(tx) \subseteq Members(digest)
    BY <1>2, <2>1 DEF Covered
  <2>3. TypeOK'
    BY <1>4 DEF IInv, TypeOK, Stages
  <2>4. InputsCounted'
    BY <1>1, <1>4 DEF IInv, InputsCounted
  <2>5. DigestKnown'
    BY <1>4, <2>2 DEF DigestKnown, Covered, OwnWitnesses, Members
  <2>6. SignatureCovers'
    BY <1>4 DEF IInv, SignatureCovers, Covered, OwnWitnesses, Members
  <2> QED BY <2>3, <2>4, <2>5, <2>6 DEF IInv
<1> QED BY <1>3, <1>4 DEF RestWitness

LEMMA RecoverStep ==
  ASSUME IInv, Recover
  PROVE  IInv'
<1>1. CASE tx.signer = "owner" /\ tx.signed_over = digest /\ Return("SUCCESS")
  <2>1. Covered(tx) \subseteq Members(digest)
    BY DEF IInv, DigestKnown, Recover
  <2>2. TypeOK' /\ InputsCounted' /\ DigestKnown'
    BY <1>1 DEF IInv, Return, TypeOK, Stages, Codes, InputsCounted, DigestKnown
  <2>3. SignatureCovers'
    BY <1>1, <2>1 DEF Return, SignatureCovers, Covered, OwnWitnesses, Members
  <2> QED BY <2>2, <2>3 DEF IInv
<1>2. CASE \E code \in {"ERROR_SECP", "ERROR_PUBKEY_BLAKE160_HASH"} : Return(code)
  BY <1>2, ReturnStep DEF Codes
<1> QED BY <1>1, <1>2 DEF Recover

LEMMA InductiveStep ==
  ASSUME IInv, [Next]_vars
  PROVE  IInv'
<1>1. CASE SyscallFails
  BY <1>1, ReturnStep DEF SyscallFails, Codes
<1>2. CASE UNCHANGED vars
  BY <1>2 DEF vars, IInv, TypeOK, GroupInOrder, Increasing, InputsCounted, DigestKnown,
       SignatureCovers, Present, Covered, OwnWitnesses, Members
<1> QED BY <1>1, <1>2, FirstStep, GroupStep, DoubleStep, BisectStep, RestStep, RecoverStep
        DEF Next

\* The search for the number of inputs and the digest are right at every step of
\* every run (calculate_inputs_len and the loops around it).
THEOREM Invariant == Spec => []IInv
<1>1. Init => IInv
  <2> SUFFICES ASSUME Init PROVE IInv
    OBVIOUS
  <2>1. tx \in Tx /\ GroupInOrder(tx) /\ tx.inputs \in Nat \ {0}
    BY TxsAssumption DEF Init, Tx
  <2> QED BY <2>1 DEF Init, IInv, TypeOK, Stages, Codes, InputsCounted, DigestKnown,
               SignatureCovers
<1>2. IInv /\ [Next]_vars => IInv'
  BY InductiveStep
<1> QED BY <1>1, <1>2, PTL DEF Spec

\* calculate_inputs_len brackets the number of inputs, in bounds, and returns it.
THEOREM InputsLen == Spec => []InputsCounted
<1>1. IInv => InputsCounted
  BY DEF IInv
<1> QED BY <1>1, Invariant, PTL

\* An accepted signature leaves out neither a witness of the lock's own inputs
\* nor one past the inputs, for transactions of any size and with any failures.
THEOREM Coverage == Spec => []SignatureCovers
<1>1. IInv => SignatureCovers
  BY DEF IInv
<1> QED BY <1>1, Invariant, PTL

-----------------------------------------------------------------------------
\* A number that one of two increasing lists of the same numbers has, and the other
\* passes over, would be missing from it.
LEMMA NotPassedOver ==
  ASSUME NEW s \in Seq(Nat), NEW t \in Seq(Nat), Increasing(s), Increasing(t),
         Members(s) = Members(t), NEW n \in Nat, n + 1 <= Len(s),
         \A k \in 1 .. n : k <= Len(t) => s[k] = t[k]
  PROVE  n + 1 <= Len(t) /\ ~(s[n + 1] < t[n + 1])
<1>0. DOMAIN s = 1 .. Len(s) /\ DOMAIN t = 1 .. Len(t) /\ Len(s) \in Nat /\ Len(t) \in Nat
      /\ n + 1 \in 1 .. Len(s)
  OBVIOUS
<1>1. PICK m \in 1 .. Len(t) : t[m] = s[n + 1]
  BY <1>0 DEF Members
<1>2. ~(m <= n)
  <2> SUFFICES ASSUME m <= n PROVE FALSE
    OBVIOUS
  <2>1. m \in 1 .. n /\ s[m] = s[n + 1] /\ m \in 1 .. Len(s) /\ m < n + 1
    BY <1>0, <1>1
  <2>2. s[m] < s[n + 1]
    BY <1>0, <2>1 DEF Increasing
  <2>3. s[m] \in Nat
    BY <2>1
  <2> QED BY <2>1, <2>2, <2>3
<1>3. n + 1 <= Len(t)
  BY <1>0, <1>1, <1>2
<1>4. m = n + 1 \/ t[n + 1] < t[m]
  <2>1. m \in Nat /\ n + 1 \in DOMAIN t /\ m \in DOMAIN t /\ (m = n + 1 \/ n + 1 < m)
    BY <1>0, <1>2, <1>3
  <2> QED BY <2>1 DEF Increasing
<1>5. t[n + 1] \in Nat /\ t[m] \in Nat
  BY <1>0, <1>1, <1>3
<1>6. ~(t[m] < t[n + 1])
  <2>1. CASE m = n + 1
    BY <1>5, <2>1
  <2>2. CASE t[n + 1] < t[m]
    BY <1>5, <2>2
  <2> QED BY <1>4, <2>1, <2>2
<1> QED BY <1>1, <1>3, <1>6

\* Two lists in increasing order of the same numbers are the same list.
LEMMA IncreasingUnique ==
  ASSUME NEW s \in Seq(Nat), NEW t \in Seq(Nat), Increasing(s), Increasing(t),
         Members(s) = Members(t)
  PROVE  s = t
<1> DEFINE T == {n \in Nat : \A k \in 1 .. n : k <= Len(s) /\ k <= Len(t) => s[k] = t[k]}
<1>1. 0 \in T
  OBVIOUS
<1>2. ASSUME NEW n \in Nat, n \in T PROVE n + 1 \in T
  <2> SUFFICES ASSUME n + 1 <= Len(s), n + 1 <= Len(t) PROVE s[n + 1] = t[n + 1]
    BY <1>2
  <2>0. \A k \in 1 .. n : s[k] = t[k]
    BY <1>2
  <2>1. ~(s[n + 1] < t[n + 1])
    BY <2>0, NotPassedOver
  <2>2. ~(t[n + 1] < s[n + 1])
    BY <2>0, NotPassedOver
  <2>3. s[n + 1] \in Nat /\ t[n + 1] \in Nat
    OBVIOUS
  <2> QED BY <2>1, <2>2, <2>3
<1>3. Nat \subseteq T
  <2> HIDE DEF T
  <2> QED BY <1>1, <1>2, CountInduction
<1>4. Len(s) \in Nat /\ Len(t) \in Nat
  OBVIOUS
<1>5. ASSUME NEW k \in Nat, k > 0, k <= Len(s), k <= Len(t) PROVE s[k] = t[k]
  <2>1. k \in T /\ k \in 1 .. k
    BY <1>3, <1>5
  <2> QED BY <1>5, <2>1
<1> HIDE DEF T
<1>6. ~(Len(s) < Len(t))
  <2> SUFFICES ASSUME Len(s) < Len(t) PROVE FALSE
    OBVIOUS
  <2>1. \A k \in 1 .. Len(s) : k <= Len(s) => t[k] = s[k]
    BY <1>4, <1>5
  <2>2. Len(s) + 1 <= Len(s)
    BY <1>4, <2>1, NotPassedOver
  <2> QED BY <1>4, <2>2
<1>7. ~(Len(t) < Len(s))
  <2> SUFFICES ASSUME Len(t) < Len(s) PROVE FALSE
    OBVIOUS
  <2>1. \A k \in 1 .. Len(t) : k <= Len(t) => s[k] = t[k]
    BY <1>4, <1>5
  <2>2. Len(t) + 1 <= Len(t)
    BY <1>4, <2>1, NotPassedOver
  <2> QED BY <1>4, <2>2
<1>8. Len(s) = Len(t)
  BY <1>4, <1>6, <1>7
<1>9. DOMAIN s = 1 .. Len(s) /\ DOMAIN t = 1 .. Len(t) /\ \A k \in 1 .. Len(s) : s[k] = t[k]
  BY <1>4, <1>5, <1>8
<1>10. s = [k \in DOMAIN s |-> s[k]] /\ t = [k \in DOMAIN t |-> t[k]]
  OBVIOUS
<1>11. DOMAIN s = DOMAIN t /\ \A k \in DOMAIN s : s[k] = t[k]
  BY <1>8, <1>9
<1>12. [k \in DOMAIN s |-> s[k]] = [k \in DOMAIN t |-> t[k]]
  BY <1>11, Zenon
<1> QED BY <1>10, <1>12

\* One more witness, past those digested, keeps their order.
LEMMA IncreasingAppend ==
  ASSUME NEW s \in Seq(Nat), Increasing(s), NEW x \in Nat, \A y \in Members(s) : y < x
  PROVE  Increasing(Append(s, x))
<1>1. /\ DOMAIN s = 1 .. Len(s) /\ DOMAIN Append(s, x) = 1 .. Len(s) + 1 /\ Len(s) \in Nat
      /\ \A j \in 1 .. Len(s) : Append(s, x)[j] = s[j] /\ s[j] \in Members(s)
      /\ Append(s, x)[Len(s) + 1] = x
  BY MembersAppend DEF Members
<1> SUFFICES ASSUME NEW j \in 1 .. Len(s) + 1, NEW k \in 1 .. Len(s) + 1, j < k
             PROVE  Append(s, x)[j] < Append(s, x)[k]
  BY <1>1 DEF Increasing
<1>2. j \in 1 .. Len(s)
  BY <1>1
<1>3. CASE k \in 1 .. Len(s)
  BY <1>1, <1>2, <1>3 DEF Increasing
<1>4. CASE k = Len(s) + 1
  BY <1>1, <1>2, <1>4
<1> QED BY <1>1, <1>3, <1>4

-----------------------------------------------------------------------------
\* The message so far: its witnesses exist and are not too long, in increasing
\* order unless a failing load has cut the count of the inputs short, and in the
\* end those the signature must cover.
Message ==
  /\ pc \notin {"first", "done"} => FirstIsSignature(tx)
  /\ \A p \in Members(digest) : p < Len(tx.witnesses) /\ tx.witnesses[p + 1] # "oversize"
  /\ pc \notin {"rest", "recover", "done"} \/ ~MayFail(tx) => Increasing(digest)
  /\ pc = "recover" /\ ~MayFail(tx) => Members(digest) = Covered(tx)

\* A run that has ended has accepted only what it may, and refused only what it need
\* not accept.
Decided ==
  pc = "done" => IF ret = "SUCCESS" THEN MayBeAccepted(tx) ELSE MayFail(tx) \/ ~Accepted(tx)

MInv == Message /\ Decided

\* The group's witnesses and those past the inputs, when the count is right, are the
\* covered ones; the latter come after the former.
LEMMA CoveredFacts ==
  ASSUME TypeOK
  PROVE  /\ tx.inputs \in Nat \ {0} /\ Len(tx.witnesses) \in Nat
         /\ \A p \in OwnWitnesses(tx) : p \in Nat /\ p < tx.inputs /\ p < Len(tx.witnesses)
         /\ Covered(tx) = OwnWitnesses(tx) \union tx.inputs .. Len(tx.witnesses) - 1
  BY DEF TypeOK, Tx, GroupInOrder, OwnWitnesses, Members, Covered

\* A run that ends with an error, for a reason, has decided.
LEMMA Refused ==
  ASSUME TypeOK, MInv, NEW code \in Codes \ {"SUCCESS"}, Return(code), pc # "done",
         MayFail(tx) \/ ~Accepted(tx)
  PROVE  MInv'
<1>1. pc' = "done" /\ ret' = code /\ UNCHANGED <<tx, i, lo, hi, digest>>
  BY DEF Return
<1>2. Message'
  BY <1>1 DEF MInv, Message, FirstIsSignature, MayFail, Members, Increasing
<1>3. Decided'
  BY <1>1 DEF Decided, MayFail, Accepted, FirstIsSignature, Increasing, Members, Covered,
              OwnWitnesses
<1> QED BY <1>2, <1>3 DEF MInv

LEMMA FirstDecides == ASSUME IInv, MInv, FirstWitness PROVE MInv'
<1> DEFINE p == tx.group[1]
<1>0. TypeOK /\ pc = "first"
  BY DEF IInv, FirstWitness
<1>1. CASE /\ ~Present(p) \/ Witness(p) # "signature"
           /\ \E code \in {"ERROR_SYSCALL", "ERROR_WITNESS_SIZE", "ERROR_ENCODING",
                           "ERROR_ARGUMENTS_LEN"} : Return(code)
  <2>1. ~Accepted(tx)
    BY <1>1 DEF Accepted, FirstIsSignature, Present, Witness
  <2> QED BY <1>0, <1>1, <2>1, Refused DEF Codes
<1>2. CASE /\ Present(p) /\ Witness(p) = "signature" /\ digest' = <<p>> /\ pc' = "group"
           /\ UNCHANGED <<tx, ret>>
  <2>1. Members(digest') = {p} /\ Increasing(digest')
    BY <1>2 DEF Members, Increasing
  <2>2. FirstIsSignature(tx')
    BY <1>2 DEF FirstIsSignature, Present, Witness
  <2>3. p < Len(tx.witnesses) /\ tx.witnesses[p + 1] # "oversize"
    BY <1>2 DEF Present, Witness
  <2> QED BY <1>2, <2>1, <2>2, <2>3 DEF MInv, Message, Decided
<1> QED BY <1>1, <1>2 DEF FirstWitness

\* A step of the loops over witnesses: a long one ends the run, another is digested
\* after those before it.
LEMMA DigestDecides ==
  ASSUME IInv, MInv, NEW p \in Nat, Present(p), Digest(p), pc \in {"group", "rest"},
         MayFail(tx) \/ p \in Covered(tx),
         pc = "group" \/ ~MayFail(tx) => \A y \in Members(digest) : y < p
  PROVE  MInv'
<1>0. TypeOK /\ digest \in Seq(Nat) /\ pc \notin {"first", "done", "recover"}
  BY DEF IInv, TypeOK
<1>1. CASE Witness(p) = "oversize" /\ Return("ERROR_WITNESS_SIZE")
  <2>1. MayFail(tx) \/ ~Accepted(tx)
    BY <1>1 DEF Accepted, Witness
  <2> QED BY <1>0, <1>1, <2>1, Refused DEF Codes
<1>2. CASE Witness(p) # "oversize" /\ digest' = Append(digest, p) /\ UNCHANGED <<tx, pc>>
  <2>1. Members(digest') = Members(digest) \union {p}
    BY <1>0, <1>2, MembersAppend
  <2>2. \A q \in Members(digest') : q < Len(tx'.witnesses) /\ tx'.witnesses[q + 1] # "oversize"
    BY <1>2, <2>1 DEF MInv, Message, Present, Witness
  <2>3. pc = "group" \/ ~MayFail(tx) => Increasing(digest')
    <3>1. pc = "group" \/ ~MayFail(tx) => Increasing(digest)
      BY <1>0 DEF MInv, Message
    <3> QED BY <1>0, <1>2, <3>1, IncreasingAppend
  <2>4. FirstIsSignature(tx')
    BY <1>0, <1>2 DEF MInv, Message
  <2>5. pc' \notin {"rest", "recover", "done"} \/ ~MayFail(tx') => Increasing(digest')
    BY <1>2, <2>3
  <2> QED BY <1>0, <1>2, <2>2, <2>4, <2>5 DEF MInv, Message, Decided
<1> QED BY <1>1, <1>2 DEF Digest

LEMMA GroupDecides == ASSUME IInv, MInv, GroupWitness PROVE MInv'
<1>1. CASE i < Len(tx.group) /\ Present(tx.group[i + 1]) /\ Digest(tx.group[i + 1])
  <2> DEFINE p == tx.group[i + 1]
  <2>1. /\ tx.group \in Seq(Nat) /\ Increasing(tx.group) /\ pc = "group"
        /\ i \in 1 .. Len(tx.group) /\ digest \in Seq(Nat) /\ Len(digest) = i
        /\ \A j \in 1 .. i : digest[j] = tx.group[j]
    BY DEF IInv, TypeOK, Tx, GroupInOrder, DigestKnown, GroupWitness
  <2>2. i + 1 \in DOMAIN tx.group /\ p \in Nat /\ i \in Nat /\ DOMAIN digest = 1 .. i
    BY <1>1, <2>1
  <2>3. \A y \in Members(digest) : y < p
    <3> SUFFICES ASSUME NEW j \in 1 .. i PROVE digest[j] < p
      BY <2>2 DEF Members
    <3>1. j \in DOMAIN tx.group /\ j < i + 1
      BY <2>1, <2>2
    <3> QED BY <2>1, <2>2, <3>1 DEF Increasing
  <2>4. p \in Covered(tx)
    BY <1>1, <2>2 DEF Covered, OwnWitnesses, Members, Present
  <2> QED BY <1>1, <2>1, <2>2, <2>3, <2>4, DigestDecides
<1>2. CASE pc' = "double" /\ UNCHANGED <<tx, i, lo, hi, digest, ret>>
  BY <1>2 DEF GroupWitness, MInv, Message, Decided
<1> QED BY <1>1, <1>2 DEF GroupWitness

\* The search for the number of inputs leaves the message alone.
LEMMA SearchDecides ==
  ASSUME MInv, pc \in {"double", "bisect"}, pc' \in {"double", "bisect", "rest"},
         UNCHANGED <<tx, digest, ret>>
  PROVE  MInv'
  BY DEF MInv, Message, Decided

LEMMA RestDecides == ASSUME IInv, MInv, RestWitness PROVE MInv'
<1>1. /\ pc = "rest" /\ i \in Nat /\ i >= hi /\ TypeOK /\ hi \in Nat
      /\ Members(digest) = OwnWitnesses(tx) \union hi .. i - 1
      /\ ~MayFail(tx) => hi = tx.inputs
  BY DEF IInv, TypeOK, DigestKnown, InputsCounted, RestWitness
<1>2. CASE Present(i) /\ Digest(i)
  <2>1. ~MayFail(tx) => i \in Covered(tx) /\ \A y \in Members(digest) : y < i
    BY <1>1, <1>2, CoveredFacts DEF Present
  <2> QED BY <1>1, <1>2, <2>1, DigestDecides
<1>3. CASE ~Present(i) /\ pc' = "recover" /\ UNCHANGED <<tx, i, lo, hi, digest, ret>>
  <2>1. ~MayFail(tx) => Members(digest) = Covered(tx)
    <3> SUFFICES ASSUME ~MayFail(tx) PROVE Members(digest) = Covered(tx)
      OBVIOUS
    <3>1. hi .. i - 1 = tx.inputs .. Len(tx.witnesses) - 1
      <4>1. \A p \in hi .. i - 1 : p < Len(tx.witnesses)
        BY <1>1 DEF MInv, Message
      <4>2. Len(tx.witnesses) <= i /\ hi = tx.inputs
        BY <1>1, <1>3, CoveredFacts DEF Present
      <4> QED BY <1>1, <4>1, <4>2, CoveredFacts
    <3> QED BY <1>1, <3>1, CoveredFacts
  <2>2. Message'
    BY <1>1, <1>3, <2>1 DEF MInv, Message, Covered, OwnWitnesses, Members
  <2> QED BY <1>3, <2>2 DEF MInv, Decided
<1> QED BY <1>2, <1>3 DEF RestWitness

\* The signature is checked: it is over the message, or the owner did not sign what
\* is covered in the order of the message.
LEMMA RecoverDecides == ASSUME IInv, MInv, Recover PROVE MInv'
<1>0. /\ pc = "recover" /\ TypeOK /\ digest \in Seq(Nat) /\ tx.signed_over \in Seq(Nat)
      /\ Covered(tx) \subseteq Members(digest) /\ FirstIsSignature(tx)
      /\ ~MayFail(tx) => Increasing(digest) /\ Members(digest) = Covered(tx)
  BY DEF IInv, TypeOK, Tx, DigestKnown, MInv, Message, Recover
<1>1. CASE tx.signer = "owner" /\ tx.signed_over = digest /\ Return("SUCCESS")
  <2>1. \A p \in Members(digest) : tx.witnesses[p + 1] # "oversize"
    BY DEF MInv, Message
  <2>2. MayBeAccepted(tx)
    BY <1>0, <1>1, <2>1 DEF MayBeAccepted, Accepted
  <2>3. pc' = "done" /\ ret' = "SUCCESS" /\ UNCHANGED <<tx, digest>>
    BY <1>1 DEF Return
  <2>4. Message'
    BY <2>3 DEF MInv, Message, MayFail, Increasing, Members
  <2>5. MayBeAccepted(tx)'
    BY <2>2, <2>3
  <2> QED BY <2>3, <2>4, <2>5 DEF MInv, Decided
<1>2. CASE /\ ~(tx.signer = "owner" /\ tx.signed_over = digest)
           /\ \E code \in {"ERROR_SECP", "ERROR_PUBKEY_BLAKE160_HASH"} : Return(code)
  <2>1. MayFail(tx) \/ ~Accepted(tx)
    <3> SUFFICES ASSUME ~MayFail(tx), Accepted(tx) PROVE FALSE
      OBVIOUS
    <3>1. tx.signed_over = digest
      BY <1>0, IncreasingUnique DEF Accepted
    <3> QED BY <1>2, <3>1 DEF Accepted
  <2> QED BY <1>0, <1>2, <2>1, Refused DEF Codes
<1> QED BY <1>1, <1>2 DEF Recover

LEMMA DecidedStep == ASSUME IInv, MInv, [Next]_vars PROVE MInv'
<1>1. CASE DoubleBound
  BY <1>1, SearchDecides DEF DoubleBound
<1>2. CASE Bisect
  BY <1>2, SearchDecides DEF Bisect
<1>3. CASE SyscallFails
  <2>1. MayFail(tx) /\ pc # "done" /\ \E code \in {"ERROR_SYSCALL", "syscall_code"} : Return(code)
    BY <1>3 DEF SyscallFails
  <2> QED BY <2>1, Refused DEF IInv, Codes
<1>4. CASE UNCHANGED vars
  <2>1. UNCHANGED <<tx, pc, digest, ret>>
    BY <1>4 DEF vars
  <2>2. Message'
    BY <2>1 DEF MInv, Message, FirstIsSignature, MayFail, Members, Increasing, Covered,
                OwnWitnesses
  <2>3. Decided'
    BY <2>1 DEF MInv, Decided, MayBeAccepted, Accepted, MayFail, FirstIsSignature, Increasing,
                Members, Covered, OwnWitnesses
  <2> QED BY <2>2, <2>3 DEF MInv
<1> QED BY <1>1, <1>2, <1>3, <1>4, FirstDecides, GroupDecides, RestDecides, RecoverDecides
        DEF Next

\* The message digested is the one to sign, and a verdict given is the one promised.
THEOREM Deciding == Spec => []MInv
<1>1. Init => MInv
  <2> SUFFICES ASSUME Init PROVE MInv
    OBVIOUS
  <2>1. Members(digest) = {} /\ Increasing(digest) /\ pc = "first"
    BY DEF Init, Members, Increasing
  <2> QED BY <2>1 DEF MInv, Message, Decided
<1>2. IInv /\ MInv /\ [Next]_vars => MInv'
  BY DecidedStep
<1> QED BY <1>1, <1>2, Invariant, PTL DEF Spec

\* The lock implements its promise: its loops over the witnesses and the search for
\* the number of inputs are one look at the transaction, which accepts it exactly
\* when the owner signed the covered witnesses in order, and only when a load may
\* fail refuses it otherwise or accepts a signature over more
\* (verify_secp256k1_blake160_sighash_all).
THEOREM SighashImplementsVerdict == Spec => ImplementsVerdict
<1>1. Init => Verdict!Init
  BY TxsAssumption DEF Init, Verdict!Init, verdict
<1>2. IInv /\ MInv' /\ [Next]_vars => [Verdict!Next]_(Verdict!vvars)
  <2> SUFFICES ASSUME IInv, MInv', [Next]_vars PROVE [Verdict!Next]_(Verdict!vvars)
    OBVIOUS
  <2>1. tx' = tx
    BY DEF Next, vars, FirstWitness, GroupWitness, DoubleBound, Bisect, RestWitness, Recover,
           SyscallFails, Return, Digest
  <2>2. CASE pc # "done" /\ pc' = "done"
    <3>1. verdict = "running" /\ verdict' = IF ret' = "SUCCESS" THEN "accept" ELSE "reject"
      BY <2>2 DEF verdict
    <3>2. IF ret' = "SUCCESS" THEN MayBeAccepted(tx') ELSE MayFail(tx') \/ ~Accepted(tx')
      BY <2>2 DEF MInv, Decided
    <3> QED BY <2>1, <3>1, <3>2 DEF Verdict!Next, Verdict!Accept, Verdict!Reject
  <2>3. CASE pc # "done" /\ pc' # "done"
    BY <2>1, <2>3 DEF verdict, Verdict!vvars
  <2>4. CASE pc = "done"
    <3>1. UNCHANGED vars
      BY <2>4 DEF Next, FirstWitness, GroupWitness, DoubleBound, Bisect, RestWitness, Recover,
                  SyscallFails
    <3> QED BY <3>1 DEF vars, verdict, Verdict!vvars
  <2> QED BY <2>2, <2>3, <2>4
<1> QED BY <1>1, <1>2, Invariant, Deciding, PTL DEF Spec, ImplementsVerdict, Verdict!Spec
=============================================================================
