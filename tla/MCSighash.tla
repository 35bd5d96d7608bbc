----------------------------- MODULE MCSighash -----------------------------
(***************************************************************************)
(* Instances of SighashAll: up to nine inputs, so that the search doubles  *)
(* its bound twice; script groups that are all, some, the first or the     *)
(* last of the inputs; fewer, as many or more witnesses than inputs; at    *)
(* most one of them not a signature; signed by another, or by the owner    *)
(* over what the signature should cover, over one witness less at either   *)
(* end, and over all witnesses; loads that may fail up to MaxFailing       *)
(* inputs.                                                                 *)
(***************************************************************************)
EXTENDS SighashAll

CONSTANTS MaxInputs, MaxFailing

\* The numbers of S, in order.
Sorted(S) == SelectSeq([k \in 1 .. MaxInputs + 2 |-> k - 1], LAMBDA p : p \in S)

GroupsOf(n) == {{0}, {n - 1}, {0, n - 1}, 0 .. n - 1} \union
               (IF n <= 3 THEN SUBSET (0 .. n - 1) \ {{}} ELSE {{1, 3}})
WitnessesOf(n) ==
  UNION {{[k \in 1 .. m |-> IF k = bad[1] THEN bad[2] ELSE "signature"] :
            bad \in {<<0, "oversize">>, <<1, "malformed">>, <<1, "short_lock">>}
                    \union (1 .. m) \X {"oversize"}} :
         m \in {0, 1, n - 1, n, n + 1, n + 2}}

\* Who signed what, when the witnesses in due should be covered.
Signings(due, all) ==
  {<<"other", due>>, <<"owner", due>>, <<"owner", all>>} \union
  {<<"owner", due \ {p}>> :
     p \in {q \in due : (\A r \in due : q <= r) \/ (\A r \in due : r <= q)}}

TxsOf(n, group, witnesses) ==
  LET all == 0 .. Len(witnesses) - 1
      due == {p \in all : p \in group \/ p >= n}
  IN  {[inputs |-> n, group |-> Sorted(group), witnesses |-> witnesses,
        signer |-> s[1], signed_over |-> Sorted(s[2]), loads |-> l] :
        s \in Signings(due, all), l \in {"sound"} \union (IF n <= MaxFailing THEN {"failing"} ELSE {})}

MCTxs ==
  {t : t \in UNION {TxsOf(n, group, witnesses) :
                      <<n, group, witnesses>> \in
                        UNION {{n} \X GroupsOf(n) \X WitnessesOf(n) : n \in 1 .. MaxInputs}}}
=============================================================================
