-------------------------- MODULE DeveloperAccount --------------------------
(***************************************************************************)
(* What a developer is promised for publishing a reusable script: accounts *)
(* of tokens that only their owner draws on.  No cells, transactions or    *)
(* scripts: an account has a balance spread over a number of holdings.     *)
(* In one step several accounts may change, each in one of the ways below. *)
(***************************************************************************)
EXTENDS Naturals

CONSTANTS Accounts, rate
VARIABLES
  balance,     \* tokens in the account
  holdings,    \* number of wallets they are in
  signed_for,  \* whether the owner signed the last step
  used         \* whether a script that charges for this account ran in it

avars == <<balance, holdings, signed_for, used>>

Init == /\ balance \in [Accounts -> Nat] /\ holdings \in [Accounts -> Nat]
        /\ signed_for = [a \in Accounts |-> FALSE]
        /\ used = [a \in Accounts |-> FALSE]

\* Anybody pays at least the rate into one of the wallets.
Deposit(a) == /\ ~signed_for'[a]
              /\ balance'[a] >= balance[a] + rate[a]
              /\ holdings'[a] = holdings[a]

\* Anybody opens wallets, none if there is nothing to do; no script is used.
Open(a) == /\ ~signed_for'[a] /\ ~used'[a]
           /\ balance'[a] >= balance[a]
           /\ holdings'[a] > holdings[a] \/ balance'[a] = balance[a]
           /\ holdings'[a] >= holdings[a]

\* The owner takes tokens from a wallet, or adds some; the wallet remains.
Withdraw(a) == signed_for'[a] /\ holdings'[a] = holdings[a]

Next == \A a \in Accounts : Deposit(a) \/ Open(a) \/ Withdraw(a)

Spec == Init /\ [][Next]_avars
=============================================================================
