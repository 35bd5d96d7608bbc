------------------------------ MODULE MCChain ------------------------------
(***************************************************************************)
(* Instances of ReuseChain with one wallet, one token and one plugin.      *)
(* Every cell of these instances but the wallet's has capacity 1, so the   *)
(* genesis bounds the number of live cells, and with it the state space,   *)
(* for transaction sequences of any length.                                *)
(***************************************************************************)
EXTENDS ReuseChain

CONSTANTS user, dev, wallet, token, plugin, none

MCLockHashes == {user, dev, wallet}
MCTypeHashes == {token, plugin}
MCWallets == {wallet}
MCTokens == {token}
MCPlugins == {plugin}
MCGovernance == [t \in {token} |-> dev]
MCPluginWallet == [t \in {plugin} |-> wallet]

MCArgsOf(len, udt_rate) ==
  [w \in {wallet} |-> [len |-> len, ckb_rate |-> 1, udt_rate |-> udt_rate, token_type |-> token,
                       reusable_script_type_hash |-> plugin]]
MCArgsMany == MCArgsOf(MIN_ARGS_LENGTH, 2)
MCArgsUniq == MCArgsOf(MAX_ARGS_LENGTH, 1)

CellOf(lock, type, size, amt, cap) ==
  [lock |-> lock, type |-> type, size |-> size, amt |-> amt, capacity |-> cap]
Plain(l) == CellOf(l, none, "short", 0, 1)
Token(l, amt) == CellOf(l, token, "exact", amt, 1)
Use(l) == CellOf(l, plugin, "short", 0, 1)
Garbled(l) == CellOf(l, token, "short", 0, 1)

\* The lists of 1..n cells of the sequence S, each multiset of cells once.
ListsOf(S, n) ==
  UNION {{[k \in 1 .. m |-> S[f[k]]] :
            f \in {g \in [1 .. m -> 1 .. Len(S)] : \A k \in 1 .. m - 1 : g[k] <= g[k + 1]}} :
         m \in 1 .. n}

\* Fees: a user with tokens, a wallet that charges two of them, and every use the
\* user may make of it, at the rate and below.
FeeGenesis == <<Token(user, 3), Token(wallet, 0), Plain(user), Plain(user)>>
FeeLists == ListsOf(<<Plain(user), Token(user, 0), Token(user, 1), Use(user), Token(wallet, 0),
                      Token(wallet, 1), Token(wallet, 2), Plain(wallet),
                      Garbled(wallet)>>, 3)

\* Issuance and capacity: the developer issues tokens, the user moves and burns
\* them; a one-script wallet whose deposits may come with capacity, dep cells among
\* them its stranded code cell.
Rich(l, amt) == CellOf(l, token, "exact", amt, 2)
IssueGenesis == <<Rich(user, 2), Token(wallet, 0), Plain(wallet), Plain(dev)>>
IssueLists == ListsOf(<<Plain(dev), Plain(user), Token(user, 1), Token(user, 3), Use(wallet),
                        Rich(user, 1), Token(wallet, 0), Token(wallet, 1), Rich(wallet, 0),
                        Rich(wallet, 1), Rich(wallet, 2)>>, 2)

\* Outpoints only name cells: two states with the same cells are one.
ChainView == {<<cells[o], Cardinality({p \in DOMAIN cells : cells[p] = cells[o]})>> :
                o \in DOMAIN cells}
=============================================================================
