----------------------------- MODULE ReuseChain -----------------------------
(***************************************************************************)
(* The chain the scripts run on, one committed transaction per step.  A    *)
(* transaction consumes live cells, creates cells and carries signatures;  *)
(* it is committed when the lock script of every consumed cell and the     *)
(* type script of every consumed or created cell accepts it.  Anybody may  *)
(* submit any transaction: what holds here holds whatever the generator,   *)
(* or any other program, sends.                                            *)
(***************************************************************************)
EXTENDS WalletLock, TokenScripts

CONSTANTS
  Wallets,       \* lock hashes of developer wallets; the other lock hashes
                 \* are keys (secp256k1_blake160_sighash_all)
  ArgsOf,        \* Wallets -> WalletArgs
  Tokens,        \* type hashes of sudt tokens
  Governance,    \* Tokens -> LockHashes, the args of the token
  Plugins,       \* type hashes of scripts that call reuse_coin_verify
  PluginWallet,  \* Plugins -> Wallets, the args of the plugin
  Genesis,       \* the list of cells the chain starts with
  OutputLists,   \* the lists of cells a transaction may create
  MaxInputs,     \* bound on the cells a transaction consumes
  MaxDeps        \* bound on the dep cells of a transaction

ASSUME ScriptsAssumption ==
  /\ Wallets \subseteq LockHashes
  /\ ArgsOf \in [Wallets -> WalletArgs]
  /\ \A w \in Wallets : ArgsOf[w].token_type \in Tokens
  /\ Tokens \subseteq TypeHashes /\ Governance \in [Tokens -> LockHashes]
  /\ Plugins \subseteq TypeHashes /\ Plugins \cap Tokens = {}
  /\ PluginWallet \in [Plugins -> Wallets]
ASSUME CellsAssumption ==
  /\ Genesis \in Seq(Cell) /\ OutputLists \subseteq Seq(Cell)
  /\ \A t \in Tokens : UdtDataPasses(t, Genesis)
ASSUME BoundsAssumption == MaxInputs \in Nat /\ MaxDeps \in Nat

VARIABLES
  cells,   \* the live cells, by outpoint
  height,  \* transactions committed so far: the first half of an outpoint
  tx       \* the last transaction committed

vars == <<cells, height, tx>>

\* The outpoints of the cells a list describes: (transaction, index).
Created(h, list) == [o \in {h} \X DOMAIN list |-> list[o[2]]]

Nothing == [o \in {} |-> 0]

Init ==
  /\ cells = Created(0, Genesis)
  /\ height = 0
  /\ tx = [consumed |-> Nothing, created |-> Nothing, signed |-> {}]

-----------------------------------------------------------------------------
Locks(family) == {family[o].lock : o \in DOMAIN family}
Types(family) == {family[o].type : o \in DOMAIN family} \ {NoType}
Capacity(family) == Sum([o \in DOMAIN family |-> family[o].capacity])

\* What the VM shows the wallet lock w of a transaction.
WalletView(w, consumed, created, deps, signed) ==
  [lock_hash |-> w, args |-> ArgsOf[w],
   group |-> [o \in LockedBy(consumed, w) |-> consumed[o]],
   outputs |-> created, deps |-> deps,
   witness |-> IF w \in signed THEN "owner_sig" ELSE "absent"]

\* signed holds the locks whose witness carries a valid signature.
LockAccepts(l, consumed, created, deps, signed) ==
  IF l \in Wallets THEN MayAccept(WalletView(l, consumed, created, deps, signed))
                   ELSE l \in signed

\* Type scripts of others than Reuse Coin accept anything.
TypeAccepts(t, consumed, created) ==
  /\ t \in Tokens => SudtAccepts(t, Governance[t], consumed, created)
  /\ t \in Plugins => ReuseCoinVerify(PluginWallet[t], consumed, created)

Commit(ins, list, dep_cells, signed) ==
  LET consumed == [o \in ins |-> cells[o]]
      created == Created(height + 1, list)
      deps == [o \in dep_cells |-> cells[o]]
  IN  /\ Capacity(created) <= Capacity(consumed)
      /\ \A l \in Locks(consumed) : LockAccepts(l, consumed, created, deps, signed)
      /\ \A t \in Types(consumed) \union Types(created) : TypeAccepts(t, consumed, created)
      /\ cells' = [o \in (DOMAIN cells \ ins) \union DOMAIN created |->
                     IF o \in DOMAIN created THEN created[o] ELSE cells[o]]
      /\ height' = height + 1
      /\ tx' = [consumed |-> consumed, created |-> created, signed |-> signed]

\* The sets of at most n live cells.
LiveSets(n) == {S \in SUBSET DOMAIN cells : Cardinality(S) <= n}

Next ==
  \E ins \in LiveSets(MaxInputs) \ {{}}, list \in OutputLists, dep_cells \in LiveSets(MaxDeps) :
    \E signed \in SUBSET {cells[o].lock : o \in ins} :
      Commit(ins, list, dep_cells, signed)

Spec == Init /\ [][Next]_vars

-----------------------------------------------------------------------------
\* The domains of the variables, which the proofs start from: the node names and
\* keeps the cells, whatever the scripts accept.
TypeOK ==
  /\ height \in Nat
  /\ DOMAIN cells \subseteq (0 .. height) \X Nat
  /\ \A o \in DOMAIN cells : cells[o] \in Cell

\* The cells that are wallet w's account: its lock and its token.
AccountCells(family, w) ==
  {o \in LockedBy(family, w) : family[o].type = ArgsOf[w].token_type}

\* The token script keeps the data of its cells readable: the wallet lock, which
\* does not look at the length of an output's data (check_outputs, line 228),
\* never reads an amount that is not there.
TokenDataReadable ==
  \A t \in Tokens : UdtDataPasses(t, cells)

\* No wallet is locked up: on every account cell the owner's signature is
\* accepted, and so is anybody's deposit of udt_rate as long as it fits an
\* uint128_t, in a transaction that hands the cell on and lists no dep cell
\* of the wallet's (main() of reuse_coin_wallet.c).
HandOn(w, o, amt, signed) ==
  WalletView(w, [p \in {o} |-> cells[o]], <<[cells[o] EXCEPT !.amt = amt]>>, <<>>, signed)
WalletUsable ==
  \A w \in Wallets : \A o \in AccountCells(cells, w) :
    ArgsAccepted(ArgsOf[w]) =>
      /\ MustAccept(HandOn(w, o, 0, {w}))
      /\ LET paid == cells[o].amt + ArgsOf[w].udt_rate
         IN  paid \in Amounts /\ ArgsOf[w].udt_rate > 0 => MustAccept(HandOn(w, o, paid, {}))

\* A wallet the transaction consumes without its owner's signature is handed on
\* as one cell, with udt_rate tokens more and no less capacity (lines 386-405).
HandedOnPaid(w, consumed, created) ==
  \E o \in DOMAIN consumed, p \in DOMAIN created :
    /\ LockedBy(consumed, w) = {o} /\ LockedBy(created, w) = {p}
    /\ AccountCells(consumed, w) = {o} /\ AccountCells(created, w) = {p}
    /\ created[p].amt >= consumed[o].amt + ArgsOf[w].udt_rate
    /\ created[p].amt > consumed[o].amt
    /\ created[p].capacity >= consumed[o].capacity
UnsignedSpendPays ==
  [][\A w \in Wallets \ tx'.signed :
       LockedBy(tx'.consumed, w) # {} => HandedOnPaid(w, tx'.consumed, tx'.created)]_vars

\* Every transaction that consumes or creates a cell of a reusable script pays
\* that script's wallet, or is signed for it by the wallet's owner: the plugin
\* counts cells, the wallet lock looks at amounts, and only together do they
\* charge (reuse_coin_verify, line 97, and main() of the wallet, line 400).
Touched(t) == t \in Types(tx'.consumed) \union Types(tx'.created)
UseIsPaid ==
  [][\A t \in Plugins : Touched(t) =>
       \/ PluginWallet[t] \in tx'.signed
       \/ HandedOnPaid(PluginWallet[t], tx'.consumed, tx'.created)]_vars

\* A cell under a wallet's lock that is not an account cell is never consumed,
\* by anybody: its owner's signature does not help (check_inputs, 131-141).
\* The cell deployReusableScript puts the script's code in is one.
Stranded(o) ==
  \E w \in Wallets : o \in LockedBy(cells, w) \ AccountCells(cells, w)
StrandedStays ==
  [][\A o \in DOMAIN cells : Stranded(o) => o \in DOMAIN cells' /\ cells'[o] = cells[o]]_vars

\* Without an input under the governance lock, a token's supply grows only when
\* the created amounts add up to more than an uint128_t holds (sudt.c, 116-139).
SupplyGrowsByGovernance ==
  [][\A t \in Tokens :
       Total(cells', OfType(cells', t)) > Total(cells, OfType(cells, t)) =>
         \/ GovernancePresent(Governance[t], tx'.consumed)
         \/ Total(tx'.created, OfType(tx'.created, t)) >= U128]_vars

-----------------------------------------------------------------------------
\* What the developer sees of the chain: an account per wallet.
balance == [w \in Wallets |-> Total(cells, AccountCells(cells, w))]
holdings == [w \in Wallets |-> Cardinality(AccountCells(cells, w))]
signed_for == [w \in Wallets |-> w \in tx.signed]
used == [w \in Wallets |->
           \E t \in Types(tx.consumed) \union Types(tx.created) :
             t \in Plugins /\ PluginWallet[t] = w]
Account == INSTANCE DeveloperAccount WITH
  Accounts <- Wallets, rate <- [w \in Wallets |-> ArgsOf[w].udt_rate]

\* The chain implements the account: deposits, openings and the owner's
\* withdrawals are all that ever happens to it.
ImplementsAccount == Account!Spec
=============================================================================
