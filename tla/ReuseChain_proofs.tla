-------------------------- MODULE ReuseChain_proofs --------------------------
(***************************************************************************)
(* Proofs about the chain, for any scripts, any genesis, any transactions. *)
(***************************************************************************)
EXTENDS ReuseChain, FamilySums_proofs

\* A transaction's new cells are cells, under outpoints nobody used before.
LEMMA CreatedCells ==
  ASSUME NEW h \in Nat, NEW list \in Seq(Cell)
  PROVE  /\ DOMAIN Created(h, list) = {h} \X DOMAIN list
         /\ DOMAIN Created(h, list) \subseteq {h} \X Nat
         /\ \A o \in DOMAIN Created(h, list) : Created(h, list)[o] \in Cell
BY DEF Created

\* What a step of the chain does to the live cells, and under which checks.
LEMMA StepEffect ==
  ASSUME TypeOK, Next
  PROVE  /\ height' = height + 1
         /\ DOMAIN tx'.consumed \subseteq DOMAIN cells
         /\ \A o \in DOMAIN tx'.consumed : tx'.consumed[o] = cells[o]
         /\ \E list \in OutputLists : tx'.created = Created(height + 1, list)
         /\ DOMAIN cells' = (DOMAIN cells \ DOMAIN tx'.consumed) \union DOMAIN tx'.created
         /\ \A o \in DOMAIN tx'.created : o \notin DOMAIN cells /\ cells'[o] = tx'.created[o]
         /\ \A o \in DOMAIN cells \ DOMAIN tx'.consumed : cells'[o] = cells[o]
         /\ \E deps : \A l \in Locks(tx'.consumed) :
              LockAccepts(l, tx'.consumed, tx'.created, deps, tx'.signed)
         /\ \A t \in Types(tx'.consumed) \union Types(tx'.created) :
              TypeAccepts(t, tx'.consumed, tx'.created)
         /\ tx'.signed \subseteq Locks(tx'.consumed)
<1>1. PICK ins \in LiveSets(MaxInputs) \ {{}}, list \in OutputLists,
           dep_cells \in LiveSets(MaxDeps) :
        \E signed \in SUBSET {cells[o].lock : o \in ins} : Commit(ins, list, dep_cells, signed)
  BY DEF Next
<1>2. PICK signed \in SUBSET {cells[o].lock : o \in ins} : Commit(ins, list, dep_cells, signed)
  BY <1>1
<1> DEFINE consumed == [o \in ins |-> cells[o]]
           created == Created(height + 1, list)
           deps == [o \in dep_cells |-> cells[o]]
<1>3. ins \subseteq DOMAIN cells
  BY DEF LiveSets
<1>4. tx' = [consumed |-> consumed, created |-> created, signed |-> signed]
  BY <1>2 DEF Commit
<1>5. tx'.consumed = consumed /\ tx'.created = created /\ tx'.signed = signed
  BY <1>4
<1>6. DOMAIN created \cap DOMAIN cells = {}
  <2>1. DOMAIN created \subseteq {height + 1} \X Nat
    <3>1. height + 1 \in Nat /\ list \in Seq(Cell)
      BY CellsAssumption DEF TypeOK
    <3> QED BY <3>1, CreatedCells
  <2> QED BY <2>1 DEF TypeOK
<1>7. /\ height' = height + 1
      /\ cells' = [o \in (DOMAIN cells \ ins) \union DOMAIN created |->
                     IF o \in DOMAIN created THEN created[o] ELSE cells[o]]
      /\ \A l \in Locks(consumed) : LockAccepts(l, consumed, created, deps, signed)
      /\ \A t \in Types(consumed) \union Types(created) : TypeAccepts(t, consumed, created)
  BY <1>2 DEF Commit
<1> HIDE DEF created, deps
<1>8. /\ DOMAIN cells' = (DOMAIN cells \ DOMAIN consumed) \union DOMAIN created
      /\ \A o \in DOMAIN created : o \notin DOMAIN cells /\ cells'[o] = created[o]
      /\ \A o \in DOMAIN cells \ DOMAIN consumed : cells'[o] = cells[o]
  BY <1>3, <1>6, <1>7
<1>9. \E list_1 \in OutputLists : created = Created(height + 1, list_1)
  BY DEF created
<1>10. DOMAIN consumed \subseteq DOMAIN cells /\ \A o \in DOMAIN consumed : consumed[o] = cells[o]
  BY <1>3
<1>11. signed \subseteq Locks(consumed)
  BY <1>2 DEF Locks
<1> HIDE DEF consumed
<1> QED BY <1>5, <1>7, <1>8, <1>9, <1>10, <1>11

-----------------------------------------------------------------------------
\* The live cells are cells, under the outpoints of committed transactions: a
\* new cell never takes the place of another (Commit, for main() of every script).
THEOREM Typing == Spec => []TypeOK
<1>1. Init => TypeOK
  <2> SUFFICES ASSUME Init PROVE TypeOK
    OBVIOUS
  <2>1. /\ DOMAIN cells \subseteq {0} \X Nat /\ height = 0
        /\ \A o \in DOMAIN cells : cells[o] \in Cell
    BY CellsAssumption, CreatedCells DEF Init
  <2> QED BY <2>1 DEF TypeOK
<1>2. TypeOK /\ [Next]_vars => TypeOK'
  <2>1. ASSUME TypeOK, Next PROVE TypeOK'
    <3>1. PICK list \in OutputLists : tx'.created = Created(height + 1, list)
      BY <2>1, StepEffect
    <3>2. /\ DOMAIN tx'.created \subseteq {height + 1} \X Nat
          /\ \A o \in DOMAIN tx'.created : tx'.created[o] \in Cell
      <4>1. height + 1 \in Nat /\ list \in Seq(Cell)
        BY <2>1, CellsAssumption DEF TypeOK
      <4> QED BY <3>1, <4>1, CreatedCells
    <3>3. /\ height' = height + 1
          /\ DOMAIN cells' = (DOMAIN cells \ DOMAIN tx'.consumed) \union DOMAIN tx'.created
          /\ \A o \in DOMAIN tx'.created : cells'[o] = tx'.created[o]
          /\ \A o \in DOMAIN cells \ DOMAIN tx'.consumed : cells'[o] = cells[o]
      BY <2>1, StepEffect
    <3>4. DOMAIN cells' \subseteq (0 .. height + 1) \X Nat
      BY <2>1, <3>2, <3>3 DEF TypeOK
    <3>5. \A o \in DOMAIN cells' : cells'[o] \in Cell
      BY <2>1, <3>2, <3>3 DEF TypeOK
    <3> QED BY <2>1, <3>3, <3>4, <3>5 DEF TypeOK
  <2>2. TypeOK /\ UNCHANGED vars => TypeOK'
    BY DEF vars, TypeOK
  <2> QED BY <2>1, <2>2
<1> QED BY <1>1, <1>2, PTL DEF Spec

-----------------------------------------------------------------------------
\* Both sides of a transaction hold readable token cells: the consumed ones were
\* readable before, the created ones were looked at by the token script.
LEMMA TokenSides ==
  ASSUME TypeOK, Next, NEW t \in Tokens
  PROVE  UdtDataPasses(t, tx'.consumed) /\ UdtDataPasses(t, tx'.created)
<1>1. t # NoType
  BY ScriptsAssumption, NoTypeAssumption
<1>2. ASSUME NEW o \in DOMAIN tx'.created, tx'.created[o].type = t
      PROVE  UdtDataPasses(t, tx'.created)
  <2>1. t \in Types(tx'.created)
    BY <1>1, <1>2 DEF Types
  <2>2. TypeAccepts(t, tx'.consumed, tx'.created)
    BY <2>1, StepEffect
  <2> QED BY <2>2 DEF TypeAccepts, SudtAccepts
<1>3. ASSUME NEW o \in DOMAIN tx'.consumed, tx'.consumed[o].type = t
      PROVE  UdtDataPasses(t, tx'.consumed)
  <2>1. t \in Types(tx'.consumed)
    BY <1>1, <1>3 DEF Types
  <2>2. TypeAccepts(t, tx'.consumed, tx'.created)
    BY <2>1, StepEffect
  <2> QED BY <2>2 DEF TypeAccepts, SudtAccepts
<1>4. UdtDataPasses(t, tx'.created)
  BY <1>2 DEF UdtDataPasses, OfType
<1>5. UdtDataPasses(t, tx'.consumed)
  BY <1>3 DEF UdtDataPasses, OfType
<1> QED BY <1>4, <1>5

\* No token cell is ever created whose amount cannot be read (sudt.c,
\* verify_udt_output_cell), whatever the governance script allows.
THEOREM Readable == Spec => []TokenDataReadable
<1>1. Init => TokenDataReadable
  <2> SUFFICES ASSUME Init, NEW t \in Tokens, NEW o \in DOMAIN cells, cells[o].type = t
               PROVE  cells[o].size = "exact"
    BY DEF TokenDataReadable, UdtDataPasses, OfType
  <2>1. o[2] \in DOMAIN Genesis /\ cells[o] = Genesis[o[2]]
    BY DEF Init, Created
  <2> QED BY <2>1, CellsAssumption DEF UdtDataPasses, OfType
<1>2. TypeOK /\ TokenDataReadable /\ [Next]_vars => TokenDataReadable'
  <2>1. ASSUME TypeOK, TokenDataReadable, Next PROVE TokenDataReadable'
    <3> SUFFICES ASSUME NEW t \in Tokens, NEW o \in DOMAIN cells', cells'[o].type = t
                 PROVE  cells'[o].size = "exact"
      BY DEF TokenDataReadable, UdtDataPasses, OfType
    <3>1. CASE o \in DOMAIN tx'.created
      <4>1. cells'[o] = tx'.created[o] /\ UdtDataPasses(t, tx'.created)
        BY <2>1, <3>1, StepEffect, TokenSides
      <4> QED BY <3>1, <4>1 DEF UdtDataPasses, OfType
    <3>2. CASE o \notin DOMAIN tx'.created
      <4>1. o \in DOMAIN cells /\ cells'[o] = cells[o]
        BY <2>1, <3>2, StepEffect
      <4> QED BY <2>1, <4>1 DEF TokenDataReadable, UdtDataPasses, OfType
    <3> QED BY <3>1, <3>2
  <2>2. TokenDataReadable /\ UNCHANGED vars => TokenDataReadable'
    BY DEF vars, TokenDataReadable
  <2> QED BY <2>1, <2>2
<1> QED BY <1>1, <1>2, Typing, PTL DEF Spec

-----------------------------------------------------------------------------
\* The lock of a consumed wallet cell ran, and accepted the transaction.
LEMMA WalletRan ==
  ASSUME TypeOK, Next, NEW w \in Wallets, LockedBy(tx'.consumed, w) # {}
  PROVE  \E deps : MayAccept(WalletView(w, tx'.consumed, tx'.created, deps, tx'.signed))
<1>1. w \in Locks(tx'.consumed)
  BY DEF Locks, LockedBy
<1>2. PICK deps : LockAccepts(w, tx'.consumed, tx'.created, deps, tx'.signed)
  BY <1>1, StepEffect
<1> QED BY <1>2 DEF LockAccepts

\* What its verdict means when no uninitialised amount is around.
LEMMA WalletVerdictMeans ==
  ASSUME NEW w \in Wallets, NEW consumed, NEW created, NEW deps, NEW signed,
         \A o \in DOMAIN consumed : consumed[o] \in Cell,
         \A o \in DOMAIN created : created[o] \in Cell,
         UdtDataPasses(ArgsOf[w].token_type, created),
         MayAccept(WalletView(w, consumed, created, deps, signed))
  PROVE  /\ LockedBy(consumed, w) = AccountCells(consumed, w)
         /\ ExactlyOne(AccountCells(consumed, w)) /\ ExactlyOne(AccountCells(created, w))
         /\ w \notin signed => HandedOnPaid(w, consumed, created)
<1> DEFINE v == WalletView(w, consumed, created, deps, signed)
<1>1. /\ v.group = [o \in LockedBy(consumed, w) |-> consumed[o]]
      /\ v.outputs = created /\ v.args = ArgsOf[w] /\ v.lock_hash = w
      /\ v.witness = IF w \in signed THEN "owner_sig" ELSE "absent"
  BY DEF WalletView
<1>2. /\ ExactlyOne(LockedBy(consumed, w))
      /\ \A o \in LockedBy(consumed, w) : consumed[o].type = ArgsOf[w].token_type
  BY <1>1 DEF MayAccept, InputsPass
<1>3. /\ ExactlyOne(LockedBy(created, w))
      /\ \A o \in LockedBy(created, w) : created[o].type = ArgsOf[w].token_type
  BY <1>1 DEF MayAccept, OutputsPass
<1>4. LockedBy(consumed, w) = AccountCells(consumed, w)
  BY <1>2 DEF AccountCells
<1>5. LockedBy(created, w) = AccountCells(created, w)
  BY <1>3 DEF AccountCells
<1>6. ASSUME w \notin signed PROVE HandedOnPaid(w, consumed, created)
  <2>1. MayBePaid(v)
    BY <1>1, <1>6 DEF MayAccept
  <2>2. PICK o \in LockedBy(consumed, w), p \in LockedBy(created, w) :
          \E amt \in ReadAmount(created[p]) : PaidWith(v, o, p, amt)
    BY <1>1, <2>1 DEF MayBePaid
  <2>3. o \in DOMAIN consumed /\ p \in DOMAIN created
    BY DEF LockedBy
  <2>4. created[p].size = "exact"
    BY <1>3, <2>3 DEF UdtDataPasses, OfType
  <2>5. PaidWith(v, o, p, created[p].amt)
    BY <2>2, <2>4 DEF ReadAmount
  <2>6. /\ consumed[o].amt \in Amounts /\ created[p].amt \in Amounts
        /\ consumed[o].capacity \in Capacities /\ created[p].capacity \in Capacities
        /\ ArgsOf[w].udt_rate \in Amounts
    BY <2>3, ScriptsAssumption DEF Cell, WalletArgs
  <2>7. /\ created[p].amt > consumed[o].amt
        /\ created[p].amt - consumed[o].amt >= ArgsOf[w].udt_rate
        /\ \/ created[p].capacity = consumed[o].capacity
           \/ created[p].capacity > consumed[o].capacity
    BY <1>1, <2>5 DEF PaidWith, Paid
  <2>8. /\ created[p].amt >= consumed[o].amt + ArgsOf[w].udt_rate
        /\ created[p].capacity >= consumed[o].capacity
    BY <2>6, <2>7, WidthAssumption DEF Amounts, Capacities
  <2>9. LockedBy(consumed, w) = {o} /\ LockedBy(created, w) = {p}
    BY <1>2, <1>3, <2>2 DEF ExactlyOne, AtMostOne
  <2> QED BY <1>4, <1>5, <2>3, <2>7, <2>8, <2>9 DEF HandedOnPaid
<1> QED BY <1>2, <1>3, <1>4, <1>5, <1>6

\* Both sides of a step hold cells, so the verdict of a wallet means payment.
LEMMA WalletStep ==
  ASSUME TypeOK, TypeOK', Next, NEW w \in Wallets, LockedBy(tx'.consumed, w) # {}
  PROVE  /\ LockedBy(tx'.consumed, w) = AccountCells(tx'.consumed, w)
         /\ ExactlyOne(AccountCells(tx'.consumed, w)) /\ ExactlyOne(AccountCells(tx'.created, w))
         /\ w \notin tx'.signed => HandedOnPaid(w, tx'.consumed, tx'.created)
<1>1. \A o \in DOMAIN tx'.consumed : tx'.consumed[o] \in Cell
  BY StepEffect DEF TypeOK
<1>2. \A o \in DOMAIN tx'.created : tx'.created[o] \in Cell
  BY StepEffect DEF TypeOK
<1>3. UdtDataPasses(ArgsOf[w].token_type, tx'.created)
  BY ScriptsAssumption, TokenSides
<1>4. PICK deps : MayAccept(WalletView(w, tx'.consumed, tx'.created, deps, tx'.signed))
  BY WalletRan
<1> QED BY <1>1, <1>2, <1>3, <1>4, WalletVerdictMeans

\* A wallet is handed on with its fee whenever somebody but its owner consumes
\* it: main() of the wallet lock and the token script's data check, together.
THEOREM UnsignedSpendsPay == Spec => UnsignedSpendPays
<1>1. TypeOK /\ TypeOK' /\ [Next]_vars =>
        [\A w \in Wallets \ tx'.signed :
           LockedBy(tx'.consumed, w) # {} => HandedOnPaid(w, tx'.consumed, tx'.created)]_vars
  BY WalletStep
<1> QED BY <1>1, Typing, PTL DEF Spec, UnsignedSpendPays

\* Every use of a reusable script is charged, or signed for by the wallet's owner.
THEOREM UsesArePaid == Spec => UseIsPaid
<1>1. TypeOK /\ TypeOK' /\ [Next]_vars =>
        [\A t \in Plugins : Touched(t) =>
           \/ PluginWallet[t] \in tx'.signed
           \/ HandedOnPaid(PluginWallet[t], tx'.consumed, tx'.created)]_vars
  <2> SUFFICES ASSUME TypeOK, TypeOK', Next, NEW t \in Plugins, Touched(t),
                      PluginWallet[t] \notin tx'.signed
               PROVE  HandedOnPaid(PluginWallet[t], tx'.consumed, tx'.created)
    OBVIOUS
  <2>1. TypeAccepts(t, tx'.consumed, tx'.created)
    BY StepEffect DEF Touched
  <2>2. LockedBy(tx'.consumed, PluginWallet[t]) # {} /\ PluginWallet[t] \in Wallets
    BY <2>1, ScriptsAssumption DEF TypeAccepts, ReuseCoinVerify, ExactlyOne
  <2> QED BY <2>2, WalletStep
<1> QED BY <1>1, Typing, PTL DEF Spec, UseIsPaid

\* A cell under a wallet's lock without the wallet's token stays for ever.
THEOREM StrandedCellsStay == Spec => StrandedStays
<1>1. TypeOK /\ TypeOK' /\ [Next]_vars =>
        [\A o \in DOMAIN cells : Stranded(o) => o \in DOMAIN cells' /\ cells'[o] = cells[o]]_vars
  <2> SUFFICES ASSUME TypeOK, TypeOK', Next, NEW o \in DOMAIN cells, Stranded(o)
               PROVE  o \in DOMAIN cells' /\ cells'[o] = cells[o]
    OBVIOUS
  <2>1. PICK w \in Wallets : o \in LockedBy(cells, w) \ AccountCells(cells, w)
    BY DEF Stranded
  <2>2. o \notin DOMAIN tx'.consumed
    <3> SUFFICES ASSUME o \in DOMAIN tx'.consumed PROVE FALSE
      OBVIOUS
    <3>1. tx'.consumed[o] = cells[o]
      BY StepEffect
    <3>2. o \in LockedBy(tx'.consumed, w) \ AccountCells(tx'.consumed, w)
      BY <2>1, <3>1 DEF LockedBy, AccountCells
    <3> QED BY <3>2, WalletStep
  <2> QED BY <2>2, StepEffect
<1> QED BY <1>1, Typing, PTL DEF Spec, StrandedStays

-----------------------------------------------------------------------------
\* What the wallet lock sees of a transaction that hands one account cell on.
LEMMA HandOnView ==
  ASSUME NEW w \in Wallets, NEW o \in DOMAIN cells, cells[o] \in Cell, cells[o].lock = w,
         NEW amt \in Amounts, NEW signed
  PROVE  LET v == HandOn(w, o, amt, signed)
         IN  /\ v.lock_hash = w /\ v.args = ArgsOf[w]
             /\ v.witness = IF w \in signed THEN "owner_sig" ELSE "absent"
             /\ DOMAIN v.group = {o} /\ v.group[o] = cells[o]
             /\ LockedBy(v.outputs, w) = {1}
             /\ v.outputs[1] = [cells[o] EXCEPT !.amt = amt]
             /\ LockedBy(v.deps, w) = {}
<1> DEFINE v == HandOn(w, o, amt, signed)
           consumed == [p \in {o} |-> cells[o]]
           handed == [cells[o] EXCEPT !.amt = amt]
<1>1. /\ v.lock_hash = w /\ v.args = ArgsOf[w]
      /\ v.witness = IF w \in signed THEN "owner_sig" ELSE "absent"
      /\ v.group = [p \in LockedBy(consumed, w) |-> consumed[p]]
      /\ v.outputs = <<handed>> /\ v.deps = <<>>
  BY DEF HandOn, WalletView
<1>2. LockedBy(consumed, w) = {o} /\ consumed[o] = cells[o]
  BY DEF LockedBy
<1>3. handed.lock = w
  BY DEF Cell
<1> HIDE DEF handed
<1>4. LockedBy(<<handed>>, w) = {1} /\ <<handed>>[1] = handed
  <2>1. DOMAIN <<handed>> = {1} /\ <<handed>>[1] = handed
    OBVIOUS
  <2> QED BY <1>3, <2>1 DEF LockedBy
<1>5. LockedBy(<<>>, w) = {}
  BY DEF LockedBy
<1> QED BY <1>1, <1>2, <1>4, <1>5 DEF handed

\* No account is ever locked up: withdrawals by the owner and deposits by anybody
\* stay possible on every cell of it (the wallet lock on sudt's readable data).
THEOREM WalletsStayUsable == Spec => []WalletUsable
<1>1. TypeOK /\ TokenDataReadable => WalletUsable
  <2> SUFFICES ASSUME TypeOK, TokenDataReadable, NEW w \in Wallets,
                      NEW o \in AccountCells(cells, w), ArgsAccepted(ArgsOf[w])
               PROVE  /\ MustAccept(HandOn(w, o, 0, {w}))
                      /\ LET paid == cells[o].amt + ArgsOf[w].udt_rate
                         IN  paid \in Amounts /\ ArgsOf[w].udt_rate > 0
                               => MustAccept(HandOn(w, o, paid, {}))
    BY DEF WalletUsable
  <2>1. /\ o \in DOMAIN cells /\ cells[o] \in Cell /\ cells[o].lock = w
        /\ cells[o].type = ArgsOf[w].token_type /\ cells[o].size = "exact"
    BY ScriptsAssumption
    DEF AccountCells, LockedBy, TypeOK, TokenDataReadable, UdtDataPasses, OfType
  <2>2. ASSUME NEW amt \in Amounts, NEW signed
        PROVE  LET v == HandOn(w, o, amt, signed)
               IN  WellFormed(v) /\ DepsMustPass(v) /\ InputsPass(v) /\ OutputsPass(v)
    <3> DEFINE v == HandOn(w, o, amt, signed)
    <3>1. /\ v.lock_hash = w /\ v.args = ArgsOf[w]
          /\ v.witness = IF w \in signed THEN "owner_sig" ELSE "absent"
          /\ DOMAIN v.group = {o} /\ v.group[o] = cells[o]
          /\ LockedBy(v.outputs, w) = {1}
          /\ v.outputs[1] = [cells[o] EXCEPT !.amt = amt]
          /\ LockedBy(v.deps, w) = {}
      BY <2>1, HandOnView, SMTT(30)
    <3>2. v.outputs[1].type = ArgsOf[w].token_type
      BY <2>1, <3>1 DEF Cell
    <3> HIDE DEF v
    <3>3. WellFormed(v) /\ DepsMustPass(v)
      BY <3>1 DEF WellFormed, SigReadable, DepsMustPass
    <3>4. InputsPass(v)
      BY <2>1, <3>1 DEF InputsPass, ExactlyOne, AtMostOne
    <3>5. OutputsPass(v)
      BY <3>1, <3>2 DEF OutputsPass, ExactlyOne, AtMostOne
    <3> QED BY <3>3, <3>4, <3>5 DEF v
  <2>3. 0 \in Amounts
    BY WidthAssumption DEF Amounts
  <2>4. MustAccept(HandOn(w, o, 0, {w}))
    <3>1. HandOn(w, o, 0, {w}).witness = "owner_sig"
      BY DEF HandOn, WalletView
    <3> QED BY <2>2, <2>3, <3>1 DEF MustAccept
  <2>5. ASSUME NEW paid, paid = cells[o].amt + ArgsOf[w].udt_rate,
               paid \in Amounts, ArgsOf[w].udt_rate > 0
        PROVE  MustAccept(HandOn(w, o, paid, {}))
    <3> DEFINE v == HandOn(w, o, paid, {})
               handed == [cells[o] EXCEPT !.amt = paid]
    <3>1. /\ v.lock_hash = w /\ v.args = ArgsOf[w]
          /\ DOMAIN v.group = {o} /\ v.group[o] = cells[o]
          /\ LockedBy(v.outputs, w) = {1} /\ v.outputs[1] = handed
      BY <2>1, <2>5, HandOnView, SMTT(30)
    <3>2. handed.size = "exact" /\ handed.amt = paid /\ handed.capacity = cells[o].capacity
      BY <2>1 DEF Cell
    <3>3. cells[o].amt \in Nat /\ ArgsOf[w].udt_rate \in Nat
      BY <2>1, ScriptsAssumption, WidthAssumption DEF Cell, WalletArgs, Amounts
    <3>4. Paid(ArgsOf[w], [udt |-> cells[o].amt, capacity |-> cells[o].capacity],
               [udt |-> paid, capacity |-> handed.capacity])
      BY <2>5, <3>2, <3>3 DEF Paid
    <3> HIDE DEF v
    <3>5. PaidWith(v, o, 1, paid)
      BY <3>1, <3>4 DEF PaidWith
    <3>6. \A amt \in ReadAmount(v.outputs[1]) : amt = paid
      BY <3>1, <3>2 DEF ReadAmount
    <3>7. MustBePaid(v)
      BY <3>1, <3>5, <3>6 DEF MustBePaid
    <3> QED BY <2>2, <2>5, <3>7 DEF MustAccept, v
  <2> QED BY <2>4, <2>5
<1> QED BY <1>1, Typing, Readable, PTL

-----------------------------------------------------------------------------
\* There are finitely many live cells, so that their amounts have a sum.
FiniteCells == IsFiniteSet(DOMAIN cells)

LEMMA CreatedFinite ==
  ASSUME NEW h, NEW list \in Seq(Cell) PROVE IsFiniteSet(DOMAIN Created(h, list))
<1>1. IsFiniteSet({h}) /\ IsFiniteSet(1 .. Len(list))
  <2>1. IsFiniteSet({h})
    BY FS_Singleton
  <2>2. Len(list) \in Int /\ 1 \in Int
    OBVIOUS
  <2> QED
    BY <2>1, <2>2, FS_Interval
<1>2. DOMAIN Created(h, list) = {h} \X (1 .. Len(list))
  BY DEF Created
<1> QED
  BY <1>1, <1>2, FS_Product

LEMMA SidesFinite ==
  ASSUME TypeOK, FiniteCells, Next
  PROVE  IsFiniteSet(DOMAIN tx'.consumed) /\ IsFiniteSet(DOMAIN tx'.created)
<1>1. IsFiniteSet(DOMAIN tx'.consumed)
  BY StepEffect, FS_Subset DEF FiniteCells
<1>2. PICK list \in OutputLists : tx'.created = Created(height + 1, list)
  BY StepEffect
<1>3. list \in Seq(Cell)
  BY CellsAssumption
<1> QED
  BY <1>1, <1>2, <1>3, CreatedFinite

LEMMA AlwaysFinite == Spec => []FiniteCells
<1>1. Init => FiniteCells
  BY CellsAssumption, CreatedFinite DEF Init, FiniteCells
<1>2. TypeOK /\ FiniteCells /\ [Next]_vars => FiniteCells'
  <2>1. ASSUME TypeOK, FiniteCells, Next PROVE FiniteCells'
    <3>1. IsFiniteSet(DOMAIN cells \ DOMAIN tx'.consumed)
      BY <2>1, FS_Difference DEF FiniteCells
    <3>2. DOMAIN cells' = (DOMAIN cells \ DOMAIN tx'.consumed) \union DOMAIN tx'.created
      BY <2>1, StepEffect
    <3> QED
      BY <2>1, <3>1, <3>2, SidesFinite, FS_Union DEF FiniteCells
  <2>2. FiniteCells /\ UNCHANGED vars => FiniteCells'
    BY DEF vars, FiniteCells
  <2> QED
    BY <2>1, <2>2
<1> QED
  BY <1>1, <1>2, Typing, PTL DEF Spec

-----------------------------------------------------------------------------
\* The sum of the amounts at two disjoint sets of outpoints.
LEMMA TotalUnion ==
  ASSUME NEW family, NEW P, NEW Q, IsFiniteSet(P), IsFiniteSet(Q), P \intersect Q = {},
         \A o \in P \union Q : family[o].amt \in Nat
  PROVE  /\ Total(family, P \union Q) = Total(family, P) + Total(family, Q)
         /\ Total(family, P) \in Nat /\ Total(family, Q) \in Nat
<1> DEFINE S == P \union Q
           f == [o \in S |-> family[o].amt]
<1>1. IsFiniteSet(S) /\ f \in [S -> Nat] /\ P \in SUBSET S /\ S \ P = Q
  BY FS_Union
<1>2. /\ On(f, P) = [o \in P |-> family[o].amt] /\ On(f, Q) = [o \in Q |-> family[o].amt]
      /\ On(f, P) \in [P -> Nat] /\ On(f, Q) \in [Q -> Nat]
  BY DEF On
<1>3. Sum(f) = Sum(On(f, P)) + Sum(On(f, S \ P))
  <2> HIDE DEF f, S
  <2> QED
    BY <1>1, SumSplit
<1>4. Sum(On(f, P)) \in Nat /\ Sum(On(f, Q)) \in Nat
  BY <1>2, SumType
<1> HIDE DEF S
<1> QED
  BY <1>1, <1>2, <1>3, <1>4 DEF Total, S

\* Sums over the same cells are the same.
LEMMA TotalSame ==
  ASSUME NEW family, NEW other, NEW S, \A o \in S : family[o] = other[o]
  PROVE  Total(family, S) = Total(other, S)
<1>1. [o \in S |-> family[o].amt] = [o \in S |-> other[o].amt]
  OBVIOUS
<1> QED
  BY <1>1 DEF Total

\* A transaction takes spent from the cells before and adds new to get after.
Moves(before, after, spent, new) ==
  /\ before \subseteq DOMAIN cells /\ spent = before \intersect DOMAIN tx'.consumed
  /\ new \subseteq DOMAIN tx'.created /\ after = (before \ spent) \union new

\* Some amounts stay; the others are replaced by those of the new cells.
Replaced(before, after, spent, new) ==
  \E rest \in Nat :
    /\ Total(cells, before) = rest + Total(tx'.consumed, spent)
    /\ Total(cells', after) = rest + Total(tx'.created, new)
    /\ Total(tx'.consumed, spent) \in Nat /\ Total(tx'.created, new) \in Nat

\* What a transaction does to a sum over live cells.
LEMMA TotalStep ==
  ASSUME TypeOK, TypeOK', FiniteCells, Next, NEW before, NEW after, NEW spent, NEW new,
         Moves(before, after, spent, new)
  PROVE  Replaced(before, after, spent, new)
<1>0. /\ before \subseteq DOMAIN cells /\ spent = before \intersect DOMAIN tx'.consumed
      /\ new \subseteq DOMAIN tx'.created /\ after = (before \ spent) \union new
  BY DEF Moves
<1> DEFINE kept == before \ spent
<1>1. /\ \A o \in DOMAIN cells : cells[o].amt \in Nat
      /\ \A o \in DOMAIN cells' : cells'[o].amt \in Nat
  BY WidthAssumption DEF TypeOK, Cell, Amounts
<1>2. IsFiniteSet(before) /\ IsFiniteSet(spent) /\ IsFiniteSet(kept) /\ IsFiniteSet(new)
  <2>1. before \in SUBSET DOMAIN cells /\ spent \in SUBSET before /\ kept \in SUBSET before
        /\ new \in SUBSET DOMAIN tx'.created
    BY <1>0
  <2>2. IsFiniteSet(before) /\ IsFiniteSet(new)
    BY <2>1, SidesFinite, FS_Subset DEF FiniteCells
  <2> QED
    BY <2>1, <2>2, FS_Subset
<1>3. /\ Total(cells, before) = Total(cells, kept) + Total(cells, spent)
      /\ Total(cells, kept) \in Nat /\ Total(cells, spent) \in Nat
  <2>1. kept \intersect spent = {} /\ kept \union spent = before
    BY <1>0
  <2>2. \A o \in kept \union spent : cells[o].amt \in Nat
    BY <1>0, <1>1
  <2> HIDE DEF kept
  <2>3. /\ Total(cells, kept \union spent) = Total(cells, kept) + Total(cells, spent)
        /\ Total(cells, kept) \in Nat /\ Total(cells, spent) \in Nat
    BY <1>2, <2>1, <2>2, TotalUnion
  <2> QED
    BY <2>1, <2>3
<1>4. /\ Total(cells', after) = Total(cells', kept) + Total(cells', new)
      /\ Total(cells', new) \in Nat
  <2>1. kept \intersect new = {} /\ kept \union new = after
    BY <1>0, StepEffect
  <2>2. \A o \in kept \union new : cells'[o].amt \in Nat
    BY <1>0, <1>1, StepEffect
  <2> HIDE DEF kept
  <2> QED
    BY <1>2, <2>1, <2>2, TotalUnion
<1>5. Total(cells', kept) = Total(cells, kept)
  <2>1. \A o \in kept : cells'[o] = cells[o]
    BY <1>0, StepEffect
  <2> HIDE DEF kept
  <2> QED
    BY <2>1, TotalSame
<1>6. Total(cells', new) = Total(tx'.created, new)
  <2>1. \A o \in new : cells'[o] = tx'.created[o]
    BY <1>0, StepEffect
  <2> QED
    BY <2>1, TotalSame
<1>7. Total(cells, spent) = Total(tx'.consumed, spent)
  <2>1. \A o \in spent : cells[o] = tx'.consumed[o]
    BY <1>0, StepEffect
  <2> QED
    BY <2>1, TotalSame
<1> HIDE DEF kept
<1> QED
  BY <1>3, <1>4, <1>5, <1>6, <1>7 DEF Replaced

\* A number that fits an uint128_t is not changed by the sums' wrapping.
LEMMA FitsU128 ==
  ASSUME NEW x \in Nat, x < U128 PROVE x % U128 = x
BY WidthAssumption

LEMMA WrapsDown ==
  ASSUME NEW x \in Nat PROVE x % U128 \in Nat /\ x % U128 <= x
<1>1. x % U128 = x - U128 * (x \div U128) /\ x \div U128 \in Nat
  BY WidthAssumption
<1>2. U128 * (x \div U128) \in Nat
  BY <1>1, WidthAssumption
<1> QED
  BY <1>1, <1>2, WidthAssumption

\* Tokens appear only under the governance script, or out of sums that wrap: the
\* two sums of verify_udt_usage, over all that a transaction consumes and creates.
THEOREM SuppliesGrowByGovernance == Spec => SupplyGrowsByGovernance
<1>1. TypeOK /\ TypeOK' /\ FiniteCells /\ [Next]_vars =>
        [\A t \in Tokens :
           Total(cells', OfType(cells', t)) > Total(cells, OfType(cells, t)) =>
             \/ GovernancePresent(Governance[t], tx'.consumed)
             \/ Total(tx'.created, OfType(tx'.created, t)) >= U128]_vars
  <2> SUFFICES ASSUME TypeOK, TypeOK', FiniteCells, Next, NEW t \in Tokens,
                      Total(cells', OfType(cells', t)) > Total(cells, OfType(cells, t)),
                      ~GovernancePresent(Governance[t], tx'.consumed)
               PROVE  Total(tx'.created, OfType(tx'.created, t)) >= U128
    OBVIOUS
  <2> DEFINE in == Total(tx'.consumed, OfType(tx'.consumed, t))
             out == Total(tx'.created, OfType(tx'.created, t))
  <2>1. /\ OfType(cells, t) \subseteq DOMAIN cells
        /\ OfType(tx'.consumed, t) = OfType(cells, t) \intersect DOMAIN tx'.consumed
        /\ OfType(tx'.created, t) \subseteq DOMAIN tx'.created
        /\ OfType(cells', t) = (OfType(cells, t) \ OfType(tx'.consumed, t))
                                 \union OfType(tx'.created, t)
    <3>1. OfType(tx'.consumed, t) = OfType(cells, t) \intersect DOMAIN tx'.consumed
      BY StepEffect DEF OfType
    <3>2. OfType(cells', t) = (OfType(cells, t) \ OfType(tx'.consumed, t))
                                \union OfType(tx'.created, t)
      BY StepEffect DEF OfType
    <3> QED
      BY <3>1, <3>2 DEF OfType
  <2>2. \E rest \in Nat :
          /\ Total(cells, OfType(cells, t)) = rest + in
          /\ Total(cells', OfType(cells', t)) = rest + out
          /\ in \in Nat /\ out \in Nat
    <3>1. Moves(OfType(cells, t), OfType(cells', t), OfType(tx'.consumed, t), OfType(tx'.created, t))
      BY <2>1 DEF Moves
    <3>2. Replaced(OfType(cells, t), OfType(cells', t), OfType(tx'.consumed, t), OfType(tx'.created, t))
      BY <3>1, TotalStep
    <3> QED
      BY <3>2 DEF Replaced
  <2>3. in \in Nat /\ out \in Nat /\ out > in
    <3> HIDE DEF in, out
    <3> QED
      BY <2>2
  <2>4. t \in Types(tx'.created)
    <3>1. OfType(tx'.created, t) # {}
      <4> SUFFICES ASSUME OfType(tx'.created, t) = {} PROVE FALSE
        OBVIOUS
      <4>1. out = 0
        BY SumEmpty DEF Total
      <4> QED
        BY <2>3, <4>1
    <3>2. t # NoType
      BY ScriptsAssumption, NoTypeAssumption
    <3> QED
      BY <3>1, <3>2 DEF OfType, Types
  <2>5. out % U128 <= in % U128
    BY <2>4, StepEffect DEF TypeAccepts, SudtAccepts, UsagePasses
  <2> HIDE DEF in, out
  <2>6. out >= U128
    BY <2>3, <2>5, FitsU128, WrapsDown, WidthAssumption
  <2> QED
    BY <2>6 DEF out
<1> QED
  BY <1>1, Typing, AlwaysFinite, PTL DEF Spec, SupplyGrowsByGovernance

-----------------------------------------------------------------------------
LEMMA TotalOne ==
  ASSUME NEW family, NEW o, family[o].amt \in Nat
  PROVE  Total(family, {o}) = family[o].amt
<1> DEFINE f == [x \in {o} |-> family[x].amt]
<1>1. IsFiniteSet({o}) /\ f \in [{o} -> Nat] /\ o \in {o} /\ f[o] = family[o].amt
  BY FS_Singleton
<1>2. On(f, {o} \ {o}) \in [{} -> Nat]
  BY DEF On
<1>3. Sum(f) = f[o] + Sum(On(f, {o} \ {o}))
  <2> HIDE DEF f
  <2> QED
    BY <1>1, SumRemove
<1>4. Sum(On(f, {o} \ {o})) = 0
  <2> HIDE DEF f
  <2> QED
    BY <1>2, SumEmpty
<1> QED
  BY <1>1, <1>3, <1>4 DEF Total

LEMMA TotalNone == ASSUME NEW family PROVE Total(family, {}) = 0
BY SumEmpty DEF Total

LEMMA OneCounts == ASSUME NEW S, ExactlyOne(S) PROVE IsFiniteSet(S) /\ Cardinality(S) = 1
<1>1. PICK x : S = {x}
  BY DEF ExactlyOne, AtMostOne
<1> QED
  BY <1>1, FS_Singleton

\* A transaction moves the cells of an account as it moves all cells.
LEMMA AccountMoves ==
  ASSUME TypeOK, Next, NEW w \in Wallets
  PROVE  Moves(AccountCells(cells, w), AccountCells(cells', w),
               AccountCells(tx'.consumed, w), AccountCells(tx'.created, w))
<1>1. /\ AccountCells(cells, w) \subseteq DOMAIN cells
      /\ AccountCells(tx'.created, w) \subseteq DOMAIN tx'.created
  BY DEF AccountCells, LockedBy
<1>2. AccountCells(tx'.consumed, w) = AccountCells(cells, w) \intersect DOMAIN tx'.consumed
  BY StepEffect DEF AccountCells, LockedBy
<1>3. AccountCells(cells', w) =
        (AccountCells(cells, w) \ AccountCells(tx'.consumed, w)) \union AccountCells(tx'.created, w)
  BY StepEffect DEF AccountCells, LockedBy
<1> QED
  BY <1>1, <1>2, <1>3 DEF Moves

\* The number of cells after a transaction, for any part of them.
LEMMA CountStep ==
  ASSUME TypeOK, FiniteCells, Next, NEW before, NEW after, NEW spent, NEW new,
         Moves(before, after, spent, new)
  PROVE  /\ Cardinality(after) = Cardinality(before) - Cardinality(spent) + Cardinality(new)
         /\ Cardinality(before) \in Nat /\ Cardinality(spent) \in Nat /\ Cardinality(new) \in Nat
         /\ IsFiniteSet(new)
<1>0. /\ before \subseteq DOMAIN cells /\ spent = before \intersect DOMAIN tx'.consumed
      /\ new \subseteq DOMAIN tx'.created /\ after = (before \ spent) \union new
  BY DEF Moves
<1>1. IsFiniteSet(before) /\ IsFiniteSet(new)
  <2>1. before \in SUBSET DOMAIN cells /\ new \in SUBSET DOMAIN tx'.created
    BY <1>0
  <2> QED
    BY <2>1, SidesFinite, FS_Subset DEF FiniteCells
<1>2. IsFiniteSet(spent)
  <2>1. spent \in SUBSET before
    BY <1>0
  <2> QED
    BY <1>1, <2>1, FS_Subset
<1>3. /\ IsFiniteSet(before \ spent)
      /\ Cardinality(before \ spent) = Cardinality(before) - Cardinality(before \intersect spent)
  BY <1>1, FS_Difference
<1>4. before \intersect spent = spent /\ (before \ spent) \intersect new = {}
  BY <1>0, StepEffect
<1>5. Cardinality((before \ spent) \union new) =
        Cardinality(before \ spent) + Cardinality(new) - Cardinality((before \ spent) \intersect new)
  BY <1>1, <1>3, FS_Union
<1>6. /\ Cardinality(before) \in Nat /\ Cardinality(spent) \in Nat /\ Cardinality(new) \in Nat
      /\ Cardinality({}) = 0
  BY <1>1, <1>2, FS_CardinalityType, FS_EmptySet
<1>7. Cardinality(before \ spent) = Cardinality(before) - Cardinality(spent)
  BY <1>3, <1>4
<1>8. Cardinality(after) = Cardinality(before \ spent) + Cardinality(new) - 0
  BY <1>0, <1>4, <1>5, <1>6
<1>9. Cardinality(after) = Cardinality(before) - Cardinality(spent) + Cardinality(new)
  BY <1>6, <1>7, <1>8
<1> QED
  BY <1>1, <1>6, <1>9

\* What one transaction does to one account.
Balance(family, w) == Total(family, AccountCells(family, w))
Holdings(family, w) == Cardinality(AccountCells(family, w))
Uses(w) == \E t \in Types(tx'.consumed) \union Types(tx'.created) :
             t \in Plugins /\ PluginWallet[t] = w

LEMMA AccountStep ==
  ASSUME TypeOK, TypeOK', FiniteCells, Next, NEW w \in Wallets
  PROVE  \/ /\ w \in tx'.signed /\ Holdings(cells', w) = Holdings(cells, w)
         \/ /\ w \notin tx'.signed /\ Holdings(cells', w) = Holdings(cells, w)
            /\ Balance(cells', w) >= Balance(cells, w) + ArgsOf[w].udt_rate
         \/ /\ w \notin tx'.signed /\ ~Uses(w)
            /\ Balance(cells', w) >= Balance(cells, w)
            /\ \/ Holdings(cells', w) > Holdings(cells, w)
               \/ Balance(cells', w) = Balance(cells, w)
            /\ Holdings(cells', w) >= Holdings(cells, w)
<1> DEFINE in == AccountCells(tx'.consumed, w)
           out == AccountCells(tx'.created, w)
<1>1. Moves(AccountCells(cells, w), AccountCells(cells', w), in, out)
  BY AccountMoves
<1>2. Replaced(AccountCells(cells, w), AccountCells(cells', w), in, out)
  BY <1>1, TotalStep
<1>3. PICK rest \in Nat :
        /\ Balance(cells, w) = rest + Total(tx'.consumed, in)
        /\ Balance(cells', w) = rest + Total(tx'.created, out)
        /\ Total(tx'.consumed, in) \in Nat /\ Total(tx'.created, out) \in Nat
  BY <1>2 DEF Replaced, Balance
<1>4. /\ Holdings(cells', w) = Holdings(cells, w) - Cardinality(in) + Cardinality(out)
      /\ Holdings(cells, w) \in Nat /\ Cardinality(in) \in Nat /\ Cardinality(out) \in Nat
      /\ IsFiniteSet(out)
  BY <1>1, CountStep DEF Holdings
<1>5. CASE LockedBy(tx'.consumed, w) # {}
  <2>1. ExactlyOne(in) /\ ExactlyOne(out)
    BY <1>5, WalletStep
  <2>2. Holdings(cells', w) = Holdings(cells, w)
    BY <1>4, <2>1, OneCounts
  <2>3. ASSUME w \notin tx'.signed
        PROVE  Balance(cells', w) >= Balance(cells, w) + ArgsOf[w].udt_rate
    <3>1. PICK o \in DOMAIN tx'.consumed, p \in DOMAIN tx'.created :
            /\ in = {o} /\ out = {p}
            /\ tx'.created[p].amt >= tx'.consumed[o].amt + ArgsOf[w].udt_rate
      BY <1>5, <2>3, WalletStep DEF HandedOnPaid
    <3>2. /\ tx'.consumed[o].amt \in Nat /\ tx'.created[p].amt \in Nat
          /\ ArgsOf[w].udt_rate \in Nat
      <4>1. tx'.consumed[o] \in Cell /\ tx'.created[p] \in Cell
        BY StepEffect DEF TypeOK
      <4> QED
        BY <4>1, ScriptsAssumption, WidthAssumption DEF Cell, WalletArgs, Amounts
    <3>3. /\ Total(tx'.consumed, in) = tx'.consumed[o].amt
          /\ Total(tx'.created, out) = tx'.created[p].amt
      BY <3>1, <3>2, TotalOne
    <3> HIDE DEF in, out
    <3> QED
      BY <1>3, <3>1, <3>2, <3>3
  <2> QED
    BY <2>2, <2>3
<1>6. CASE LockedBy(tx'.consumed, w) = {}
  <2>1. w \notin tx'.signed
    BY <1>6, StepEffect DEF Locks, LockedBy
  <2>2. ~Uses(w)
    <3> SUFFICES ASSUME NEW t \in Types(tx'.consumed) \union Types(tx'.created),
                        t \in Plugins, PluginWallet[t] = w
                 PROVE  FALSE
      BY DEF Uses
    <3>1. ReuseCoinVerify(w, tx'.consumed, tx'.created)
      BY StepEffect DEF TypeAccepts
    <3> QED
      BY <1>6, <3>1 DEF ReuseCoinVerify, ExactlyOne
  <2>3. in = {}
    BY <1>6 DEF AccountCells
  <2>4. Total(tx'.consumed, in) = 0 /\ Cardinality(in) = 0
    BY <2>3, TotalNone, FS_EmptySet
  <2>5. out = {} => Total(tx'.created, out) = 0 /\ Cardinality(out) = 0
    BY TotalNone, FS_EmptySet
  <2>6. out # {} => Cardinality(out) > 0
    BY <1>4, FS_EmptySet
  <2> HIDE DEF in, out
  <2>7. Balance(cells, w) \in Nat /\ Balance(cells', w) \in Nat
    BY <1>3
  <2>8. Balance(cells', w) >= Balance(cells, w) /\ Holdings(cells', w) >= Holdings(cells, w)
    BY <1>3, <1>4, <2>4
  <2>9. Holdings(cells', w) > Holdings(cells, w) \/ Balance(cells', w) = Balance(cells, w)
    BY <1>3, <1>4, <2>4, <2>5, <2>6
  <2> QED
    BY <2>1, <2>2, <2>8, <2>9
<1> QED
  BY <1>5, <1>6

\* The chain is what the developer is promised: an account only its owner draws
\* on, fed by every use of the script and drained by nobody else. Together the
\* wallet lock, the token script and the plugin implement it.
THEOREM ChainImplementsAccount == Spec => ImplementsAccount
<1>1. TypeOK /\ FiniteCells /\ Init => Account!Init
  <2> SUFFICES ASSUME TypeOK, FiniteCells, Init PROVE Account!Init
    OBVIOUS
  <2>1. balance \in [Wallets -> Nat] /\ holdings \in [Wallets -> Nat]
    <3> SUFFICES ASSUME NEW w \in Wallets
                 PROVE  /\ Total(cells, AccountCells(cells, w)) \in Nat
                        /\ Cardinality(AccountCells(cells, w)) \in Nat
      BY DEF balance, holdings
    <3>1. AccountCells(cells, w) \in SUBSET DOMAIN cells
      BY DEF AccountCells, LockedBy
    <3>2. IsFiniteSet(AccountCells(cells, w))
      BY <3>1, FS_Subset DEF FiniteCells
    <3>3. Total(cells, AccountCells(cells, w)) \in Nat
      <4> DEFINE f == [o \in AccountCells(cells, w) |-> cells[o].amt]
      <4>1. f \in [AccountCells(cells, w) -> Nat]
        BY <3>1, WidthAssumption DEF TypeOK, Cell, Amounts
      <4> HIDE DEF f
      <4>2. Sum(f) \in Nat
        BY <3>2, <4>1, SumType
      <4> QED
        BY <4>2 DEF f, Total
    <3> QED
      BY <3>2, <3>3, FS_CardinalityType
  <2>2. signed_for = [w \in Wallets |-> FALSE]
    <3>1. tx.signed = {}
      BY DEF Init
    <3>2. \A w \in Wallets : (w \in tx.signed) = FALSE
      BY <3>1
    <3>3. [w \in Wallets |-> w \in tx.signed] = [w \in Wallets |-> FALSE]
      BY <3>2, Zenon
    <3> QED
      BY <3>3 DEF signed_for
  <2>3. used = [w \in Wallets |-> FALSE]
    BY DEF Init, used, Types, Nothing
  <2> QED
    BY <2>1, <2>2, <2>3 DEF Account!Init
<1>2. TypeOK /\ TypeOK' /\ FiniteCells /\ [Next]_vars => [Account!Next]_(Account!avars)
  <2>1. ASSUME TypeOK, TypeOK', FiniteCells, Next PROVE Account!Next
    <3> SUFFICES ASSUME NEW w \in Wallets
                 PROVE  Account!Deposit(w) \/ Account!Open(w) \/ Account!Withdraw(w)
      BY DEF Account!Next
    <3>1. /\ balance[w] = Balance(cells, w) /\ balance'[w] = Balance(cells', w)
          /\ holdings[w] = Holdings(cells, w) /\ holdings'[w] = Holdings(cells', w)
          /\ signed_for'[w] = (w \in tx'.signed) /\ used'[w] = Uses(w)
      BY DEF balance, holdings, signed_for, used, Balance, Holdings, Uses
    <3> QED
      BY <2>1, <3>1, AccountStep
      DEF Account!Deposit, Account!Open, Account!Withdraw
  <2>2. UNCHANGED vars => UNCHANGED Account!avars
    BY DEF vars, Account!avars, balance, holdings, signed_for, used
  <2> QED
    BY <2>1, <2>2
<1> QED
  BY <1>1, <1>2, Typing, AlwaysFinite, PTL DEF Spec, ImplementsAccount, Account!Spec
=============================================================================
