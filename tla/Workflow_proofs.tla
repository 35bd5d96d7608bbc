-------------------------- MODULE Workflow_proofs --------------------------
(***************************************************************************)
(* That the outpoints the workflow hands on keep naming the cells they     *)
(* stand for, for every genesis, whatever the SDK selects and whenever the *)
(* node mines.  HeldCells says nothing of the cells collected for the step *)
(* at work, nor of what outpoints there are: IInv adds that none of the    *)
(* held cells was collected, that no two transactions create the same      *)
(* outpoint, and that steps to come have created nothing.  Then, that no   *)
(* publishing step is refused by a script.                                 *)
(***************************************************************************)
EXTENDS Workflow, FamilySums_proofs, SequenceTheorems, TLAPS

\* The outpoints held when the run is at step s, and the cells they stand for.
Held(s) ==
  {o \in {UdtDef, WalletLockCode, ReusableScript} : o[1] < s}
    \union (IF s \in 3 .. 4 THEN {UdtInstance} ELSE {})
    \union (IF s \in 5 .. 6 THEN {WalletCell, UdtCell} ELSE {})
CellAt(o) == Run[o[1]].outputs[o[2] + 1]

Past(o) == o[1] \in 0 .. step - 1
Creates(tx, o) == o \in DOMAIN tx.created /\ tx.created[o] = CellAt(o)

Steps == step \in 1 .. 7
Fresh ==
  /\ \A o \in DOMAIN live : Past(o)
  /\ \A tx \in pool : \A o \in DOMAIN tx.created : Past(o) /\ o \notin DOMAIN live
  /\ \A tx \in pool : \A o \in tx.inputs : Past(o)
  /\ \A tx1, tx2 \in pool : \A o \in DOMAIN tx1.created \intersect DOMAIN tx2.created : tx1 = tx2
Unspent == \A o \in Held(step) : o \notin DOMAIN collected /\ \A tx \in pool : o \notin tx.inputs
Kept ==
  \A o \in Held(step) :
    \/ o \in DOMAIN live /\ live[o] = CellAt(o)
    \/ \E tx \in pool : Creates(tx, o)
IInv == Steps /\ Fresh /\ Unspent /\ Kept

-----------------------------------------------------------------------------
\* The steps, one by one.
LEMMA RunSteps ==
  /\ Run[1] = deployCodeCells /\ Run[2] = issueUdt /\ Run[3] = deployWalletLock
  /\ Run[4] = deployWallet /\ Run[5] = deployReusableScript /\ Run[6] = useReusableScript
  BY DEF Run

\* The cells held are those of code and of tokens: none has short data.
LEMMA CellsHeld ==
  /\ CellAt(UdtDef) = Code(lock1, "sudt") /\ CellAt(WalletLockCode) = Code(lock1, "wallet")
  /\ CellAt(ReusableScript) = Output(wallet, NoType, "long", 0, 1900, "reuse")
  /\ CellAt(UdtInstance) = Udt(lock1, 250000, 687)
  /\ CellAt(WalletCell) = Udt(wallet, 1000, 1000) /\ CellAt(UdtCell) = Udt(lock2, 249000, 1000)
  BY RunSteps DEF CellAt, UdtDef, WalletLockCode, ReusableScript, UdtInstance, WalletCell, UdtCell,
     deployCodeCells, issueUdt, deployWalletLock, deployWallet, deployReusableScript, Request

LEMMA HeldNotShort == ASSUME NEW s, NEW o \in Held(s) PROVE CellAt(o).size # "short"
  BY CellsHeld DEF Held, Code, Udt, Output

\* The asked outputs are one or two.
LEMMA AskedOutputs ==
  ASSUME NEW n \in 1 .. 6
  PROVE  \/ \E a : Run[n].outputs = <<a>>
         \/ \E a, b : Run[n].outputs = <<a, b>>
  BY RunSteps DEF deployCodeCells, issueUdt, deployWalletLock, deployWallet,
     deployReusableScript, useReusableScript, Request

\* The change comes after them.
From(cell, asked, change) == cell = change \/ \E j \in 1 .. Len(asked) : cell = asked[j]
LEMMA ChangeLast ==
  ASSUME NEW n \in 1 .. 6, NEW change
  PROVE  /\ Len(Outputs(Run[n], change)) \in Nat
         /\ \A k \in 1 .. Len(Run[n].outputs) :
              k <= Len(Outputs(Run[n], change)) /\ Outputs(Run[n], change)[k] = Run[n].outputs[k]
         /\ \A k \in 1 .. Len(Outputs(Run[n], change)) :
              From(Outputs(Run[n], change)[k], Run[n].outputs, change)
<1>1. \E S : Run[n].outputs \in Seq(S) /\ change \in S
  <2>1. ASSUME NEW a, Run[n].outputs = <<a>> PROVE Run[n].outputs \in Seq({a, change})
    BY <2>1
  <2>2. ASSUME NEW a, NEW b, Run[n].outputs = <<a, b>> PROVE Run[n].outputs \in Seq({a, b, change})
    BY <2>2
  <2>3. CASE \E a : Run[n].outputs = <<a>>
    BY <2>1, <2>3
  <2>4. CASE \E a, b : Run[n].outputs = <<a, b>>
    BY <2>2, <2>4
  <2> QED
    BY <2>3, <2>4, AskedOutputs
<1>2. PICK S : Run[n].outputs \in Seq(S) /\ change \in S
  BY <1>1
<1> DEFINE asked == Run[n].outputs
<1>3. /\ Len(asked) \in Nat /\ Len(Append(asked, change)) = Len(asked) + 1
      /\ \A k \in 1 .. Len(asked) : Append(asked, change)[k] = asked[k]
      /\ Append(asked, change)[Len(asked) + 1] = change
  BY <1>2, AppendProperties
<1>4. Outputs(Run[n], change) = Append(asked, change)
  BY DEF Outputs
<1> HIDE DEF asked
<1>5. ASSUME NEW k \in 1 .. Len(asked) + 1 PROVE k \in 1 .. Len(asked) \/ k = Len(asked) + 1
  BY <1>3
<1>6. \A k \in 1 .. Len(asked) + 1 :
        \/ Append(asked, change)[k] = change
        \/ \E j \in 1 .. Len(asked) : Append(asked, change)[k] = asked[j]
  BY <1>3, <1>5
<1> QED
  BY <1>3, <1>4, <1>6 DEF asked, From

\* A transaction of step n creates outpoints of n, the asked outputs first.
LEMMA TransactionCreates ==
  ASSUME NEW n \in 1 .. 6, NEW cells
  PROVE  /\ Transaction(n, cells).inputs = Run[n].inputs \union DOMAIN cells
         /\ \A o \in DOMAIN Transaction(n, cells).created : o[1] = n
         /\ \A k \in 1 .. Len(Run[n].outputs) : Creates(Transaction(n, cells), <<n, k - 1>>)
<1> DEFINE change == Plain(lock1, (Capacity(cells) - Needed(Run[n].outputs) - Fee) \div 4)
           outputs == Outputs(Run[n], change)
           created == Transaction(n, cells).created
<1>1. Transaction(n, cells).inputs = Run[n].inputs \union DOMAIN cells
  BY DEF Transaction
<1>2. created = [o \in {n} \X (0 .. Len(outputs) - 1) |-> outputs[o[2] + 1]]
  BY DEF Transaction
<1>3. \A o \in DOMAIN created : o[1] = n
  BY <1>2
<1>4. ASSUME NEW k \in 1 .. Len(Run[n].outputs) PROVE Creates(Transaction(n, cells), <<n, k - 1>>)
  <2> DEFINE o == <<n, k - 1>>
  <2>1. k \in Nat /\ k <= Len(outputs) /\ outputs[k] = Run[n].outputs[k] /\ Len(outputs) \in Nat
    <3>1. Len(Run[n].outputs) \in Nat
      BY AskedOutputs
    <3>2. /\ Len(outputs) \in Nat
          /\ k <= Len(outputs) /\ outputs[k] = Run[n].outputs[k]
      BY ChangeLast
    <3> QED
      BY <3>1, <3>2
  <2> HIDE DEF outputs
  <2>2. o \in {n} \X (0 .. Len(outputs) - 1) /\ o[2] + 1 = k /\ o[1] = n /\ k >= 1
    BY <2>1
  <2>3. o \in DOMAIN created /\ created[o] = outputs[k]
    BY <1>2, <2>2
  <2> QED
    BY <2>1, <2>2, <2>3 DEF Creates, CellAt
<1> QED
  BY <1>1, <1>3, <1>4

\* The cells asked for and the inputs given, one by one.
LEMMA StepInputs ==
  /\ Run[4].inputs = {UdtInstance} /\ Run[6].inputs = {WalletCell, UdtCell}
  /\ \A n \in {1, 2, 3, 5} : Run[n].inputs = {}
  BY RunSteps DEF deployCodeCells, issueUdt, deployWalletLock, deployWallet,
     deployReusableScript, useReusableScript, Request

LEMMA StepOutputs == \A n \in 1 .. 5 : 1 \in 1 .. Len(Run[n].outputs) /\ 2 \in 1 .. Len(Run[4].outputs)
<1>1. ASSUME NEW n \in 1 .. 5 PROVE 1 \in 1 .. Len(Run[n].outputs)
  <2>1. CASE \E a : Run[n].outputs = <<a>>
    BY <2>1
  <2>2. CASE \E a, b : Run[n].outputs = <<a, b>>
    BY <2>2
  <2>3. n \in 1 .. 6
    OBVIOUS
  <2> QED
    BY <2>1, <2>2, <2>3, AskedOutputs
<1>2. Len(Run[4].outputs) = 2
  <2>1. \E a, b : Run[4].outputs = <<a, b>>
    BY RunSteps DEF deployWallet, Request
  <2> QED
    BY <2>1
<1> QED
  BY <1>1, <1>2

\* What is held after a step was held before and is not an input of the step, or is
\* one of the cells the step creates.
LEMMA HeldNext ==
  ASSUME NEW n \in 1 .. 6, NEW o \in Held(n + 1)
  PROVE  \/ o \in Held(n) /\ o \notin Run[n].inputs
         \/ \E k \in 1 .. Len(Run[n].outputs) : o = <<n, k - 1>>
<1> DEFINE Asked(m, k) == k \in 1 .. Len(Run[m].outputs)
           Inputs(m) == Run[m].inputs
<1>1. \A m \in 1 .. 5 : Asked(m, 1) /\ Asked(4, 2)
  BY StepOutputs
<1>2. /\ Inputs(4) = {<<2, 0>>} /\ Inputs(6) = {<<4, 0>>, <<4, 1>>}
      /\ \A m \in {1, 2, 3, 5} : Inputs(m) = {}
  BY StepInputs DEF UdtInstance, WalletCell, UdtCell
<1>3. \/ o \in Held(n) /\ o \notin Inputs(n)
      \/ o = <<n, 0>> /\ n < 6
      \/ o = <<4, 1>> /\ n = 4
  <2> HIDE DEF Inputs
  <2> QED
    BY <1>2 DEF Held, UdtDef, WalletLockCode, ReusableScript, UdtInstance, WalletCell, UdtCell
<1>4. CASE o \in Held(n) /\ o \notin Inputs(n)
  BY <1>4
<1>5. CASE o = <<n, 0>> /\ n < 6
  <2>1. Asked(n, 1) /\ o = <<n, 1 - 1>>
    BY <1>1, <1>5
  <2> QED
    BY <2>1
<1>6. CASE o = <<4, 1>> /\ n = 4
  <2>1. Asked(n, 2) /\ o = <<n, 2 - 1>>
    BY <1>1, <1>6
  <2> QED
    BY <2>1
<1> QED
  BY <1>3, <1>4, <1>5, <1>6

\* A transaction the node takes consumes cells there are.
LEMMA TakenInputs == ASSUME NEW tx, Refusal(tx) = "none" PROVE tx.inputs \subseteq DOMAIN Existing
  BY DEF Refusal, Available

\* A held cell is there, and no pending transaction consumes it.
LEMMA HeldThere ==
  ASSUME IInv, NEW o \in Held(step) PROVE o \in Available /\ Existing[o] = CellAt(o)
<1>1. o \notin UNION {tx.inputs : tx \in pool}
  BY DEF IInv, Unspent
<1>2. CASE o \in DOMAIN live /\ live[o] = CellAt(o)
  BY <1>1, <1>2 DEF Available, Existing
<1>3. CASE o \notin DOMAIN live
  <2>1. PICK tx \in pool : Creates(tx, o)
    BY <1>3 DEF IInv, Kept
  <2>2. o \in UNION {DOMAIN t.created : t \in pool}
    BY <2>1 DEF Creates
  <2> DEFINE creator == CHOOSE t \in pool : o \in DOMAIN t.created
  <2>3. creator \in pool /\ o \in DOMAIN creator.created
    BY <2>1 DEF Creates
  <2>4. creator = tx
    BY <2>1, <2>3 DEF IInv, Fresh, Creates
  <2>5. o \in DOMAIN Pending /\ Pending[o] = CellAt(o)
    BY <2>1, <2>2, <2>4 DEF Pending, Creates
  <2> QED
    BY <1>1, <1>3, <2>5 DEF Available, Existing
<1> QED
  BY <1>2, <1>3 DEF IInv, Kept, Fresh, Creates

\* What is collected is not held: the held cells that are committed are not
\* spendable, the others are not among the cells the node lists.
LEMMA CollectInv == ASSUME IInv, Collect PROVE IInv'
<1>1. UNCHANGED <<live, pool, step>>
  BY DEF Collect
<1>2. ASSUME NEW o \in Held(step), o \in DOMAIN collected' PROVE FALSE
  <2>1. CASE UNCHANGED collected
    BY <1>2, <2>1 DEF IInv, Unspent
  <2>2. CASE collected' \in Selections(Run[step])
    <3>1. PICK S \in SUBSET Spendable(Run[step].from) : collected' = [p \in S |-> live[p]]
      BY <2>2 DEF Selections
    <3>2. o \in DOMAIN live /\ live[o].size = "short"
      BY <1>2, <3>1 DEF Spendable
    <3>3. live[o] = CellAt(o)
      BY <1>2, <3>2 DEF IInv, Kept, Fresh, Creates
    <3> QED
      BY <1>2, <3>2, <3>3, HeldNotShort
  <2> QED
    BY <2>1, <2>2 DEF Collect
<1>3. Steps' /\ Fresh'
  BY <1>1 DEF IInv, Steps, Fresh, Past
<1>4. Unspent'
  <2>1. Held(step)' = Held(step)
    BY <1>1
  <2> QED
    BY <1>1, <1>2, <2>1 DEF IInv, Unspent
<1>5. Kept'
  <2>1. Held(step)' = Held(step)
    BY <1>1
  <2> QED
    BY <1>1, <2>1 DEF IInv, Kept, Creates
<1> QED
  BY <1>3, <1>4, <1>5 DEF IInv

\* A step that is taken creates outpoints of its own and consumes none that is held
\* after it.
LEMMA TakenInv ==
  ASSUME IInv, step \in 1 .. 6, Refusal(Transaction(step, collected)) = "none",
         pool' = pool \union {Transaction(step, collected)}, step' = step + 1,
         collected' = <<>>, UNCHANGED live
  PROVE  IInv'
<1> DEFINE tx == Transaction(step, collected)
<1>1. /\ tx.inputs = Run[step].inputs \union DOMAIN collected
      /\ \A o \in DOMAIN tx.created : o[1] = step
      /\ \A k \in 1 .. Len(Run[step].outputs) : Creates(tx, <<step, k - 1>>)
  BY TransactionCreates
<1>2. \A o \in tx.inputs : Past(o)
  <2>1. tx.inputs \subseteq DOMAIN Existing
    BY TakenInputs
  <2>2. ASSUME NEW o \in DOMAIN Existing PROVE Past(o)
    BY <2>2 DEF Existing, Pending, IInv, Fresh
  <2> QED
    BY <2>1, <2>2
<1>3. pool' = pool \union {tx} /\ step' = step + 1 /\ live' = live /\ step \in Nat
      /\ DOMAIN collected' = {}
  OBVIOUS
<1> HIDE DEF tx
<1>4. Steps'
  BY <1>3 DEF Steps
<1>5. Fresh'
  <2>1. ASSUME NEW o, Past(o) PROVE Past(o)' /\ o[1] # step
    BY <1>3, <2>1 DEF Past
  <2>2. ASSUME NEW o \in DOMAIN tx.created PROVE Past(o)' /\ o \notin DOMAIN live /\ ~Past(o)
    <3>1. o[1] = step
      BY <1>1
    <3>2. ~Past(o) /\ Past(o)'
      BY <1>3, <3>1 DEF Past
    <3> QED
      BY <3>2 DEF IInv, Fresh
  <2>3. \A o \in DOMAIN live' : Past(o)'
    BY <1>3, <2>1 DEF IInv, Fresh
  <2>4. \A t \in pool' : \A o \in DOMAIN t.created : Past(o)' /\ o \notin DOMAIN live'
    BY <1>3, <2>1, <2>2 DEF IInv, Fresh
  <2>5. \A t \in pool' : \A o \in t.inputs : Past(o)'
    BY <1>2, <1>3, <2>1 DEF IInv, Fresh
  <2>6. ASSUME NEW t1 \in pool', NEW t2 \in pool',
               NEW o \in DOMAIN t1.created \intersect DOMAIN t2.created
        PROVE  t1 = t2
    BY <1>3, <2>2, <2>6 DEF IInv, Fresh
  <2> QED
    BY <2>3, <2>4, <2>5, <2>6 DEF Fresh
<1>6. ASSUME NEW o \in Held(step')
      PROVE  \/ o \in Held(step) /\ o \notin Run[step].inputs
             \/ Creates(tx, o) /\ ~Past(o)
  <2>1. o \in Held(step + 1)
    BY <1>3
  <2>2. \/ o \in Held(step) /\ o \notin Run[step].inputs
        \/ \E k \in 1 .. Len(Run[step].outputs) : o = <<step, k - 1>>
    BY <2>1, HeldNext
  <2>3. ASSUME NEW k \in 1 .. Len(Run[step].outputs), o = <<step, k - 1>>
        PROVE  Creates(tx, o) /\ ~Past(o)
    BY <1>1, <1>3, <2>3 DEF Past
  <2> QED
    BY <2>2, <2>3
<1>7. Unspent'
  <2>1. Held(step)' = Held(step')
    BY DEF Held
  <2> QED
    BY <1>1, <1>2, <1>3, <1>6, <2>1 DEF IInv, Unspent, Fresh
<1>8. Kept'
  <2>1. Held(step)' = Held(step')
    BY DEF Held
  <2> QED
    BY <1>3, <1>6, <2>1 DEF IInv, Kept, Creates
<1> QED
  BY <1>4, <1>5, <1>7, <1>8 DEF IInv

LEMMA SendInv == ASSUME IInv, Send PROVE IInv'
<1>1. step \in 1 .. 6
  BY DEF Send, Running, IInv, Steps
<1>2. CASE UNCHANGED <<live, pool, step, collected>>
  BY <1>2 DEF IInv, Steps, Fresh, Past, Unspent, Kept, Held, Creates
<1>3. CASE /\ Refusal(Transaction(step, collected)) = "none" /\ UNCHANGED live
           /\ pool' = pool \union {Transaction(step, collected)}
           /\ step' = step + 1 /\ collected' = <<>>
  BY <1>1, <1>3, TakenInv
<1> QED
  BY <1>2, <1>3 DEF Send

\* What is mined stays, in another place.
LEMMA MineInv == ASSUME IInv, Mine PROVE IInv'
<1>1. PICK tx \in pool :
        /\ live' = [o \in (DOMAIN live \ tx.inputs) \union DOMAIN tx.created |->
                      IF o \in DOMAIN tx.created THEN tx.created[o] ELSE live[o]]
        /\ pool' = pool \ {tx} /\ UNCHANGED <<step, collected>>
  BY DEF Mine
<1>2. \A o : Past(o)' <=> Past(o)
  BY <1>1 DEF Past
<1>3. Held(step)' = Held(step)
  BY <1>1
<1>4. Fresh'
  <2>1. \A o \in DOMAIN live' : Past(o)'
    BY <1>1, <1>2 DEF IInv, Fresh
  <2>2. ASSUME NEW t \in pool', NEW o \in DOMAIN t.created PROVE Past(o)' /\ o \notin DOMAIN live'
    <3>1. t \in pool /\ t # tx
      BY <1>1
    <3> QED
      BY <1>1, <1>2, <3>1 DEF IInv, Fresh
  <2>3. \A t \in pool' : \A o \in t.inputs : Past(o)'
    BY <1>1, <1>2 DEF IInv, Fresh
  <2> QED
    BY <1>1, <2>1, <2>2, <2>3 DEF IInv, Fresh
<1>5. Unspent'
  BY <1>1, <1>3 DEF IInv, Unspent
<1>6. ASSUME NEW o \in Held(step)
      PROVE  \/ o \in DOMAIN live' /\ live'[o] = CellAt(o)
             \/ \E t \in pool' : Creates(t, o)
  <2>1. CASE o \in DOMAIN live /\ live[o] = CellAt(o)
    <3>1. o \notin tx.inputs /\ o \notin DOMAIN tx.created
      BY <2>1 DEF IInv, Unspent, Fresh
    <3> QED
      BY <1>1, <2>1, <3>1
  <2>2. ASSUME NEW t \in pool, Creates(t, o) PROVE \/ o \in DOMAIN live' /\ live'[o] = CellAt(o)
                                                  \/ \E t2 \in pool' : Creates(t2, o)
    BY <1>1, <2>2 DEF Creates
  <2> QED
    BY <2>1, <2>2 DEF IInv, Kept
<1>7. Kept'
  BY <1>3, <1>6 DEF Kept, Creates
<1>8. Steps'
  BY <1>1 DEF IInv, Steps
<1> QED
  BY <1>4, <1>5, <1>7, <1>8 DEF IInv

-----------------------------------------------------------------------------
\* The invariant of the workflow and its node: where the held cells are.
THEOREM Invariant == Spec => []IInv
<1>1. Init => IInv
  <2> SUFFICES ASSUME Init PROVE IInv
    OBVIOUS
  <2>1. step = 1 /\ pool = {} /\ DOMAIN live = {0} \X DOMAIN Genesis
    BY DEF Init
  <2>2. Held(1) = {}
    BY DEF Held, UdtDef, WalletLockCode, ReusableScript
  <2> QED
    BY <2>1, <2>2 DEF IInv, Steps, Fresh, Past, Unspent, Kept
<1>2. IInv /\ [Next]_vars => IInv'
  <2> SUFFICES ASSUME IInv, [Next]_vars PROVE IInv'
    OBVIOUS
  <2>1. CASE UNCHANGED vars
    BY <2>1 DEF vars, IInv, Steps, Fresh, Past, Unspent, Kept, Held, Creates
  <2> QED
    BY <2>1, CollectInv, SendInv, MineInv DEF Next
<1> QED
  BY <1>1, <1>2, PTL DEF Spec

\* Every outpoint handed on by a step of runReuseCoinEndToEnd names the cell it was
\* made for until the workflow itself consumes it, whatever cells the keys start
\* with, whichever the SDK selects and whenever the node mines.
THEOREM OutpointsHold == Spec => []HeldCells
<1>1. IInv => HeldCells
  <2> SUFFICES ASSUME IInv PROVE HeldCells
    OBVIOUS
  <2>1. step \in 1 .. 7
    BY DEF IInv, Steps
  <2>2. /\ step > 1 => UdtDef \in Held(step)
        /\ step > 3 => WalletLockCode \in Held(step)
        /\ step > 5 => ReusableScript \in Held(step)
        /\ step \in 3 .. 4 => UdtInstance \in Held(step)
        /\ step \in 5 .. 6 => WalletCell \in Held(step) /\ UdtCell \in Held(step)
    BY <2>1 DEF Held, UdtDef, WalletLockCode, ReusableScript
  <2> QED
    BY <2>2, HeldThere, CellsHeld DEF HeldCells, Deploys, HoldsToken, Code, Udt, Output
<1> QED
  BY <1>1, Invariant, PTL

-----------------------------------------------------------------------------
\* What is known of the cells collected for a publishing step, and of its end.
Chosen ==
  step \in 1 .. 5 =>
    \A o \in DOMAIN collected :
      /\ collected[o].lock = lock1 /\ collected[o].type = NoType
      /\ o \in DOMAIN live => live[o] = collected[o]
      /\ \A tx \in pool : o \notin DOMAIN tx.created
SInv == IInv /\ Chosen /\ ScriptsNeverRefuse

\* What the publishing steps have in common.
LEMMA PublishingSteps ==
  \A n \in 1 .. 5 : /\ Run[n].from = lock1 /\ Run[n].deps \subseteq Held(n)
                    /\ Run[n].inputs \subseteq Held(n) \intersect {UdtInstance}
                    /\ Run[n].inputs # {} => UdtDef \in Run[n].deps
<1> USE RunSteps, StepInputs DEF Held, Request, UdtDef, WalletLockCode, ReusableScript, UdtInstance
<1>1. Run[1].from = lock1 /\ Run[1].deps = {}
  BY DEF deployCodeCells
<1>2. Run[2].from = lock1 /\ Run[2].deps = {UdtDef}
  BY DEF issueUdt
<1>3. Run[3].from = lock1 /\ Run[3].deps = {}
  BY DEF deployWalletLock
<1>4. Run[4].from = lock1 /\ Run[4].deps = {UdtDef, WalletLockCode}
  BY DEF deployWallet
<1>5. Run[5].from = lock1 /\ Run[5].deps = {WalletLockCode}
  BY DEF deployReusableScript
<1> QED
  BY <1>1, <1>2, <1>3, <1>4, <1>5

\* A cell the token has no objection to: without type, or with readable data and the
\* token's code among the deps.
Unobjectionable(cell, deps) ==
  \/ cell.type = NoType
  \/ cell.type = token /\ cell.size = "exact" /\ UdtDef \in deps

LEMMA PublishedOutputs ==
  ASSUME NEW n \in 1 .. 5, NEW k \in 1 .. Len(Run[n].outputs)
  PROVE  Unobjectionable(Run[n].outputs[k], Run[n].deps)
<1>1. CASE n \in {1, 3, 5}
  <2>1. \E a : Run[n].outputs = <<a>> /\ a.type = NoType
    BY <1>1, RunSteps
       DEF deployCodeCells, deployWalletLock, deployReusableScript, Request, Code, Output
  <2> QED
    BY <2>1 DEF Unobjectionable
<1>2. CASE n = 2
  <2>1. Run[n].outputs = <<Udt(lock1, 250000, 687)>> /\ Run[n].deps = {UdtDef}
    BY <1>2, RunSteps DEF issueUdt, Request
  <2> QED
    BY <2>1 DEF Unobjectionable, Udt, Output
<1>3. CASE n = 4
  <2>1. /\ Run[n].outputs = <<Udt(wallet, 1000, 1000), Udt(lock2, 249000, 1000)>>
        /\ UdtDef \in Run[n].deps
    BY <1>3, RunSteps DEF deployWallet, Request
  <2>2. k = 1 \/ k = 2
    BY <2>1
  <2> QED
    BY <2>1, <2>2 DEF Unobjectionable, Udt, Output
<1> QED
  BY <1>1, <1>2, <1>3

\* So are all cells a publishing step creates, the change included.
LEMMA PublishedCells ==
  ASSUME NEW n \in 1 .. 5, NEW cells, NEW o \in DOMAIN Transaction(n, cells).created
  PROVE  Unobjectionable(Transaction(n, cells).created[o], Run[n].deps)
<1>1. PICK change : /\ change.type = NoType
                    /\ Transaction(n, cells).created =
                         [p \in {n} \X (0 .. Len(Outputs(Run[n], change)) - 1) |->
                            Outputs(Run[n], change)[p[2] + 1]]
  <2> DEFINE c == Plain(lock1, (Capacity(cells) - Needed(Run[n].outputs) - Fee) \div 4)
  <2>1. Transaction(n, cells).created =
          [p \in {n} \X (0 .. Len(Outputs(Run[n], c)) - 1) |-> Outputs(Run[n], c)[p[2] + 1]]
    BY DEF Transaction
  <2>2. c.type = NoType
    BY DEF Plain, Output
  <2> HIDE DEF c
  <2> QED
    BY <2>1, <2>2
<1> DEFINE outputs == Outputs(Run[n], change)
           k == o[2] + 1
<1>2. n \in 1 .. 6
  OBVIOUS
<1>3. /\ Len(outputs) \in Nat
      /\ \A i \in 1 .. Len(outputs) : From(outputs[i], Run[n].outputs, change)
  BY <1>2, ChangeLast
<1> HIDE DEF outputs
<1>4. /\ o \in {n} \X (0 .. Len(outputs) - 1)
      /\ Transaction(n, cells).created[o] = outputs[k]
  BY <1>1 DEF outputs
<1>5. k \in 1 .. Len(outputs)
  BY <1>3, <1>4
<1> HIDE DEF k
<1>6. CASE outputs[k] = change
  BY <1>1, <1>4, <1>6 DEF Unobjectionable
<1>7. ASSUME NEW j \in 1 .. Len(Run[n].outputs), outputs[k] = Run[n].outputs[j]
      PROVE  Unobjectionable(Transaction(n, cells).created[o], Run[n].deps)
  BY <1>4, <1>7, PublishedOutputs
<1> QED
  BY <1>3, <1>5, <1>6, <1>7 DEF From

\* A transaction of such cells, signed by the one lock of its inputs, which is the
\* governance, is passed by every script it runs, and these are found.
LEMMA ScriptsPass ==
  ASSUME NEW tx, NEW consumed, tx.from = lock1, tx.first_lock = lock1, DOMAIN consumed # {},
         \A o \in DOMAIN consumed :
           consumed[o].lock = lock1 /\ Unobjectionable(consumed[o], tx.deps),
         \A o \in DOMAIN tx.created : Unobjectionable(tx.created[o], tx.deps),
         UdtDef \in tx.deps => Existing[UdtDef].code = "sudt"
  PROVE  /\ CodesFound(tx, consumed)
         /\ \A l \in Locks(consumed) : LockAccepts(l, tx, consumed)
         /\ \A t \in Types(consumed) \union Types(tx.created) : TypeAccepts(t, tx, consumed)
<1>1. lock1 # wallet /\ token # use /\ token # NoType
  BY NamesAssumption, NoTypeAssumption
<1>2. \A l \in Locks(consumed) : l = lock1
  BY DEF Locks
<1>3. \A t \in Types(consumed) \union Types(tx.created) : t = token /\ UdtDef \in tx.deps
  BY DEF Types, Unobjectionable
<1>4. CodesFound(tx, consumed)
  BY <1>1, <1>2, <1>3 DEF CodesFound, Deployed
<1>5. LockAccepts(lock1, tx, consumed)
  BY <1>1 DEF LockAccepts
<1>6. TypeAccepts(token, tx, consumed)
  <2>1. UdtDataPasses(token, consumed)
    BY <1>1 DEF UdtDataPasses, OfType, Unobjectionable
  <2>2. UdtDataPasses(token, tx.created)
    BY <1>1 DEF UdtDataPasses, OfType, Unobjectionable
  <2>3. GovernancePresent(Governance, consumed)
    BY DEF GovernancePresent, Governance, LockedBy
  <2> QED
    BY <2>1, <2>2, <2>3 DEF TypeAccepts, SudtAccepts
<1> QED
  BY <1>2, <1>3, <1>4, <1>5, <1>6

\* The cells a publishing step consumes, when they are all still there.
LEMMA PublishingConsumes ==
  ASSUME IInv, Chosen, step \in 1 .. 5, NEW o \in Run[step].inputs \union DOMAIN collected,
         o \in Available
  PROVE  Existing[o].lock = lock1 /\ Unobjectionable(Existing[o], Run[step].deps)
<1>1. CASE o \in Run[step].inputs
  <2>1. o = UdtInstance /\ UdtInstance \in Held(step) /\ UdtDef \in Run[step].deps
    BY <1>1, PublishingSteps
  <2>2. Existing[o] = Udt(lock1, 250000, 687)
    BY <2>1, HeldThere, CellsHeld
  <2> QED
    BY <2>1, <2>2 DEF Unobjectionable, Udt, Output
<1>2. CASE o \in DOMAIN collected
  <2>1. /\ collected[o].lock = lock1 /\ collected[o].type = NoType
        /\ o \in DOMAIN live => live[o] = collected[o]
        /\ \A tx \in pool : o \notin DOMAIN tx.created
    BY <1>2 DEF Chosen
  <2>2. o \in DOMAIN live /\ Existing[o] = live[o]
    BY <2>1 DEF Available, Existing, Pending
  <2> QED
    BY <2>1, <2>2 DEF Unobjectionable
<1> QED
  BY <1>1, <1>2

\* So no script of a publishing step refuses it, and none is missing.
LEMMA PublishingPasses ==
  ASSUME IInv, Chosen, step \in 1 .. 5, DOMAIN collected # {}
  PROVE  Refusal(Transaction(step, collected)) \notin {"unresolved", "script"}
<1> DEFINE tx == Transaction(step, collected)
           consumed == [o \in tx.inputs |-> Existing[o]]
<1>1. /\ tx.inputs = Run[step].inputs \union DOMAIN collected /\ tx.deps = Run[step].deps
      /\ tx.from = lock1 /\ tx.first_lock = lock1
  BY PublishingSteps DEF Transaction
<1>2. \A o \in DOMAIN tx.created : Unobjectionable(tx.created[o], tx.deps)
  BY <1>1, PublishedCells
<1>3. \A d \in tx.deps : d \in Available /\ Existing[d] = CellAt(d)
  BY <1>1, PublishingSteps, HeldThere
<1>4. UdtDef \in tx.deps => Existing[UdtDef].code = "sudt"
  BY <1>3, CellsHeld DEF Code, Output
<1>5. ASSUME tx.inputs \subseteq Available
      PROVE  /\ CodesFound(tx, consumed)
             /\ \A l \in Locks(consumed) : LockAccepts(l, tx, consumed)
             /\ \A t \in Types(consumed) \union Types(tx.created) : TypeAccepts(t, tx, consumed)
  <2> HIDE DEF tx
  <2>1. DOMAIN consumed # {} /\ \A o \in DOMAIN consumed : consumed[o] = Existing[o]
    BY <1>1
  <2>2. \A o \in DOMAIN consumed : o \in Available /\ o \in Run[step].inputs \union DOMAIN collected
    BY <1>1, <1>5
  <2>3. \A o \in DOMAIN consumed :
          consumed[o].lock = lock1 /\ Unobjectionable(consumed[o], tx.deps)
    BY <1>1, <2>1, <2>2, PublishingConsumes
  <2> HIDE DEF consumed
  <2> QED
    BY <1>1, <1>2, <1>4, <2>1, <2>3, ScriptsPass
<1> HIDE DEF tx
<1>6. tx.deps \subseteq Available
  BY <1>3
<1>7. Refusal(tx) \notin {"unresolved", "script"}
  BY <1>5, <1>6 DEF Refusal
<1> QED
  BY <1>7 DEF tx

-----------------------------------------------------------------------------
\* What is collected is committed, of the signer's lock and without type; it may be
\* consumed before the transaction is sent, but nothing takes its place.
LEMMA CollectSInv == ASSUME SInv, Collect PROVE Chosen' /\ ScriptsNeverRefuse'
<1>1. UNCHANGED <<live, pool, step>> /\ cause = "none"
  BY DEF Collect, Running
<1>2. CASE UNCHANGED collected
  BY <1>1, <1>2 DEF SInv, Chosen, Collect, ScriptsNeverRefuse
<1>3. CASE collected' \in Selections(Run[step]) /\ UNCHANGED cause
  <2>1. PICK S \in SUBSET Spendable(Run[step].from) : collected' = [p \in S |-> live[p]]
    BY <1>3 DEF Selections
  <2>2. ASSUME step \in 1 .. 5, NEW o \in DOMAIN collected'
        PROVE  /\ collected'[o].lock = lock1 /\ collected'[o].type = NoType
               /\ live[o] = collected'[o] /\ \A tx \in pool : o \notin DOMAIN tx.created
    <3>1. Run[step].from = lock1
      BY <2>2, PublishingSteps
    <3>2. o \in DOMAIN live /\ live[o].lock = lock1 /\ live[o].type = NoType
      BY <2>1, <2>2, <3>1 DEF Spendable
    <3>3. collected'[o] = live[o]
      BY <2>1, <2>2
    <3> QED
      BY <3>2, <3>3 DEF SInv, IInv, Fresh
  <2>3. Chosen'
    BY <1>1, <2>2 DEF Chosen
  <2> QED
    BY <1>1, <1>3, <2>3 DEF ScriptsNeverRefuse
<1> QED
  BY <1>2, <1>3 DEF Collect

LEMMA SendSInv == ASSUME SInv, Send PROVE Chosen' /\ ScriptsNeverRefuse'
<1>1. step \in 1 .. 6 /\ cause = "none"
  BY DEF Send, Running, SInv, IInv, Steps
<1>2. CASE collected' = <<>> /\ UNCHANGED cause
  BY <1>1, <1>2 DEF Chosen, ScriptsNeverRefuse
<1>3. CASE cause' = Refusal(Transaction(step, collected)) /\ UNCHANGED <<live, pool, step, collected>>
  <2>1. Chosen'
    BY <1>3 DEF SInv, Chosen
  <2>2. step <= 5 => cause' \notin {"unresolved", "script"}
    BY <1>1, <1>3, PublishingPasses DEF SInv, Send
  <2> QED
    BY <1>3, <2>1, <2>2 DEF ScriptsNeverRefuse
<1> QED
  BY <1>2, <1>3 DEF Send

LEMMA MineSInv == ASSUME SInv, Mine PROVE Chosen' /\ ScriptsNeverRefuse'
<1>1. PICK tx \in pool :
        /\ live' = [o \in (DOMAIN live \ tx.inputs) \union DOMAIN tx.created |->
                      IF o \in DOMAIN tx.created THEN tx.created[o] ELSE live[o]]
        /\ pool' = pool \ {tx} /\ UNCHANGED <<step, collected, cause>>
  BY DEF Mine
<1>2. ASSUME step \in 1 .. 5, NEW o \in DOMAIN collected
      PROVE  /\ o \in DOMAIN live' => live'[o] = collected[o]
             /\ \A t \in pool' : o \notin DOMAIN t.created
             /\ collected[o].lock = lock1 /\ collected[o].type = NoType
  BY <1>1, <1>2 DEF SInv, Chosen
<1> QED
  BY <1>1, <1>2 DEF SInv, Chosen, ScriptsNeverRefuse

\* For every genesis, whatever the SDK selects and whenever the node mines, no
\* publishing step of runReuseCoinEndToEnd is refused by the token or a lock, nor
\* for a script whose code is not among its deps.
THEOREM PublishingPassesScripts == Spec => []ScriptsNeverRefuse
<1>1. Init => Chosen /\ ScriptsNeverRefuse
  BY DEF Init, Chosen, ScriptsNeverRefuse
<1>2. IInv /\ Chosen /\ ScriptsNeverRefuse /\ [Next]_vars => (Chosen /\ ScriptsNeverRefuse)'
  <2> SUFFICES ASSUME SInv, [Next]_vars PROVE (Chosen /\ ScriptsNeverRefuse)'
    BY DEF SInv
  <2>1. CASE UNCHANGED vars
    BY <2>1 DEF vars, SInv, Chosen, ScriptsNeverRefuse
  <2> QED
    BY <2>1, CollectSInv, SendSInv, MineSInv DEF Next
<1> QED
  BY <1>1, <1>2, Invariant, PTL DEF Spec

-----------------------------------------------------------------------------
\* The capacity of the cells at some outpoints.
CapacityAt(family, S) == Sum([o \in S |-> family[o].capacity])

LEMMA CapacityAll == \A family : Capacity(family) = CapacityAt(family, DOMAIN family)
  BY DEF Capacity, CapacityAt

LEMMA CapacitySplit ==
  ASSUME NEW family, NEW S, IsFiniteSet(S), NEW P \in SUBSET S,
         \A o \in S : family[o].capacity \in Nat
  PROVE  /\ CapacityAt(family, S) = CapacityAt(family, P) + CapacityAt(family, S \ P)
         /\ CapacityAt(family, P) \in Nat /\ CapacityAt(family, S \ P) \in Nat
<1> DEFINE f == [o \in S |-> family[o].capacity]
<1>1. f \in [S -> Nat]
  OBVIOUS
<1>2. On(f, P) = [o \in P |-> family[o].capacity] /\ On(f, S \ P) = [o \in S \ P |-> family[o].capacity]
  BY DEF On
<1>3. /\ IsFiniteSet(P) /\ On(f, P) \in [P -> Nat]
      /\ IsFiniteSet(S \ P) /\ On(f, S \ P) \in [S \ P -> Nat]
  BY FS_Subset, FS_Difference DEF On
<1> HIDE DEF f
<1>4. Sum(f) = Sum(On(f, P)) + Sum(On(f, S \ P))
  BY <1>1, SumSplit
<1>5. Sum(On(f, P)) \in Nat /\ Sum(On(f, S \ P)) \in Nat
  BY <1>3, SumType
<1> QED
  BY <1>2, <1>4, <1>5 DEF CapacityAt, f

LEMMA CapacitySame ==
  ASSUME NEW family, NEW other, NEW S, \A o \in S : family[o] = other[o]
  PROVE  CapacityAt(family, S) = CapacityAt(other, S)
<1>1. [o \in S |-> family[o].capacity] = [o \in S |-> other[o].capacity]
  OBVIOUS
<1> QED
  BY <1>1 DEF CapacityAt

LEMMA CapacityTerm ==
  ASSUME NEW family, NEW S, IsFiniteSet(S), \A o \in S : family[o].capacity \in Nat
  PROVE  CapacityAt(family, S) \in Nat /\ \A o \in S : family[o].capacity <= CapacityAt(family, S)
<1> DEFINE f == [o \in S |-> family[o].capacity]
<1>1. f \in [S -> Nat] /\ \A o \in S : f[o] = family[o].capacity
  OBVIOUS
<1> HIDE DEF f
<1>2. Sum(f) \in Nat /\ \A o \in S : f[o] <= Sum(f)
  BY <1>1, SumTerm, SumType
<1> QED
  BY <1>1, <1>2 DEF CapacityAt, f

-----------------------------------------------------------------------------
\* Where the cells are.
Where ==
  /\ \A o \in DOMAIN live : o \in DOMAIN Existing /\ Existing[o] = live[o]
  /\ \A tx \in pool : \A o \in DOMAIN tx.created :
       o \in DOMAIN Existing /\ o \notin DOMAIN live /\ Existing[o] = tx.created[o]
  /\ \A o \in DOMAIN Existing : o \in DOMAIN live \/ \E tx \in pool : o \in DOMAIN tx.created

LEMMA CellsWhere == IInv => Where
<1> SUFFICES ASSUME IInv PROVE Where
  OBVIOUS
<1>1. \A o \in DOMAIN live : o \in DOMAIN Existing /\ Existing[o] = live[o]
  BY DEF Existing
<1>2. ASSUME NEW tx \in pool, NEW o \in DOMAIN tx.created
      PROVE  o \in DOMAIN Existing /\ o \notin DOMAIN live /\ Existing[o] = tx.created[o]
  <2> DEFINE creator == CHOOSE t \in pool : o \in DOMAIN t.created
  <2>1. creator \in pool /\ o \in DOMAIN creator.created
    BY <1>2
  <2>2. creator = tx
    BY <1>2, <2>1 DEF IInv, Fresh
  <2>3. o \in UNION {DOMAIN t.created : t \in pool} /\ o \notin DOMAIN live
    BY <1>2 DEF IInv, Fresh
  <2>4. o \in DOMAIN Pending /\ Pending[o] = tx.created[o]
    BY <2>2, <2>3 DEF Pending
  <2> QED
    BY <2>3, <2>4 DEF Existing
<1>3. ASSUME NEW o \in DOMAIN Existing
      PROVE  o \in DOMAIN live \/ \E tx \in pool : o \in DOMAIN tx.created
  BY <1>3 DEF Existing, Pending
<1> QED
  BY <1>1, <1>2, <1>3 DEF Where

LEMMA CellsWhereNext == IInv' => Where'
  BY CellsWhere, PTL

\* What the node refuses, and what it takes.
LEMMA RefusalMeans ==
  ASSUME NEW tx
  PROVE  LET consumed == [o \in tx.inputs |-> Existing[o]]
             beyond == Capacity(tx.created) > Capacity(consumed)
             small == \E o \in DOMAIN tx.created : tx.created[o].capacity < Occupied(tx.created[o])
         IN  /\ Refusal(tx) = "none" => tx.inputs \subseteq Available /\ ~beyond /\ ~small
             /\ Refusal(tx) = "encoding" => wallet \in Locks(tx.created)
             /\ Refusal(tx) = "double_spend" => ~(tx.inputs \subseteq Available)
             /\ Refusal(tx) = "capacity" => tx.inputs \subseteq Available /\ (beyond \/ small)
             /\ Refusal(tx) \in {"none", "encoding", "double_spend", "unresolved", "capacity", "script"}
  BY DEF Refusal

-----------------------------------------------------------------------------
\* What the two steps that change it do to what exists and what is available.
LEMMA TakenEffect ==
  ASSUME IInv, IInv', NEW tx, pool' = pool \union {tx}, live' = live,
         \A o \in DOMAIN tx.created : ~Past(o), \A o \in tx.inputs : Past(o)
  PROVE  /\ DOMAIN Existing' = DOMAIN Existing \union DOMAIN tx.created
         /\ \A o \in DOMAIN Existing : o \notin DOMAIN tx.created /\ Existing'[o] = Existing[o]
         /\ \A o \in DOMAIN tx.created : Existing'[o] = tx.created[o]
         /\ Available' = (Available \ tx.inputs) \union DOMAIN tx.created
<1>1. Where /\ Where'
  BY CellsWhere, CellsWhereNext
<1>2. \A o \in DOMAIN Existing : Past(o)
  BY <1>1 DEF Where, IInv, Fresh
<1>3. \A t \in pool : \A o \in t.inputs : Past(o)
  BY DEF IInv, Fresh
<1>4. DOMAIN Existing' = DOMAIN Existing \union DOMAIN tx.created
  BY <1>1 DEF Where
<1>5. \A o \in DOMAIN Existing : o \notin DOMAIN tx.created /\ Existing'[o] = Existing[o]
  BY <1>1, <1>2 DEF Where
<1>6. \A o \in DOMAIN tx.created : Existing'[o] = tx.created[o]
  BY <1>1 DEF Where
<1>7. Available' = (Available \ tx.inputs) \union DOMAIN tx.created
  <2>1. ASSUME NEW o PROVE o \in Available' <=> o \in (Available \ tx.inputs) \union DOMAIN tx.created
    BY <1>3, <1>4, <1>5 DEF Available
  <2> QED
    BY <2>1
<1> QED
  BY <1>4, <1>5, <1>6, <1>7

\* No cell is consumed twice, and what is consumed exists.
Sound ==
  /\ \A tx \in pool : tx.inputs \subseteq DOMAIN Existing
  /\ \A tx1, tx2 \in pool : \A o \in tx1.inputs \intersect tx2.inputs : tx1 = tx2

LEMMA MinedEffect ==
  ASSUME IInv, IInv', Sound, NEW tx \in pool, tx.inputs \subseteq DOMAIN live,
         live' = [o \in (DOMAIN live \ tx.inputs) \union DOMAIN tx.created |->
                    IF o \in DOMAIN tx.created THEN tx.created[o] ELSE live[o]],
         pool' = pool \ {tx}
  PROVE  /\ DOMAIN Existing' = DOMAIN Existing \ tx.inputs
         /\ \A o \in DOMAIN Existing' : Existing'[o] = Existing[o]
         /\ Available' = Available
<1>1. Where /\ Where'
  BY CellsWhere, CellsWhereNext
<1>2. \A o \in DOMAIN tx.created : o \notin DOMAIN live
  BY DEF IInv, Fresh
<1>3. \A t \in pool : t # tx => \A o \in DOMAIN t.created : o \notin DOMAIN tx.created /\ o \notin tx.inputs
  BY DEF IInv, Fresh
<1>4. DOMAIN Existing' = DOMAIN Existing \ tx.inputs
  <2>1. ASSUME NEW o \in DOMAIN Existing' PROVE o \in DOMAIN Existing \ tx.inputs
    BY <1>1, <1>2, <1>3, <2>1 DEF Where
  <2>2. ASSUME NEW o \in DOMAIN Existing \ tx.inputs PROVE o \in DOMAIN Existing'
    BY <1>1, <1>2, <1>3, <2>2 DEF Where
  <2> QED
    BY <2>1, <2>2
<1>5. ASSUME NEW o \in DOMAIN Existing' PROVE Existing'[o] = Existing[o]
  <2>1. CASE o \in DOMAIN tx.created
    <3>1. o \in DOMAIN live' /\ live'[o] = tx.created[o]
      BY <2>1
    <3> QED
      BY <1>1, <2>1, <3>1 DEF Where
  <2>2. CASE o \in DOMAIN live
    <3>1. o \in DOMAIN live' /\ live'[o] = live[o]
      BY <1>2, <1>4, <1>5, <2>2
    <3> QED
      BY <1>1, <2>2, <3>1 DEF Where
  <2>3. ASSUME NEW t \in pool, t # tx, o \in DOMAIN t.created PROVE Existing'[o] = Existing[o]
    <3>1. t \in pool'
      BY <2>3
    <3> QED
      BY <1>1, <2>3, <3>1 DEF Where
  <2>4. o \in DOMAIN Existing
    BY <1>4, <1>5
  <2> QED
    BY <1>1, <2>1, <2>2, <2>3, <2>4 DEF Where
<1>6. Available' = Available
  <2>1. ASSUME NEW o PROVE o \in Available' <=> o \in Available
    BY <1>4 DEF Available, Sound
  <2> QED
    BY <2>1
<1> QED
  BY <1>4, <1>5, <1>6

-----------------------------------------------------------------------------
\* The cells the steps ask for are cells, once their capacity fits.
LEMMA WrittenFits == \A n \in Nat : Written(n) \in Amounts
<1> SUFFICES ASSUME NEW n \in Nat PROVE Written(n) \in Amounts
  OBVIOUS
<1>1. \A m \in Nat : m % 256 \in 0 .. 255 /\ m \div 256 \in Nat /\ m \div 65536 \in Nat
  OBVIOUS
<1>2. /\ n % 256 \in 0 .. 255 /\ (n \div 256) % 256 \in 0 .. 255
      /\ (n \div 65536) % 256 \in 0 .. 255
  BY <1>1
<1> DEFINE a == n % 256
           b == (n \div 256) % 256
           c == (n \div 65536) % 256
<1>3. Written(n) = a * 65536 + b * 256 + c
  BY DEF Written
<1>4. a \in 0 .. 255 /\ b \in 0 .. 255 /\ c \in 0 .. 255
  BY <1>2
<1> HIDE DEF a, b, c
<1>5. a * 65536 + b * 256 + c \in Nat /\ a * 65536 + b * 256 + c < U128
  BY <1>4, SizeAssumption, SMT
<1> QED
  BY <1>3, <1>5, WidthAssumption, SMT DEF Amounts

Shaped(cell) ==
  /\ cell = [lock |-> cell.lock, type |-> cell.type, size |-> cell.size, amt |-> cell.amt,
             capacity |-> cell.capacity, code |-> cell.code]
  /\ cell.lock \in LockHashes /\ cell.type \in TypeHashes \union {NoType}
  /\ cell.size \in DataSizes /\ cell.amt \in Amounts
  /\ cell.code \in {"none", "sudt", "wallet", "reuse"}

LEMMA ShapedCells == \A cell : Shaped(cell) /\ cell.capacity \in Capacities => cell \in CellOf
<1> SUFFICES ASSUME NEW cell, Shaped(cell), cell.capacity \in Capacities PROVE cell \in CellOf
  OBVIOUS
<1>1. [lock |-> cell.lock, type |-> cell.type, size |-> cell.size, amt |-> cell.amt,
       capacity |-> cell.capacity, code |-> cell.code] \in CellOf
  BY DEF Shaped, CellOf
<1> QED
  BY <1>1 DEF Shaped

LEMMA OutputShaped ==
  ASSUME NEW lock \in LockHashes, NEW type \in TypeHashes \union {NoType}, NEW size \in DataSizes,
         NEW amt \in Amounts, NEW capacity, NEW code \in {"none", "sudt", "wallet", "reuse"}
  PROVE  /\ Shaped(Output(lock, type, size, amt, capacity, code))
         /\ Output(lock, type, size, amt, capacity, code).capacity = capacity
  BY DEF Output, Shaped

LEMMA KindsShaped ==
  /\ \A lock \in LockHashes : \A capacity : Shaped(Plain(lock, capacity))
  /\ \A lock \in LockHashes, code \in {"none", "sudt", "wallet", "reuse"} : Shaped(Code(lock, code))
  /\ \A lock \in LockHashes, amount \in Nat : \A capacity : Shaped(Udt(lock, amount, capacity))
<1>1. 0 \in Amounts /\ NoType \in TypeHashes \union {NoType} /\ token \in TypeHashes \union {NoType}
  BY NamesAssumption, WidthAssumption DEF Amounts
<1>2. "short" \in DataSizes /\ "exact" \in DataSizes /\ "long" \in DataSizes
  BY DEF DataSizes
<1>3. ASSUME NEW lock \in LockHashes, NEW capacity PROVE Shaped(Plain(lock, capacity))
  BY <1>1, <1>2, OutputShaped DEF Plain
<1>4. ASSUME NEW lock \in LockHashes, NEW code \in {"none", "sudt", "wallet", "reuse"}
      PROVE  Shaped(Code(lock, code))
  BY <1>1, <1>2, OutputShaped DEF Code
<1>5. ASSUME NEW lock \in LockHashes, NEW amount \in Nat, NEW capacity
      PROVE  Shaped(Udt(lock, amount, capacity))
  BY <1>1, <1>2, OutputShaped, WrittenFits DEF Udt
<1> QED
  BY <1>3, <1>4, <1>5

LEMMA KindsCapacity ==
  /\ \A lock, type, size, amt, capacity, code :
       Output(lock, type, size, amt, capacity, code).capacity = capacity
  /\ \A lock, capacity : Plain(lock, capacity).capacity = capacity
  /\ \A lock, code : Code(lock, code).capacity = CodeSize + 100 /\ CodeSize + 100 \in Nat
  /\ \A lock, amount, capacity : Udt(lock, amount, capacity).capacity = capacity
  BY SizeAssumption DEF Output, Plain, Code, Udt

LEMMA AskedShaped ==
  ASSUME NEW n \in 1 .. 6, NEW k \in 1 .. Len(Run[n].outputs)
  PROVE  Shaped(Run[n].outputs[k]) /\ Run[n].outputs[k].capacity \in Nat
<1>0. /\ lock1 \in LockHashes /\ lock2 \in LockHashes /\ wallet \in LockHashes
      /\ use \in TypeHashes \union {NoType} /\ NoType \in TypeHashes \union {NoType}
      /\ 0 \in Amounts /\ "short" \in DataSizes /\ "long" \in DataSizes
  BY NamesAssumption, WidthAssumption DEF Amounts, DataSizes
<1>1. CASE n = 1
  <2>1. Run[n].outputs = <<Code(lock1, "sudt")>> /\ Shaped(Code(lock1, "sudt"))
    BY <1>0, <1>1, RunSteps, KindsShaped DEF deployCodeCells, Request
  <2> QED
    BY <2>1, KindsCapacity
<1>2. CASE n = 2
  <2>1. Run[n].outputs = <<Udt(lock1, 250000, 687)>> /\ Shaped(Udt(lock1, 250000, 687))
    BY <1>0, <1>2, RunSteps, KindsShaped DEF issueUdt, Request
  <2> QED
    BY <2>1, KindsCapacity
<1>3. CASE n = 3
  <2>1. Run[n].outputs = <<Code(lock1, "wallet")>> /\ Shaped(Code(lock1, "wallet"))
    BY <1>0, <1>3, RunSteps, KindsShaped DEF deployWalletLock, Request
  <2> QED
    BY <2>1, KindsCapacity
<1>4. CASE n = 4
  <2>1. /\ Run[n].outputs = <<Udt(wallet, 1000, 1000), Udt(lock2, 249000, 1000)>>
        /\ Shaped(Udt(wallet, 1000, 1000)) /\ Shaped(Udt(lock2, 249000, 1000))
    BY <1>0, <1>4, RunSteps, KindsShaped DEF deployWallet, Request
  <2>2. k = 1 \/ k = 2
    BY <2>1
  <2> QED
    BY <2>1, <2>2, KindsCapacity
<1>5. CASE n = 5
  <2>1. Run[n].outputs = <<Output(wallet, NoType, "long", 0, 1900, "reuse")>>
    BY <1>5, RunSteps DEF deployReusableScript, Request
  <2>2. Shaped(Output(wallet, NoType, "long", 0, 1900, "reuse"))
    BY <1>0 DEF Output, Shaped
  <2> QED
    BY <2>1, <2>2, KindsCapacity
<1>6. CASE n = 6
  <2>1. Run[n].outputs = <<Output(lock2, use, "short", 0, 500, "none"), Udt(wallet, 10000, 1000)>>
    BY <1>6, RunSteps DEF useReusableScript, Request
  <2>2. Shaped(Output(lock2, use, "short", 0, 500, "none")) /\ Shaped(Udt(wallet, 10000, 1000))
    <3>1. Shaped(Output(lock2, use, "short", 0, 500, "none"))
      BY <1>0 DEF Output, Shaped
    <3>2. Shaped(Udt(wallet, 10000, 1000))
      BY <1>0, KindsShaped
    <3> QED
      BY <3>1, <3>2
  <2>3. k = 1 \/ k = 2
    BY <2>1
  <2> QED
    BY <2>1, <2>2, <2>3, KindsCapacity
<1> QED
  BY <1>1, <1>2, <1>3, <1>4, <1>5, <1>6

Change(n, cells) == Plain(lock1, (Capacity(cells) - Needed(Run[n].outputs) - Fee) \div 4)

\* A transaction of step n creates cells at n's outpoints, as many as Outpoints has.
LEMMA CreatedShaped ==
  ASSUME NEW n \in 1 .. 6, NEW cells
  PROVE  /\ IsFiniteSet(DOMAIN Transaction(n, cells).created)
         /\ \A o \in DOMAIN Transaction(n, cells).created :
              /\ o \in Outpoints /\ Shaped(Transaction(n, cells).created[o])
              /\ From(Transaction(n, cells).created[o], Run[n].outputs, Change(n, cells))
<1> DEFINE change == Change(n, cells)
           outputs == Outputs(Run[n], change)
           created == Transaction(n, cells).created
<1>1. created = [o \in {n} \X (0 .. Len(outputs) - 1) |-> outputs[o[2] + 1]]
  BY DEF Transaction, Change
<1>2. Shaped(change)
  BY KindsShaped, NamesAssumption DEF Change
<1> HIDE DEF change
<1>3. /\ Len(outputs) \in Nat
      /\ \A k \in 1 .. Len(outputs) : From(outputs[k], Run[n].outputs, change)
  BY ChangeLast
<1>4. Len(outputs) = Len(Run[n].outputs) + 1 /\ Len(Run[n].outputs) \in Nat
  <2>1. ASSUME NEW a, Run[n].outputs = <<a>>
        PROVE  Len(Append(Run[n].outputs, change)) = 2 /\ Len(Run[n].outputs) = 1
    BY <2>1
  <2>2. ASSUME NEW a, NEW b, Run[n].outputs = <<a, b>>
        PROVE  Len(Append(Run[n].outputs, change)) = 3 /\ Len(Run[n].outputs) = 2
    BY <2>2
  <2> QED
    BY <2>1, <2>2, AskedOutputs DEF Outputs
<1> HIDE DEF outputs, created
<1>5. ASSUME NEW o \in DOMAIN created 
      PROVE  o \in Outpoints /\ Shaped(created[o]) /\ From(created[o], Run[n].outputs, change)
  <2>1. o \in {n} \X (0 .. Len(outputs) - 1) /\ created[o] = outputs[o[2] + 1]
    BY <1>1, <1>5
  <2>2. o \in {n} \X (0 .. Len(Run[n].outputs))
    BY <1>4, <2>1
  <2>3. o \in Outpoints
    BY <2>2 DEF Outpoints
  <2>4. o[2] + 1 \in 1 .. Len(outputs)
    BY <1>3, <2>1
  <2>5. From(outputs[o[2] + 1], Run[n].outputs, change)
    BY <1>3, <2>4
  <2> QED
    BY <1>2, <2>1, <2>3, <2>5, AskedShaped DEF From
<1>6. IsFiniteSet(DOMAIN created)
  <2>1. IsFiniteSet({n})
    BY FS_Singleton
  <2>2. IsFiniteSet(0 .. Len(outputs) - 1)
    BY <1>3, FS_Interval
  <2> QED
    BY <1>1, <2>1, <2>2, FS_Product
<1> QED
  BY <1>5, <1>6 DEF created, change

LEMMA OutpointsFinite == IsFiniteSet(Outpoints)
<1> DEFINE most == Len(Genesis) + 2
<1>1. Len(Genesis) \in Nat /\ DOMAIN Genesis = 1 .. Len(Genesis)
  BY GenesisAssumption
<1>2. IsFiniteSet(0 .. 6) /\ IsFiniteSet(0 .. most)
  <2>1. most \in Int /\ 0 \in Int /\ 6 \in Int
    BY <1>1
  <2> HIDE DEF most
  <2> QED
    BY <2>1, FS_Interval
<1>3. IsFiniteSet((0 .. 6) \X (0 .. most))
  BY <1>2, FS_Product
<1>4. ASSUME NEW o \in Outpoints PROVE o \in (0 .. 6) \X (0 .. most)
  <2>1. CASE o \in {0} \X DOMAIN Genesis
    BY <1>1, <2>1
  <2>2. ASSUME NEW n \in 1 .. 6, o \in {n} \X (0 .. Len(Run[n].outputs))
        PROVE  o \in (0 .. 6) \X (0 .. most)
    <3>1. ASSUME NEW a, Run[n].outputs = <<a>> PROVE Len(Run[n].outputs) = 1
      BY <3>1
    <3>2. ASSUME NEW a, NEW b, Run[n].outputs = <<a, b>> PROVE Len(Run[n].outputs) = 2
      BY <3>2
    <3>3. Len(Run[n].outputs) \in 0 .. 2
      BY <3>1, <3>2, AskedOutputs
    <3> DEFINE last == Len(Run[n].outputs)
    <3> HIDE DEF last
    <3>4. o[1] = n /\ o[2] \in 0 .. 2 /\ o = <<o[1], o[2]>>
      <4>1. o \in {n} \X (0 .. last) /\ last \in 0 .. 2
        BY <2>2, <3>3 DEF last
      <4>2. o[1] = n /\ o[2] \in 0 .. last /\ o = <<o[1], o[2]>>
        BY <4>1
      <4> QED
        BY <4>1, <4>2
    <3>5. n \in 0 .. 6 /\ o[2] \in 0 .. most
      BY <1>1, <3>4
    <3> QED
      BY <3>4, <3>5
  <2> QED
    BY <2>1, <2>2 DEF Outpoints
<1>5. Outpoints \in SUBSET ((0 .. 6) \X (0 .. most))
  BY <1>4
<1> QED
  BY <1>3, <1>5, FS_Subset

-----------------------------------------------------------------------------
\* What keeps the cells typed: nothing is consumed twice, and what is available
\* has never more capacity than the keys started with.
Typed == \A o \in DOMAIN Existing : o \in Outpoints /\ Existing[o] \in CellOf
Solvent == CapacityAt(Existing, Available) <= Capacity(Genesis)
Picked == DOMAIN collected \subseteq Outpoints /\ \A o \in DOMAIN collected : collected[o] \in CellOf
Ended ==
  /\ cause \in {"none", "encoding", "double_spend", "unresolved", "capacity", "script"}
  /\ half_byte \in {"refused", "padded"}
TInv == Typed /\ Sound /\ Solvent /\ Picked /\ Ended

LEMMA InitTInv == Init => TInv
<1> SUFFICES ASSUME Init PROVE TInv
  OBVIOUS
<1> DEFINE S == {0} \X DOMAIN Genesis
<1>1. live = [o \in S |-> Genesis[o[2]]] /\ pool = {} /\ collected = <<>> /\ Ended
  BY DEF Init, Ended
<1>2. DOMAIN Existing = S /\ \A o \in S : Existing[o] = Genesis[o[2]]
  BY <1>1 DEF Existing, Pending
<1>3. Available = S
  BY <1>1, <1>2 DEF Available
<1>4. Sound /\ Picked
  BY <1>1 DEF Sound, Picked
<1>5. Typed
  BY <1>2, GenesisAssumption DEF Typed, Outpoints
<1>6. Solvent
  <2> DEFINE f == [k \in DOMAIN Genesis |-> Genesis[k].capacity]
             h == [o \in S |-> o[2]]
  <2>1. f \in [DOMAIN Genesis -> Nat]
    <3>1. \A k \in DOMAIN Genesis : Genesis[k] \in CellOf
      BY GenesisAssumption
    <3>2. \A k \in DOMAIN Genesis : Genesis[k].capacity \in Nat
      BY <3>1, WidthAssumption DEF CellOf, Capacities
    <3> QED
      BY <3>2
  <2>2. h \in Bijection(S, DOMAIN Genesis)
    <3>1. h \in [S -> DOMAIN Genesis]
      OBVIOUS
    <3>2. \A a, b \in S : h[a] = h[b] => a = b
      OBVIOUS
    <3>3. \A k \in DOMAIN Genesis : <<0, k>> \in S /\ h[<<0, k>>] = k
      OBVIOUS
    <3> HIDE DEF h, S
    <3> QED
      BY <3>1, <3>2, <3>3 DEF Bijection, Injection, Surjection, IsInjective
  <2>3. IsFiniteSet(S)
    <3>1. IsFiniteSet({0})
      BY FS_Singleton
    <3>2. IsFiniteSet(DOMAIN Genesis)
      <4>1. DOMAIN Genesis = 1 .. Len(Genesis) /\ Len(Genesis) \in Int /\ 1 \in Int
        BY GenesisAssumption
      <4> QED
        BY <4>1, FS_Interval
    <3> QED
      BY <3>1, <3>2, FS_Product
  <2>4. \A o \in S : f[h[o]] = Existing[o].capacity
    BY <1>2
  <2>5. Capacity(Genesis) = Sum(f)
    BY DEF Capacity
  <2>6. Sum(f) \in Nat
    <3>1. IsFiniteSet(DOMAIN Genesis)
      BY <2>2, <2>3, FS_Surjection DEF Bijection
    <3> HIDE DEF f
    <3> QED
      BY <2>1, <3>1, SumType
  <2> HIDE DEF f, h, S
  <2>7. Sum([o \in S |-> f[h[o]]]) = Sum(f)
    BY <2>1, <2>2, <2>3, SumRenamed
  <2>8. [o \in S |-> f[h[o]]] = [o \in S |-> Existing[o].capacity]
    BY <2>4
  <2> QED
    BY <1>3, <2>5, <2>6, <2>7, <2>8 DEF Solvent, CapacityAt
<1> QED
  BY <1>1, <1>4, <1>5, <1>6 DEF TInv

\* What exists is finite and has capacities, which add up to less than 2^64.
LEMMA ExistingFinite ==
  ASSUME TInv
  PROVE  /\ IsFiniteSet(DOMAIN Existing) /\ IsFiniteSet(Available)
         /\ \A o \in Available : o \in DOMAIN Existing
         /\ \A o \in DOMAIN Existing : Existing[o].capacity \in Nat
         /\ Capacity(Genesis) < U64
<1>1. DOMAIN Existing \in SUBSET Outpoints
  BY DEF TInv, Typed
<1>2. IsFiniteSet(DOMAIN Existing)
  BY <1>1, OutpointsFinite, FS_Subset
<1>3. Available \in SUBSET DOMAIN Existing
  BY DEF Available
<1>4. IsFiniteSet(Available)
  BY <1>2, <1>3, FS_Subset
<1>5. \A o \in DOMAIN Existing : Existing[o].capacity \in Nat
  BY WidthAssumption DEF TInv, Typed, CellOf, Capacities
<1> QED
  BY <1>2, <1>3, <1>4, <1>5, GenesisAssumption

LEMMA MineTInv == ASSUME IInv, IInv', TInv, Mine PROVE TInv'
<1>1. PICK tx \in pool :
        /\ tx.inputs \union tx.deps \subseteq DOMAIN live
        /\ live' = [o \in (DOMAIN live \ tx.inputs) \union DOMAIN tx.created |->
                      IF o \in DOMAIN tx.created THEN tx.created[o] ELSE live[o]]
        /\ pool' = pool \ {tx} /\ UNCHANGED <<step, collected, cause, half_byte>>
  BY DEF Mine
<1>2. tx.inputs \subseteq DOMAIN live /\ Sound
  BY <1>1 DEF TInv
<1>3. /\ DOMAIN Existing' = DOMAIN Existing \ tx.inputs
      /\ \A o \in DOMAIN Existing' : Existing'[o] = Existing[o]
      /\ Available' = Available
  BY <1>1, <1>2, MinedEffect
<1>4. Typed'
  BY <1>3 DEF TInv, Typed
<1>5. Sound'
  <2>1. ASSUME NEW t \in pool' PROVE t.inputs \subseteq DOMAIN Existing'
    <3>1. t \in pool /\ t # tx
      BY <1>1
    <3> QED
      BY <1>2, <1>3, <3>1 DEF Sound
  <2> QED
    BY <1>1, <1>2, <2>1 DEF Sound
<1>6. Solvent'
  <2>1. \A o \in Available : Existing'[o] = Existing[o]
    <3>1. \A o \in Available' : o \in DOMAIN Existing'
      BY DEF Available
    <3> QED
      BY <1>3, <3>1
  <2>2. CapacityAt(Existing', Available) = CapacityAt(Existing, Available)
    BY <2>1, CapacitySame
  <2> QED
    BY <1>3, <2>2 DEF TInv, Solvent, CapacityAt
<1> QED
  BY <1>1, <1>4, <1>5, <1>6 DEF TInv, Picked, Ended

-----------------------------------------------------------------------------
\* What is asked of the SDK, and what a cell takes, are numbers.
LEMMA DataLengthNat == \A cell : cell.size \in DataSizes => DataLength(cell) \in Nat
  BY SizeAssumption DEF DataSizes, DataLength

LEMMA OccupiedNat == \A cell : Shaped(cell) => Occupied(cell) \in Nat
  BY DataLengthNat DEF Shaped, Occupied, MIN_ARGS_LENGTH

LEMMA NeededOne ==
  ASSUME NEW a, DataLength(a) \in Nat PROVE Needed(<<a>>) = 61 + DataLength(a)
<1> DEFINE f == [k \in DOMAIN <<a>> |-> 61 + DataLength(<<a>>[k])]
<1>1. f \in [{1} -> Nat] /\ f[1] = 61 + DataLength(a)
  <2>1. DOMAIN <<a>> = {1} /\ <<a>>[1] = a
    OBVIOUS
  <2> QED
    BY <2>1
<1> HIDE DEF f
<1>2. Sum(f) = f[1]
  BY <1>1, SumSingle
<1> QED
  BY <1>1, <1>2 DEF Needed, f

LEMMA NeededTwo ==
  ASSUME NEW a, NEW b, DataLength(a) \in Nat, DataLength(b) \in Nat
  PROVE  Needed(<<a, b>>) = 122 + DataLength(a) + DataLength(b)
<1> DEFINE f == [k \in DOMAIN <<a, b>> |-> 61 + DataLength(<<a, b>>[k])]
<1>1. f \in [{1, 2} -> Nat] /\ f[1] = 61 + DataLength(a) /\ f[2] = 61 + DataLength(b)
  <2>1. DOMAIN <<a, b>> = {1, 2} /\ <<a, b>>[1] = a /\ <<a, b>>[2] = b
    OBVIOUS
  <2> QED
    BY <2>1
<1> HIDE DEF f
<1>2. Sum(f) = f[1] + f[2]
  <2>1. f \in [{1, 2} -> Nat] /\ 1 # 2
    BY <1>1
  <2> QED
    BY <2>1, SumPair
<1>3. Sum(f) = 122 + DataLength(a) + DataLength(b)
  BY <1>1, <1>2
<1> QED
  BY <1>3 DEF Needed, f

LEMMA NeededNat == ASSUME NEW n \in 1 .. 6 PROVE Needed(Run[n].outputs) \in Nat
<1>1. \A k \in 1 .. Len(Run[n].outputs) : DataLength(Run[n].outputs[k]) \in Nat
  BY AskedShaped, DataLengthNat DEF Shaped
<1>2. ASSUME NEW a, Run[n].outputs = <<a>> PROVE Needed(Run[n].outputs) \in Nat
  <2>1. DataLength(a) \in Nat
    BY <1>1, <1>2
  <2> QED
    BY <1>2, <2>1, NeededOne
<1>3. ASSUME NEW a, NEW b, Run[n].outputs = <<a, b>> PROVE Needed(Run[n].outputs) \in Nat
  <2>1. DataLength(a) \in Nat /\ DataLength(b) \in Nat
    <3>1. 1 \in 1 .. Len(Run[n].outputs) /\ 2 \in 1 .. Len(Run[n].outputs)
      BY <1>3
    <3>2. Run[n].outputs[1] = a /\ Run[n].outputs[2] = b
      BY <1>3
    <3> QED
      BY <1>1, <3>1, <3>2
  <2> QED
    BY <1>3, <2>1, NeededTwo
<1> QED
  BY <1>2, <1>3, AskedOutputs

\* The capacity of a family of cells.
LEMMA CapacityNat ==
  ASSUME NEW cells, IsFiniteSet(DOMAIN cells), \A o \in DOMAIN cells : cells[o].capacity \in Nat
  PROVE  Capacity(cells) \in Nat /\ \A o \in DOMAIN cells : cells[o].capacity <= Capacity(cells)
BY CapacityTerm, CapacityAll

LEMMA CreatedCapacities ==
  ASSUME NEW n \in 1 .. 6, NEW cells, Capacity(cells) \in Nat
  PROVE  /\ Change(n, cells).capacity \in Int
         /\ \A o \in DOMAIN Transaction(n, cells).created :
              Transaction(n, cells).created[o].capacity \in Int
<1>1. Change(n, cells).capacity \in Int
  BY NeededNat, KindsCapacity DEF Change, Fee
<1>2. ASSUME NEW o \in DOMAIN Transaction(n, cells).created
      PROVE  Transaction(n, cells).created[o].capacity \in Int
  <2>1. From(Transaction(n, cells).created[o], Run[n].outputs, Change(n, cells))
    BY CreatedShaped
  <2>2. ASSUME NEW j \in 1 .. Len(Run[n].outputs) PROVE Run[n].outputs[j].capacity \in Int
    BY AskedShaped
  <2> QED
    BY <1>1, <2>1, <2>2 DEF From
<1> QED
  BY <1>1, <1>2

-----------------------------------------------------------------------------
LEMMA PickedFinite ==
  ASSUME TInv
  PROVE  /\ IsFiniteSet(DOMAIN collected)
         /\ \A o \in DOMAIN collected : collected[o].capacity \in Nat
         /\ Capacity(collected) \in Nat
<1>1. DOMAIN collected \in SUBSET Outpoints
  BY DEF TInv, Picked
<1>2. IsFiniteSet(DOMAIN collected)
  BY <1>1, OutpointsFinite, FS_Subset
<1>3. \A o \in DOMAIN collected : collected[o].capacity \in Nat
  BY WidthAssumption DEF TInv, Picked, CellOf, Capacities
<1> QED
  BY <1>2, <1>3, CapacityNat

LEMMA CollectTInv == ASSUME IInv, TInv, Collect PROVE TInv'
<1>1. UNCHANGED <<live, pool, step, half_byte>>
  BY DEF Collect
<1>2. Existing' = Existing /\ Available' = Available
  BY <1>1 DEF Existing, Available, Pending
<1>3. Typed' /\ Sound' /\ Solvent'
  BY <1>1, <1>2 DEF TInv, Typed, Sound, Solvent, CapacityAt
<1>4. Picked'
  <2>1. CASE UNCHANGED collected
    BY <2>1 DEF TInv, Picked
  <2>2. CASE collected' \in Selections(Run[step])
    <3>1. PICK S \in SUBSET Spendable(Run[step].from) : collected' = [p \in S |-> live[p]]
      BY <2>2 DEF Selections
    <3>2. \A o \in S : o \in DOMAIN live
      BY <3>1 DEF Spendable
    <3>3. \A o \in DOMAIN live : o \in Outpoints /\ live[o] \in CellOf
      BY CellsWhere DEF Where, TInv, Typed
    <3> QED
      BY <3>1, <3>2, <3>3 DEF Picked
  <2> QED
    BY <2>1, <2>2 DEF Collect
<1>5. Ended'
  BY <1>1 DEF Collect, TInv, Ended
<1> QED
  BY <1>3, <1>4, <1>5 DEF TInv

\* A transaction the node takes leaves no more capacity available than there was.
LEMMA TakenTInv ==
  ASSUME IInv, IInv', TInv, step \in 1 .. 6, Refusal(Transaction(step, collected)) = "none",
         pool' = pool \union {Transaction(step, collected)}, UNCHANGED live
  PROVE  Typed' /\ Sound' /\ Solvent'
<1> DEFINE tx == Transaction(step, collected)
           consumed == [o \in tx.inputs |-> Existing[o]]
           M == Capacity(Genesis)
<1>1. /\ tx.inputs \subseteq Available
      /\ ~(Capacity(tx.created) > Capacity(consumed))
      /\ \A o \in DOMAIN tx.created : ~(tx.created[o].capacity < Occupied(tx.created[o]))
  BY RefusalMeans
<1>2. /\ IsFiniteSet(DOMAIN tx.created)
      /\ \A o \in DOMAIN tx.created : o \in Outpoints /\ Shaped(tx.created[o]) /\ o[1] = step
  BY CreatedShaped, TransactionCreates
<1>3. \A o \in DOMAIN tx.created : tx.created[o].capacity \in Int
  BY PickedFinite, CreatedCapacities
<1>4. /\ IsFiniteSet(DOMAIN Existing) /\ IsFiniteSet(Available)
      /\ \A o \in Available : o \in DOMAIN Existing
      /\ \A o \in DOMAIN Existing : Existing[o].capacity \in Nat /\ Past(o)
      /\ M < U64
  <2>1. \A o \in DOMAIN Existing : Past(o)
    BY CellsWhere DEF Where, IInv, Fresh
  <2> QED
    BY <2>1, ExistingFinite
<1>5. pool' = pool \union {tx} /\ live' = live
  OBVIOUS
<1> HIDE DEF tx
<1>6. \A o \in DOMAIN tx.created : tx.created[o].capacity \in Nat /\ ~Past(o)
  <2>1. ASSUME NEW o \in DOMAIN tx.created PROVE tx.created[o].capacity \in Nat
    <3>1. Occupied(tx.created[o]) \in Nat
      BY <1>2, OccupiedNat
    <3> QED
      BY <1>1, <1>3, <3>1
  <2>2. ASSUME NEW o \in DOMAIN tx.created PROVE ~Past(o)
    BY <1>2 DEF Past
  <2> QED
    BY <2>1, <2>2
<1>7. /\ DOMAIN Existing' = DOMAIN Existing \union DOMAIN tx.created
      /\ \A o \in DOMAIN Existing : o \notin DOMAIN tx.created /\ Existing'[o] = Existing[o]
      /\ \A o \in DOMAIN tx.created : Existing'[o] = tx.created[o]
      /\ Available' = (Available \ tx.inputs) \union DOMAIN tx.created
  <2>1. \A o \in tx.inputs : Past(o)
    BY <1>1, <1>4
  <2>2. \A o \in DOMAIN tx.created : ~Past(o)
    BY <1>6
  <2> QED
    BY <1>5, <2>1, <2>2, TakenEffect
<1>8. /\ CapacityAt(Existing, Available) =
           CapacityAt(Existing, tx.inputs) + CapacityAt(Existing, Available \ tx.inputs)
      /\ CapacityAt(Existing, tx.inputs) \in Nat
      /\ CapacityAt(Existing, Available \ tx.inputs) \in Nat
  <2>1. tx.inputs \in SUBSET Available /\ \A o \in Available : Existing[o].capacity \in Nat
    BY <1>1, <1>4
  <2> QED
    BY <1>4, <2>1, CapacitySplit
<1>9. Capacity(consumed) = CapacityAt(Existing, tx.inputs)
  <2>1. DOMAIN consumed = tx.inputs /\ \A o \in tx.inputs : consumed[o] = Existing[o]
    OBVIOUS
  <2> HIDE DEF consumed
  <2>2. CapacityAt(consumed, tx.inputs) = CapacityAt(Existing, tx.inputs)
    BY <2>1, CapacitySame
  <2> QED
    BY <2>1, <2>2, CapacityAll
<1>10. /\ Capacity(tx.created) \in Nat
       /\ \A o \in DOMAIN tx.created : tx.created[o].capacity <= Capacity(tx.created)
  BY <1>2, <1>6, CapacityNat
<1> HIDE DEF consumed
<1>11. CapacityAt(Existing', Available') =
         Capacity(tx.created) + CapacityAt(Existing, Available \ tx.inputs)
  <2> DEFINE family == Existing'
             all == Available'
             new == DOMAIN tx.created
             kept == Available \ tx.inputs
  <2>1. all = kept \union new /\ new \in SUBSET all /\ all \ new = kept
    BY <1>4, <1>7
  <2>2. IsFiniteSet(all)
    <3>1. IsFiniteSet(kept)
      BY <1>4, FS_Difference
    <3> QED
      BY <1>2, <2>1, <3>1, FS_Union
  <2>3. \A o \in all : family[o].capacity \in Nat
    <3>1. \A o \in kept : family[o].capacity \in Nat
      BY <1>4, <1>7
    <3>2. \A o \in new : family[o].capacity \in Nat
      BY <1>6, <1>7
    <3> QED
      BY <2>1, <3>1, <3>2
  <2>4. (\A o \in new : family[o] = tx.created[o]) /\ (\A o \in kept : family[o] = Existing[o])
    BY <1>4, <1>7
  <2> HIDE DEF family, all, new, kept
  <2>5. CapacityAt(family, all) = CapacityAt(family, new) + CapacityAt(family, all \ new)
    BY <2>1, <2>2, <2>3, CapacitySplit
  <2>6. CapacityAt(family, new) = CapacityAt(tx.created, new)
    BY <2>4, CapacitySame
  <2>7. CapacityAt(family, kept) = CapacityAt(Existing, kept)
    BY <2>4, CapacitySame
  <2>8. CapacityAt(tx.created, new) = Capacity(tx.created)
    BY CapacityAll DEF new
  <2> QED
    BY <2>1, <2>5, <2>6, <2>7, <2>8 DEF family, all, kept
<1>12. M \in Int /\ CapacityAt(Existing, Available) <= M
  <2>1. M \in Nat
    <3>1. IsFiniteSet(DOMAIN Genesis)
      <4>1. DOMAIN Genesis = 1 .. Len(Genesis) /\ Len(Genesis) \in Int /\ 1 \in Int
        BY GenesisAssumption
      <4> QED
        BY <4>1, FS_Interval
    <3>2. \A k \in DOMAIN Genesis : Genesis[k].capacity \in Nat
      <4>1. \A k \in DOMAIN Genesis : Genesis[k] \in CellOf
        BY GenesisAssumption
      <4> QED
        BY <4>1, WidthAssumption DEF CellOf, Capacities
    <3> QED
      BY <3>1, <3>2, CapacityNat
  <2> QED
    BY <2>1 DEF TInv, Solvent
<1> HIDE DEF M
<1>13. Solvent'
  <2>1. CapacityAt(Existing', Available') <= M
    BY <1>1, <1>8, <1>9, <1>10, <1>11, <1>12
  <2> QED
    BY <2>1 DEF Solvent, M, CapacityAt, Capacity
<1>14. Capacity(tx.created) < U64
  BY <1>1, <1>4, <1>8, <1>9, <1>10, <1>12, WidthAssumption
<1>15. \A o \in DOMAIN tx.created : tx.created[o] \in CellOf
  <2>1. \A o \in DOMAIN tx.created : tx.created[o].capacity \in Capacities
    BY <1>6, <1>10, <1>14, WidthAssumption DEF Capacities
  <2> QED
    BY <1>2, <2>1, ShapedCells
<1>16. Typed'
  BY <1>2, <1>7, <1>15 DEF TInv, Typed
<1>17. Sound'
  <2>1. \A t \in pool' : t.inputs \subseteq DOMAIN Existing'
    BY <1>1, <1>4, <1>5, <1>7 DEF TInv, Sound
  <2>2. \A t \in pool : \A o \in t.inputs : o \notin tx.inputs
    BY <1>1 DEF Available
  <2> QED
    BY <1>5, <2>1, <2>2 DEF TInv, Sound
<1> QED
  BY <1>13, <1>16, <1>17

LEMMA SendTInv == ASSUME IInv, IInv', TInv, Send PROVE TInv'
<1>1. step \in 1 .. 6 /\ UNCHANGED <<live, half_byte>>
  BY DEF Send, Running, IInv, Steps
<1>2. CASE /\ Refusal(Transaction(step, collected)) = "none"
           /\ pool' = pool \union {Transaction(step, collected)}
           /\ collected' = <<>> /\ UNCHANGED cause
  <2>1. Typed' /\ Sound' /\ Solvent'
    BY <1>1, <1>2, TakenTInv
  <2> QED
    BY <1>1, <1>2, <2>1 DEF TInv, Picked, Ended
<1>3. CASE /\ cause' = Refusal(Transaction(step, collected))
           /\ UNCHANGED <<pool, step, collected>>
  <2>1. Existing' = Existing /\ Available' = Available
    BY <1>1, <1>3 DEF Existing, Available, Pending
  <2>2. Ended'
    BY <1>1, <1>3, RefusalMeans DEF TInv, Ended
  <2> QED
    BY <1>1, <1>3, <2>1, <2>2 DEF TInv, Typed, Sound, Solvent, CapacityAt, Picked
<1> QED
  BY <1>2, <1>3 DEF Send

LEMMA TypedAlways == Spec => [](IInv /\ TInv)
<1>1. IInv /\ TInv /\ IInv' /\ [Next]_vars => TInv'
  <2> SUFFICES ASSUME IInv, TInv, IInv', [Next]_vars PROVE TInv'
    OBVIOUS
  <2>1. CASE UNCHANGED vars
    <3>1. Existing' = Existing /\ Available' = Available
      BY <2>1 DEF vars, Existing, Available, Pending
    <3> QED
      BY <2>1, <3>1 DEF vars, TInv, Typed, Sound, Solvent, CapacityAt, Picked, Ended
  <2> QED
    BY <2>1, CollectTInv, SendTInv, MineTInv DEF Next
<1> QED
  BY <1>1, InitTInv, Invariant, PTL DEF Spec

\* Only cells of the run exist, at outpoints of their own, and no transaction the
\* node has taken waits for a cell that is not there.
THEOREM Typing == Spec => []TypeOK
<1>1. IInv /\ TInv => TypeOK
  BY DEF IInv, Steps, TInv, Typed, Sound, Picked, Ended, TypeOK
<1> QED
  BY <1>1, TypedAlways, PTL

\* No step of the run ever has more capacity to draw on than the keys started with:
\* what generateTransaction keeps of the change is less than what it collects.
THEOREM CapacityNeverGrows == Spec => []Solvent
<1>1. IInv /\ TInv => Solvent
  BY DEF TInv
<1> QED
  BY <1>1, TypedAlways, PTL

-----------------------------------------------------------------------------
\* The capacity of what a step of one or of two outputs creates, with its change.
LEMMA AppendOne ==
  ASSUME NEW a, NEW c
  PROVE  Len(Append(<<a>>, c)) = 2 /\ Append(<<a>>, c)[1] = a /\ Append(<<a>>, c)[2] = c
<1>1. <<a>> \in Seq({a, c}) /\ c \in {a, c} /\ Len(<<a>>) = 1 /\ <<a>>[1] = a
  OBVIOUS
<1> QED
  BY <1>1, AppendProperties

LEMMA AppendTwo ==
  ASSUME NEW a, NEW b, NEW c
  PROVE  /\ Len(Append(<<a, b>>, c)) = 3 /\ Append(<<a, b>>, c)[1] = a
         /\ Append(<<a, b>>, c)[2] = b /\ Append(<<a, b>>, c)[3] = c
<1>1. /\ <<a, b>> \in Seq({a, b, c}) /\ c \in {a, b, c} /\ Len(<<a, b>>) = 2
      /\ <<a, b>>[1] = a /\ <<a, b>>[2] = b
  OBVIOUS
<1> QED
  BY <1>1, AppendProperties

LEMMA CreatedOne ==
  ASSUME NEW n \in 1 .. 6, NEW cells, NEW a, Run[n].outputs = <<a>>,
         a.capacity \in Nat, Change(n, cells).capacity \in Nat
  PROVE  /\ Capacity(Transaction(n, cells).created) = a.capacity + Change(n, cells).capacity
         /\ \A o \in DOMAIN Transaction(n, cells).created :
              Transaction(n, cells).created[o] \in {a, Change(n, cells)}
<1> DEFINE created == Transaction(n, cells).created
           change == Change(n, cells)
           f == [o \in DOMAIN created |-> created[o].capacity]
           list == Outputs(Run[n], change)
<1>1. created = [o \in {n} \X (0 .. Len(list) - 1) |-> list[o[2] + 1]]
  BY DEF Transaction, Change
<1>2. a.capacity \in Nat /\ change.capacity \in Nat
  OBVIOUS
<1> HIDE DEF created, change
<1>3. Len(list) = 2 /\ list[1] = a /\ list[2] = change
  BY AppendOne DEF Outputs
<1> HIDE DEF list
<1>4. /\ DOMAIN created = {<<n, 0>>, <<n, 1>>} /\ <<n, 0>> # <<n, 1>>
      /\ created[<<n, 0>>] = a /\ created[<<n, 1>>] = change
  <2>1. created = [o \in {n} \X (0 .. 1) |-> list[o[2] + 1]]
    BY <1>1, <1>3
  <2>2. {n} \X (0 .. 1) = {<<n, 0>>, <<n, 1>>}
    OBVIOUS
  <2>3. <<n, 0>>[2] + 1 = 1 /\ <<n, 1>>[2] + 1 = 2 /\ <<n, 0>> # <<n, 1>>
    OBVIOUS
  <2> QED
    BY <1>3, <2>1, <2>2, <2>3
<1>5. /\ f \in [{<<n, 0>>, <<n, 1>>} -> Nat] /\ f[<<n, 0>>] = a.capacity
      /\ f[<<n, 1>>] = change.capacity
  BY <1>2, <1>4
<1> HIDE DEF f
<1>6. Sum(f) = f[<<n, 0>>] + f[<<n, 1>>]
  BY <1>4, <1>5, SumPair
<1>7. Capacity(created) = a.capacity + change.capacity
  BY <1>5, <1>6 DEF Capacity, f
<1>8. \A o \in DOMAIN created : created[o] \in {a, change}
  BY <1>4
<1> QED
  BY <1>7, <1>8 DEF created, change

LEMMA CreatedTwo ==
  ASSUME NEW n \in 1 .. 6, NEW cells, NEW a, NEW b, Run[n].outputs = <<a, b>>,
         a.capacity \in Nat, b.capacity \in Nat, Change(n, cells).capacity \in Nat
  PROVE  /\ Capacity(Transaction(n, cells).created) =
              a.capacity + b.capacity + Change(n, cells).capacity
         /\ \A o \in DOMAIN Transaction(n, cells).created :
              Transaction(n, cells).created[o] \in {a, b, Change(n, cells)}
<1> DEFINE created == Transaction(n, cells).created
           change == Change(n, cells)
           f == [o \in DOMAIN created |-> created[o].capacity]
           list == Outputs(Run[n], change)
<1>1. created = [o \in {n} \X (0 .. Len(list) - 1) |-> list[o[2] + 1]]
  BY DEF Transaction, Change
<1>2. a.capacity \in Nat /\ b.capacity \in Nat /\ change.capacity \in Nat
  OBVIOUS
<1> HIDE DEF created, change
<1>3. Len(list) = 3 /\ list[1] = a /\ list[2] = b /\ list[3] = change
  BY AppendTwo DEF Outputs
<1> HIDE DEF list
<1>4. /\ DOMAIN created = {<<n, 0>>, <<n, 1>>, <<n, 2>>}
      /\ created[<<n, 0>>] = a /\ created[<<n, 1>>] = b /\ created[<<n, 2>>] = change
  <2>1. created = [o \in {n} \X (0 .. 2) |-> list[o[2] + 1]]
    BY <1>1, <1>3
  <2>2. {n} \X (0 .. 2) = {<<n, 0>>, <<n, 1>>, <<n, 2>>}
    OBVIOUS
  <2>3. <<n, 0>>[2] + 1 = 1 /\ <<n, 1>>[2] + 1 = 2 /\ <<n, 2>>[2] + 1 = 3
    OBVIOUS
  <2> QED
    BY <1>3, <2>1, <2>2, <2>3
<1>5. /\ f \in [{<<n, 0>>, <<n, 1>>, <<n, 2>>} -> Nat] /\ f[<<n, 0>>] = a.capacity
      /\ f[<<n, 1>>] = b.capacity /\ f[<<n, 2>>] = change.capacity
  BY <1>2, <1>4
<1>6. <<n, 0>> # <<n, 1>> /\ <<n, 0>> # <<n, 2>> /\ <<n, 1>> # <<n, 2>>
  OBVIOUS
<1> HIDE DEF f
<1>7. Sum(f) = f[<<n, 0>>] + f[<<n, 1>>] + f[<<n, 2>>]
  <2> DEFINE x == <<n, 0>>
             y == <<n, 1>>
             z == <<n, 2>>
             S == {x, y, z}
  <2>1. /\ f \in [S -> Nat] /\ S = {x, y, z} /\ x # y /\ x # z /\ y # z
        /\ x \in S /\ y \in S /\ z \in S
    BY <1>5, <1>6
  <2> HIDE DEF x, y, z, S
  <2>2. Sum(f) = f[x] + f[y] + f[z]
    BY <2>1, SumTriple
  <2> QED
    BY <2>2 DEF x, y, z
<1>8. Capacity(created) = a.capacity + b.capacity + change.capacity
  BY <1>5, <1>7 DEF Capacity, f
<1>9. \A o \in DOMAIN created : created[o] \in {a, b, change}
  BY <1>4
<1> QED
  BY <1>8, <1>9 DEF created, change

LEMMA Quarter ==
  ASSUME NEW c \in Nat, NEW n \in Nat, c >= n + 100 + 244
  PROVE  /\ (c - n - 100) \div 4 \in Nat /\ (c - n - 100) \div 4 >= 61
         /\ 4 * ((c - n - 100) \div 4) <= c - n - 100
BY SMT

\* How much data the outputs of the publishing steps have.
LEMMA Sizes ==
  /\ \A lock, code : DataLength(Code(lock, code)) = CodeSize
  /\ \A lock, amount, capacity : DataLength(Udt(lock, amount, capacity)) = 16
  /\ \A capacity : Occupied(Plain(lock1, capacity)) = 61
  /\ DataLength(Output(wallet, NoType, "long", 0, 1900, "reuse")) = CodeSize
  /\ CodeSize \in Nat
<1>1. \A lock, code : DataLength(Code(lock, code)) = CodeSize
  BY DEF Code, Output, DataLength
<1>2. \A lock, amount, capacity : DataLength(Udt(lock, amount, capacity)) = 16
  BY DEF Udt, Output, DataLength
<1>3. ASSUME NEW capacity PROVE Occupied(Plain(lock1, capacity)) = 61
  <2>1. /\ Plain(lock1, capacity).lock = lock1 /\ Plain(lock1, capacity).type = NoType
        /\ Plain(lock1, capacity).size = "short"
    BY DEF Plain, Output
  <2>2. DataLength(Plain(lock1, capacity)) = 0
    BY <2>1 DEF DataLength
  <2> QED
    BY <2>1, <2>2, NamesAssumption DEF Occupied
<1>4. DataLength(Output(wallet, NoType, "long", 0, 1900, "reuse")) = CodeSize
  BY DEF Output, DataLength
<1> QED
  BY <1>1, <1>2, <1>3, <1>4, SizeAssumption

\* When an output claims what it takes, the code's size and 2500 CKB are enough.
Affordable(n, cells) ==
  /\ Capacity(Transaction(n, cells).created) <= Capacity(cells) + (IF n = 4 THEN 687 ELSE 0)
  /\ \A o \in DOMAIN Transaction(n, cells).created :
       ~(Transaction(n, cells).created[o].capacity < Occupied(Transaction(n, cells).created[o]))

LEMMA AffordableOne ==
  ASSUME NEW n \in 1 .. 5, NEW cells, Capacity(cells) \in Nat,
         Capacity(cells) >= CodeSize + 2500, ~Underfunded(Run[n]),
         NEW a, Run[n].outputs = <<a>>, a.capacity \in Nat, DataLength(a) \in Nat,
         DataLength(a) <= CodeSize + 16,
         a.capacity <= DataLength(a) + 100 \/ a.capacity <= 1900
  PROVE  Affordable(n, cells)
<1>1. Needed(Run[n].outputs) = 61 + DataLength(a)
  BY NeededOne
<1> DEFINE C == Capacity(cells)
           change == Change(n, cells)
           N == Needed(Run[n].outputs)
<1>2. /\ C \in Nat /\ N \in Nat /\ C >= N + 100 + 244 /\ CodeSize \in Nat
      /\ N = 61 + DataLength(a) /\ C >= DataLength(a) + 2484
  BY <1>1, SizeAssumption
<1>3. change.capacity = (C - N - 100) \div 4 /\ Occupied(change) = 61
  BY KindsCapacity, Sizes DEF Change, Fee
<1>4. /\ change.capacity \in Nat /\ change.capacity >= 61
      /\ 4 * change.capacity <= C - N - 100
  <2> HIDE DEF C, N, change
  <2> QED
    BY <1>2, <1>3, Quarter
<1>5. /\ Capacity(Transaction(n, cells).created) = a.capacity + change.capacity
      /\ \A o \in DOMAIN Transaction(n, cells).created :
           Transaction(n, cells).created[o] \in {a, change}
  <2>1. n \in 1 .. 6
    OBVIOUS
  <2> QED
    BY <1>4, <2>1, CreatedOne
<1>6. ~(a.capacity < Occupied(a))
  <2>1. 1 \in DOMAIN Run[n].outputs /\ Run[n].outputs[1] = a
    OBVIOUS
  <2> QED
    BY <2>1 DEF Underfunded
<1> HIDE DEF change
<1>7. ~(change.capacity < Occupied(change))
  BY <1>3, <1>4
<1>8. a.capacity + change.capacity <= C
  <2> HIDE DEF C, N
  <2>1. CASE a.capacity <= DataLength(a) + 100
    BY <1>2, <1>4, <2>1
  <2>2. CASE a.capacity <= 1900
    BY <1>2, <1>4, <2>2
  <2> QED
    BY <2>1, <2>2
<1>9. Capacity(Transaction(n, cells).created) <= C + (IF n = 4 THEN 687 ELSE 0)
  BY <1>2, <1>4, <1>5, <1>8
<1> QED
  BY <1>5, <1>6, <1>7, <1>9 DEF Affordable

LEMMA AffordableFour ==
  ASSUME NEW cells, Capacity(cells) \in Nat, Capacity(cells) >= CodeSize + 2500, ~Underfunded(Run[4])
  PROVE  Affordable(4, cells)
<1> DEFINE a == Udt(wallet, 1000, 1000)
           b == Udt(lock2, 249000, 1000)
           C == Capacity(cells)
           change == Change(4, cells)
           N == Needed(Run[4].outputs)
<1>0. /\ Run[4].outputs = <<a, b>> /\ a.capacity = 1000 /\ b.capacity = 1000
      /\ DataLength(a) = 16 /\ DataLength(b) = 16
  BY RunSteps, KindsCapacity, Sizes DEF deployWallet, Request
<1> HIDE DEF a, b
<1>1. N = 154
  BY <1>0, NeededTwo
<1>2. C \in Nat /\ N \in Nat /\ C >= N + 100 + 244 /\ C >= 2500
  BY <1>1, SizeAssumption
<1>3. change.capacity = (C - N - 100) \div 4 /\ Occupied(change) = 61
  BY KindsCapacity, Sizes DEF Change, Fee
<1>4. /\ change.capacity \in Nat /\ change.capacity >= 61
      /\ 4 * change.capacity <= C - N - 100
  <2> HIDE DEF C, N, change
  <2> QED
    BY <1>2, <1>3, Quarter
<1>5. /\ Capacity(Transaction(4, cells).created) = a.capacity + b.capacity + change.capacity
      /\ \A o \in DOMAIN Transaction(4, cells).created :
           Transaction(4, cells).created[o] \in {a, b, change}
  <2>1. 4 \in 1 .. 6
    OBVIOUS
  <2>2. a.capacity \in Nat /\ b.capacity \in Nat
    BY <1>0
  <2> QED
    BY <1>0, <1>4, <2>1, <2>2, CreatedTwo
<1>6. ~(a.capacity < Occupied(a)) /\ ~(b.capacity < Occupied(b))
  <2>1. /\ 1 \in DOMAIN Run[4].outputs /\ Run[4].outputs[1] = a
        /\ 2 \in DOMAIN Run[4].outputs /\ Run[4].outputs[2] = b
    BY <1>0
  <2> QED
    BY <2>1 DEF Underfunded
<1> HIDE DEF change
<1>7. ~(change.capacity < Occupied(change))
  BY <1>3, <1>4
<1>8. Capacity(Transaction(4, cells).created) <= C + 687
  <2> HIDE DEF C, N
  <2> QED
    BY <1>0, <1>2, <1>4, <1>5
<1> QED
  BY <1>5, <1>6, <1>7, <1>8 DEF Affordable

LEMMA StepsAffordable ==
  ASSUME NEW n \in 1 .. 5, NEW cells, Capacity(cells) \in Nat,
         Capacity(cells) >= CodeSize + 2500, ~Underfunded(Run[n])
  PROVE  Affordable(n, cells)
<1>1. CASE n = 4
  BY <1>1, AffordableFour
<1>2. ASSUME n # 4
      PROVE  \E a : /\ Run[n].outputs = <<a>> /\ a.capacity \in Nat /\ DataLength(a) \in Nat
                    /\ DataLength(a) <= CodeSize + 16
                    /\ a.capacity <= DataLength(a) + 100 \/ a.capacity <= 1900
  <2>1. CASE n \in {1, 3}
    <3>1. PICK a : Run[n].outputs = <<a>> /\ a.capacity = CodeSize + 100 /\ DataLength(a) = CodeSize
      BY <2>1, RunSteps, KindsCapacity, Sizes DEF deployCodeCells, deployWalletLock, Request
    <3> QED
      BY <3>1, SizeAssumption
  <2>2. CASE n = 2
    <3>1. PICK a : Run[n].outputs = <<a>> /\ a.capacity = 687 /\ DataLength(a) = 16
      BY <2>2, RunSteps, KindsCapacity, Sizes DEF issueUdt, Request
    <3> QED
      BY <3>1, SizeAssumption
  <2>3. CASE n = 5
    <3>1. PICK a : Run[n].outputs = <<a>> /\ a.capacity = 1900 /\ DataLength(a) = CodeSize
      BY <2>3, RunSteps, KindsCapacity, Sizes DEF deployReusableScript, Request
    <3> QED
      BY <3>1, SizeAssumption
  <2> QED
    BY <1>2, <2>1, <2>2, <2>3
<1>3. CASE n # 4
  BY <1>2, <1>3, AffordableOne
<1> QED
  BY <1>1, <1>3

-----------------------------------------------------------------------------
\* What is collected and still available is what it was when it was collected.
LEMMA CollectedCells ==
  ASSUME Chosen, step \in 1 .. 5, NEW o \in DOMAIN collected, o \in Available
  PROVE  Existing[o] = collected[o]
<1>1. (o \in DOMAIN live => live[o] = collected[o]) /\ \A tx \in pool : o \notin DOMAIN tx.created
  BY DEF Chosen
<1>2. o \in DOMAIN live /\ Existing[o] = live[o]
  BY <1>1 DEF Available, Existing, Pending
<1> QED
  BY <1>1, <1>2

\* What a publishing step consumes is what it has collected, and at the fourth the
\* cell issued at the second.
LEMMA Consumed ==
  ASSUME IInv, TInv, Chosen, step \in 1 .. 5,
         NEW inputs, inputs = Run[step].inputs \union DOMAIN collected, inputs \subseteq Available
  PROVE  CapacityAt(Existing, inputs) >= Capacity(collected) + (IF step = 4 THEN 687 ELSE 0)
<1>1. /\ IsFiniteSet(DOMAIN collected) /\ Capacity(collected) \in Nat
      /\ \A o \in inputs : Existing[o].capacity \in Nat
  BY PickedFinite, ExistingFinite
<1>2. CapacityAt(Existing, DOMAIN collected) = Capacity(collected)
  <2>1. \A o \in DOMAIN collected : Existing[o] = collected[o]
    BY CollectedCells
  <2>2. CapacityAt(Existing, DOMAIN collected) = CapacityAt(collected, DOMAIN collected)
    BY <2>1, CapacitySame
  <2> QED
    BY <2>2, CapacityAll
<1>3. CASE step # 4
  <2>1. inputs = DOMAIN collected
    <3>1. step \in {1, 2, 3, 5}
      BY <1>3
    <3>2. Run[step].inputs = {}
      BY <3>1, StepInputs
    <3> QED
      BY <3>2
  <2>2. CapacityAt(Existing, inputs) = Capacity(collected)
    BY <1>2, <2>1
  <2>3. (IF step = 4 THEN 687 ELSE 0) = 0
    BY <1>3
  <2> QED
    BY <1>1, <2>2, <2>3
<1>4. CASE step = 4
  <2>1. inputs = {UdtInstance} \union DOMAIN collected
    BY <1>4, StepInputs
  <2>2. UdtInstance \in Held(step)
    BY <1>4 DEF Held
  <2>3. UdtInstance \notin DOMAIN collected
    BY <2>2 DEF IInv, Unspent
  <2>4. Existing[UdtInstance].capacity = 687
    BY <2>2, HeldThere, CellsHeld, KindsCapacity
  <2>5. IsFiniteSet(inputs)
    <3>1. IsFiniteSet({UdtInstance})
      BY FS_Singleton
    <3>2. IsFiniteSet({UdtInstance} \union DOMAIN collected)
      BY <1>1, <3>1, FS_Union, Zenon
    <3> QED
      BY <2>1, <3>2
  <2>6. DOMAIN collected \in SUBSET inputs /\ inputs \ DOMAIN collected = {UdtInstance}
    BY <2>1, <2>3
  <2>7. CapacityAt(Existing, inputs) =
          CapacityAt(Existing, DOMAIN collected) + CapacityAt(Existing, {UdtInstance})
    BY <1>1, <2>5, <2>6, CapacitySplit
  <2>8. CapacityAt(Existing, {UdtInstance}) = 687
    <3> DEFINE f == [o \in {UdtInstance} |-> Existing[o].capacity]
    <3>1. f \in [{UdtInstance} -> Nat] /\ f[UdtInstance] = 687
      BY <2>4
    <3> HIDE DEF f
    <3>2. Sum(f) = 687
      BY <3>1, SumSingle
    <3> QED
      BY <3>2 DEF CapacityAt, f
  <2> QED
    BY <1>1, <1>2, <1>4, <2>7, <2>8
<1> QED
  BY <1>3, <1>4

\* Why a publishing step may be refused.
LEMMA RefusedFor ==
  ASSUME IInv, TInv, Chosen, step \in 1 .. 5
  PROVE  LET tx == Transaction(step, collected)
         IN  /\ Refusal(tx) = "encoding" => step \in 4 .. 5
             /\ Refusal(tx) = "double_spend" => ~(DOMAIN collected \subseteq Available)
             /\ Refusal(tx) = "capacity" => \/ Capacity(collected) < CodeSize + 2500
                                            \/ Underfunded(Run[step])
<1> DEFINE tx == Transaction(step, collected)
           consumed == [o \in tx.inputs |-> Existing[o]]
<1>1. tx.inputs = Run[step].inputs \union DOMAIN collected
  BY TransactionCreates
<1>2. ASSUME Refusal(tx) = "encoding" PROVE step \in 4 .. 5
  <2> SUFFICES ASSUME step \in 1 .. 3 PROVE FALSE
    OBVIOUS
  <2>1. wallet \in Locks(tx.created)
    BY <1>2, RefusalMeans
  <2>2. PICK o \in DOMAIN tx.created : tx.created[o].lock = wallet
    BY <2>1 DEF Locks
  <2>3. From(tx.created[o], Run[step].outputs, Change(step, collected))
    BY CreatedShaped
  <2>4. Change(step, collected).lock = lock1 /\ lock1 # wallet
    BY NamesAssumption DEF Change, Plain, Output
  <2>5. ASSUME NEW j \in 1 .. Len(Run[step].outputs) PROVE Run[step].outputs[j].lock = lock1
    <3>1. \E a : Run[step].outputs = <<a>> /\ a.lock = lock1
      BY RunSteps DEF deployCodeCells, issueUdt, deployWalletLock, Request, Code, Udt, Output
    <3> QED
      BY <3>1
  <2> HIDE DEF tx
  <2> QED
    BY <2>2, <2>3, <2>4, <2>5 DEF From
<1>3. ASSUME Refusal(tx) = "double_spend" PROVE ~(DOMAIN collected \subseteq Available)
  <2>1. ~(tx.inputs \subseteq Available)
    BY <1>3, RefusalMeans
  <2>2. Run[step].inputs \subseteq Available
    BY PublishingSteps, HeldThere
  <2> QED
    BY <1>1, <2>1, <2>2
<1>4. ASSUME Refusal(tx) = "capacity", Capacity(collected) >= CodeSize + 2500, ~Underfunded(Run[step])
      PROVE  FALSE
  <2>1. Affordable(step, collected)
    BY <1>4, PickedFinite, StepsAffordable
  <2>2. /\ tx.inputs \subseteq Available
        /\ \/ Capacity(tx.created) > Capacity(consumed)
           \/ \E o \in DOMAIN tx.created : tx.created[o].capacity < Occupied(tx.created[o])
    BY <1>4, RefusalMeans
  <2>3. Capacity(tx.created) > Capacity(consumed)
    BY <2>1, <2>2 DEF Affordable
  <2>4. Capacity(consumed) = CapacityAt(Existing, tx.inputs)
    <3>1. DOMAIN consumed = tx.inputs /\ \A o \in tx.inputs : consumed[o] = Existing[o]
      OBVIOUS
    <3> HIDE DEF consumed
    <3>2. CapacityAt(consumed, tx.inputs) = CapacityAt(Existing, tx.inputs)
      BY <3>1, CapacitySame
    <3> QED
      BY <3>1, <3>2, CapacityAll
  <2>5. CapacityAt(Existing, tx.inputs) >= Capacity(collected) + (IF step = 4 THEN 687 ELSE 0)
    BY <1>1, <2>2, Consumed
  <2>6. Capacity(tx.created) <= Capacity(collected) + (IF step = 4 THEN 687 ELSE 0)
    BY <2>1 DEF Affordable
  <2>7. /\ Capacity(tx.created) \in Int /\ CapacityAt(Existing, tx.inputs) \in Nat
        /\ Capacity(collected) \in Nat
    <3>1. tx.inputs \in SUBSET Available
      BY <2>2
    <3>2. CapacityAt(Existing, tx.inputs) \in Nat
      BY <3>1, ExistingFinite, CapacitySplit
    <3>3. Capacity(tx.created) \in Int
      <4>1. /\ IsFiniteSet(DOMAIN tx.created)
            /\ \A o \in DOMAIN tx.created : Shaped(tx.created[o])
        BY CreatedShaped
      <4>2. \A o \in DOMAIN tx.created : tx.created[o].capacity \in Int
        BY PickedFinite, CreatedCapacities
      <4>3. \A o \in DOMAIN tx.created : tx.created[o].capacity \in Nat
        BY <2>1, <4>1, <4>2, OccupiedNat DEF Affordable
      <4> HIDE DEF tx
      <4> QED
        BY <4>1, <4>3, CapacityNat
    <3> QED
      BY <3>2, <3>3, PickedFinite
  <2> HIDE DEF tx, consumed
  <2> QED
    BY <2>3, <2>4, <2>5, <2>6, <2>7
<1>5. Refusal(tx) = "capacity" => Capacity(collected) < CodeSize + 2500 \/ Underfunded(Run[step])
  BY <1>4, PickedFinite, SizeAssumption
<1> QED
  BY <1>2, <1>3, <1>5

\* A publishing step that is refused was refused for the wallet's args, for a cell it
\* collected and another spent, or for want of capacity, and for no other reason.
THEOREM PublishingIsAccepted == Spec => []PublishingAccepted
<1>1. Init => PublishingAccepted
  BY DEF Init, PublishingAccepted
<1>2. /\ IInv /\ TInv /\ Chosen /\ PublishingAccepted
      /\ IInv' /\ [Next]_vars
      => PublishingAccepted'
  <2> SUFFICES ASSUME IInv, TInv, Chosen, PublishingAccepted, IInv', [Next]_vars
               PROVE  PublishingAccepted'
    OBVIOUS
  <2>1. CASE UNCHANGED vars
    BY <2>1 DEF vars, PublishingAccepted, Available, Existing, Pending
  <2>2. CASE Collect
    <3>1. cause = "none" /\ DOMAIN collected = {}
      BY <2>2 DEF Collect, Running
    <3>2. CASE UNCHANGED cause
      BY <3>1, <3>2 DEF PublishingAccepted
    <3>3. CASE cause' = "capacity" /\ UNCHANGED collected
      <4>1. Capacity(collected') = 0
        <5>1. [k \in DOMAIN collected' |-> collected'[k].capacity] \in [{} -> Nat]
          BY <3>1, <3>3
        <5> QED
          BY <5>1, <3>1, <3>3, SumEmpty DEF Capacity
      <4> QED
        BY <3>3, <4>1, SizeAssumption DEF PublishingAccepted
    <3> QED
      BY <2>2, <3>2, <3>3 DEF Collect
  <2>3. CASE Send
    <3>1. step \in 1 .. 6 /\ cause = "none"
      BY <2>3 DEF Send, Running, IInv, Steps
    <3>2. CASE UNCHANGED cause
      BY <3>1, <3>2 DEF PublishingAccepted
    <3>3. CASE /\ cause' = Refusal(Transaction(step, collected))
               /\ UNCHANGED <<live, pool, step, collected>>
      <4>1. Available' = Available
        BY <3>3 DEF Available, Existing, Pending
      <4>2. CASE step \in 1 .. 5
        BY <3>3, <4>1, <4>2, RefusedFor DEF PublishingAccepted
      <4>3. CASE step = 6
        BY <3>3, <4>3 DEF PublishingAccepted
      <4> QED
        BY <3>1, <4>2, <4>3
    <3> QED
      BY <2>3, <3>2, <3>3 DEF Send
  <2>4. CASE Mine
    <3>1. PICK tx \in pool :
            /\ tx.inputs \union tx.deps \subseteq DOMAIN live
            /\ live' = [o \in (DOMAIN live \ tx.inputs) \union DOMAIN tx.created |->
                          IF o \in DOMAIN tx.created THEN tx.created[o] ELSE live[o]]
            /\ pool' = pool \ {tx} /\ UNCHANGED <<step, collected, cause>>
      BY <2>4 DEF Mine
    <3>2. tx.inputs \subseteq DOMAIN live /\ Sound
      BY <3>1 DEF TInv
    <3>3. Available' = Available
      BY <3>1, <3>2, MinedEffect
    <3> QED
      BY <3>1, <3>3 DEF PublishingAccepted
  <2> QED
    BY <2>1, <2>2, <2>3, <2>4 DEF Next
<1>3. Init => Chosen
  BY DEF Init, Chosen
<1>4. IInv /\ Chosen /\ ScriptsNeverRefuse /\ [Next]_vars => Chosen'
  <2> SUFFICES ASSUME SInv, [Next]_vars PROVE Chosen'
    BY DEF SInv
  <2>1. CASE UNCHANGED vars
    BY <2>1 DEF vars, SInv, Chosen
  <2> QED
    BY <2>1, CollectSInv, SendSInv, MineSInv DEF Next
<1> QED
  BY <1>1, <1>2, <1>3, <1>4, TypedAlways, PublishingPassesScripts, PTL DEF Spec
=============================================================================
